---------------------------- MODULE Served_proofs ----------------------------
(***************************************************************************)
(* Two services keep what they promise, for any constants.                 *)
(*                                                                         *)
(* The serial executor: no write is lost sight of, whatever callers there  *)
(* are, however many calls they make and whenever they are cancelled, time *)
(* out or the loop is closed (AbandonedIsKnown).  A job that is still      *)
(* queued has not been submitted (Queued), so that a caller that gives up  *)
(* finds its job in one of three conditions: queued, and then its future,  *)
(* now cancelled, makes the consumer skip it; not begun, and then it is    *)
(* withdrawn; or sent, and then it is reported.                            *)
(*                                                                         *)
(* The market data: the bars of a key are whole unless a close of it was   *)
(* lost (TornOnlyByLoss).  The messages under way follow each other        *)
(* without a gap (InOrder), so what matters is where the next one stands   *)
(* to the last bar: it continues a bar that has closed, or it is not newer *)
(* than one that forms and is ignored or replaces it (Continues).  What    *)
(* REST has read keeps this as long as no close is handled or lost.        *)
(***************************************************************************)
EXTENDS Served, SequenceTheorems, TLAPS

Typed ==
  /\ calls \in [Callers -> Nat] /\ waiting \subseteq Callers /\ cut \subseteq waiting
  /\ fut \in [Jobs -> {"none", "pending", "done", "cancelled"}]
  /\ cf \in [Jobs -> {"none", "submitted", "running", "done", "cancelled"}]
  /\ queue \in Seq(Jobs)
  /\ phase = "await" => current \in Jobs
  /\ abandoned \subseteq Jobs /\ orphans \subseteq abandoned

(* What waits in the queue has not been submitted or answered, and waits   *)
(* there once.                                                             *)
Queued ==
  /\ \A i \in DOMAIN queue :
       /\ cf[queue[i]] = "none" /\ fut[queue[i]] \in {"pending", "cancelled"}
       /\ queue[i][2] <= calls[queue[i][1]]
  /\ \A i, k \in DOMAIN queue : queue[i] = queue[k] => i = k

(* A call that has not been made has left no trace.                        *)
Fresh ==
  \A j \in Jobs : j[2] > calls[j[1]] => cf[j] = "none" /\ fut[j] = "none" /\ j \notin abandoned

(* Nobody waits for the future of an abandoned job, which is not about to  *)
(* begin.                                                                  *)
GivenUp ==
  /\ \A j \in abandoned : fut[j] \in {"cancelled", "done"} /\ cf[j] # "submitted"
  /\ \A j \in Jobs : fut[j] = "done" => cf[j] = "done"
  /\ \A c \in waiting : JobOf(c) \in Jobs /\ fut[JobOf(c)] # "none"

IInv == Typed /\ Queued /\ Fresh /\ GivenUp /\ AbandonedIsKnown

-----------------------------------------------------------------------------
LEMMA JobShape ==
  ASSUME NEW j \in Jobs
  PROVE  j[1] \in Callers /\ j[2] \in 1..MaxCalls[j[1]] /\ j = <<j[1], j[2]>>
  BY DEF Jobs

LEMMA NextJob ==
  ASSUME NEW c \in Callers, calls \in [Callers -> Nat], calls[c] < MaxCalls[c]
  PROVE  <<c, calls[c] + 1>> \in Jobs
  <1>1. calls[c] + 1 \in 1..MaxCalls[c]
    BY GatewayIOAssumption
  <1>2. <<c, calls[c] + 1>> \in {c} \X (1..MaxCalls[c])
    BY <1>1
  <1> QED
    BY <1>2 DEF Jobs

(* What is left when one job is taken out of the queue.                    *)
LEMMA Taken ==
  ASSUME NEW S, NEW q \in Seq(S), NEW i \in DOMAIN q
  PROVE  /\ RemoveAt(q, i) \in Seq(S)
         /\ DOMAIN RemoveAt(q, i) = 1..(Len(q) - 1)
         /\ \A k \in 1..(Len(q) - 1) :
              RemoveAt(q, i)[k] = IF k < i THEN q[k] ELSE q[k + 1]
  <1> DEFINE a == SubSeq(q, 1, i - 1)
             b == SubSeq(q, i + 1, Len(q))
  <1>1. i \in 1..Len(q) /\ Len(q) \in Nat
    OBVIOUS
  <1>2. a \in Seq(S) /\ Len(a) = i - 1 /\ \A k \in 1..(i - 1) : a[k] = q[k]
    BY <1>1
  <1>3. b \in Seq(S) /\ Len(b) = Len(q) - i /\ \A k \in 1..(Len(q) - i) : b[k] = q[k + i]
    BY <1>1
  <1> HIDE DEF a, b
  <1>4. RemoveAt(q, i) = a \o b
    BY DEF RemoveAt, a, b
  <1>5. /\ a \o b \in Seq(S) /\ Len(a \o b) = Len(a) + Len(b)
        /\ \A k \in 1..(Len(a) + Len(b)) :
             (a \o b)[k] = IF k <= Len(a) THEN a[k] ELSE b[k - Len(a)]
    BY <1>2, <1>3, ConcatProperties
  <1>6. Len(a) + Len(b) = Len(q) - 1
    BY <1>1, <1>2, <1>3
  <1>7. ASSUME NEW k \in 1..(Len(q) - 1)
        PROVE  (a \o b)[k] = IF k < i THEN q[k] ELSE q[k + 1]
    <2>1. (a \o b)[k] = IF k <= i - 1 THEN a[k] ELSE b[k - (i - 1)]
      BY <1>2, <1>5, <1>6
    <2>2. k <= i - 1 => a[k] = q[k]
      BY <1>1, <1>2
    <2>3. ASSUME ~(k <= i - 1) PROVE b[k - (i - 1)] = q[k + 1]
      <3>1. k - (i - 1) \in 1..(Len(q) - i) /\ k - (i - 1) + i = k + 1
        BY <1>1, <2>3
      <3> QED
        BY <1>3, <3>1
    <2>4. k <= i - 1 <=> k < i
      BY <1>1
    <2> QED
      BY <2>1, <2>2, <2>3, <2>4, Zenon
  <1>8. DOMAIN (a \o b) = 1..(Len(q) - 1)
    BY <1>5, <1>6
  <1> QED
    BY <1>4, <1>5, <1>7, <1>8, Zenon

LEMMA InitIInv == Init => IInv
  BY DEF Init, IInv, Typed, Queued, Fresh, GivenUp, AbandonedIsKnown, Jobs

-----------------------------------------------------------------------------
(* A call is submitted.                                                    *)
LEMMA SubmitStep ==
  ASSUME IInv, NEW c \in Callers, NEW r, Submit(c, r)
  PROVE  IInv'
<1> DEFINE job == <<c, calls[c] + 1>>
<1> USE DEF IInv
<1>1. job \in Jobs
  BY NextJob DEF Submit, Typed
<1>2. /\ cf' = cf /\ abandoned' = abandoned /\ orphans' = orphans
      /\ fut' = [fut EXCEPT ![job] = "pending"] /\ calls' = [calls EXCEPT ![c] = @ + 1]
      /\ queue' = Append(queue, job) /\ waiting' = waiting \cup {c} /\ cut' = cut
      /\ current' = current
  BY DEF Submit, outcome
<1>3. phase' = phase \/ phase' = "new"
  BY DEF Submit
<1>4. cf[job] = "none" /\ fut[job] = "none" /\ job \notin abandoned
  BY <1>1 DEF Fresh, Typed
<1>5. \A d \in Callers : calls'[d] >= calls[d] /\ calls'[c] = calls[c] + 1
  BY <1>2 DEF Typed
<1> HIDE DEF job
<1>6. Typed'
  BY <1>1, <1>2, <1>3 DEF Typed
<1>7. Queued'
  <2>1. /\ DOMAIN queue' = 1..(Len(queue) + 1) /\ DOMAIN queue = 1..Len(queue)
        /\ \A i \in DOMAIN queue : queue'[i] = queue[i]
        /\ queue'[Len(queue) + 1] = job
    BY <1>1, <1>2 DEF Typed
  <2>2. \A i \in DOMAIN queue : queue[i] # job /\ queue[i] \in Jobs
    <3>1. job[1] = c /\ ~(job[2] <= calls[c])
      BY DEF job, Typed
    <3>2. \A i \in DOMAIN queue : queue[i] \in Jobs
      BY DEF Typed
    <3>3. \A i \in DOMAIN queue : queue[i][2] <= calls[queue[i][1]]
      BY DEF Queued
    <3> QED
      BY <3>1, <3>2, <3>3
  <2>3. \A i \in DOMAIN queue : queue[i][1] \in Callers /\ queue[i][2] \in Int
    BY <2>2, JobShape
  <2>4. \A i \in DOMAIN queue : /\ cf'[queue[i]] = "none" /\ fut'[queue[i]] \in {"pending", "cancelled"}
                                /\ queue[i][2] <= calls'[queue[i][1]]
    BY <1>2, <1>5, <2>2, <2>3 DEF Queued, Typed
  <2>5. cf'[job] = "none" /\ fut'[job] = "pending" /\ job[2] <= calls'[job[1]]
    BY <1>1, <1>2, <1>4, <1>5 DEF Typed, job
  <2>6. Len(queue) \in Nat
    BY DEF Typed
  <2> QED
    BY <2>1, <2>2, <2>4, <2>5, <2>6 DEF Queued
<1>8. Fresh'
  <2> SUFFICES ASSUME NEW j \in Jobs, j[2] > calls'[j[1]]
               PROVE  cf'[j] = "none" /\ fut'[j] = "none" /\ j \notin abandoned'
    BY DEF Fresh
  <2>1. j[1] \in Callers /\ j[2] \in Int
    BY JobShape
  <2>2. j[2] > calls[j[1]]
    <3>1. calls'[j[1]] \in Nat /\ calls[j[1]] \in Nat
      BY <1>6, <2>1 DEF Typed
    <3> QED
      BY <1>5, <2>1, <3>1
  <2>3. j # job
    BY <1>5, <2>1 DEF job, Typed
  <2> QED
    BY <1>1, <1>2, <2>2, <2>3 DEF Fresh, Typed
<1>9. GivenUp'
  <2>1. \A d \in Callers : d # c => calls'[d] = calls[d]
    BY <1>2 DEF Typed
  <2>2. \A d \in waiting' : JobOf(d)' = IF d = c THEN job ELSE JobOf(d)
    BY <1>2, <1>5, <2>1 DEF JobOf, job, Typed
  <2>3. fut'[job] = "pending" /\ \A j \in Jobs \ {job} : fut'[j] = fut[j]
    BY <1>1, <1>2 DEF Typed
  <2>4. \A j \in abandoned' : fut'[j] \in {"cancelled", "done"} /\ cf'[j] # "submitted"
    BY <1>2, <1>4, <2>3 DEF GivenUp, Typed
  <2>5. \A j \in Jobs : fut'[j] = "done" => cf'[j] = "done"
    BY <1>2, <2>3 DEF GivenUp
  <2>6. \A d \in waiting' : JobOf(d)' \in Jobs /\ fut'[JobOf(d)'] # "none"
    BY <1>1, <1>2, <2>2, <2>3 DEF GivenUp
  <2> QED
    BY <2>4, <2>5, <2>6 DEF GivenUp
<1>10. AbandonedIsKnown'
  BY <1>2 DEF AbandonedIsKnown
<1> QED
  BY <1>6, <1>7, <1>8, <1>9, <1>10

-----------------------------------------------------------------------------
(* The consumer.                                                           *)

(* A turn of the consumer that leaves the queue alone.                     *)
LEMMA TurnStep ==
  ASSUME IInv, UNCHANGED <<calls, waiting, cut, cf, queue, abandoned, orphans>>,
         phase' = "await" => current' \in Jobs, UNCHANGED fut
  PROVE  IInv'
<1> USE DEF IInv
<1>1. Typed' /\ Queued' /\ Fresh'
  BY DEF Typed, Queued, Fresh
<1>2. GivenUp'
  BY DEF GivenUp, JobOf
<1>3. AbandonedIsKnown'
  BY DEF AbandonedIsKnown
<1> QED
  BY <1>1, <1>2, <1>3

LEMMA TakesStep ==
  ASSUME IInv, WorkerTakes
  PROVE  IInv'
<1> USE DEF IInv
<1>1. PICK i \in DOMAIN queue :
        \/ /\ fut[queue[i]] = "cancelled"
           /\ Onward(RemoveAt(queue, i), Tail(ready)) /\ UNCHANGED cf
        \/ /\ fut[queue[i]] # "cancelled"
           /\ cf' = [cf EXCEPT ![queue[i]] = "submitted"]
           /\ current' = queue[i] /\ phase' = "await"
           /\ queue' = RemoveAt(queue, i) /\ ready' = Tail(ready)
  BY DEF WorkerTakes
<1> DEFINE job == queue[i]
<1>2. UNCHANGED <<calls, waiting, cut, fut, abandoned, orphans>> /\ queue' = RemoveAt(queue, i)
  BY <1>1 DEF WorkerTakes, WorkerRuns, callerVars, outcome, Onward
<1>3. queue \in Seq(Jobs) /\ job \in Jobs
  BY DEF Typed
<1>4. /\ queue' \in Seq(Jobs) /\ DOMAIN queue' = 1..(Len(queue) - 1)
      /\ \A k \in DOMAIN queue' : queue'[k] = IF k < i THEN queue[k] ELSE queue[k + 1]
  BY <1>2, <1>3, Taken
<1>5. \A k \in DOMAIN queue' : \E m \in DOMAIN queue \ {i} :
        queue'[k] = queue[m] /\ m = IF k < i THEN k ELSE k + 1
  BY <1>3, <1>4
<1>6. \A k \in DOMAIN queue' : queue'[k] \in Jobs \ {job}
  BY <1>3, <1>5 DEF Queued, Typed
<1>7. \A k \in DOMAIN queue' : /\ cf[queue'[k]] = "none" /\ fut[queue'[k]] \in {"pending", "cancelled"}
                               /\ queue'[k][2] <= calls[queue'[k][1]]
  BY <1>5 DEF Queued
<1>8. \A k, m \in DOMAIN queue' : queue'[k] = queue'[m] => k = m
  BY <1>4, <1>5 DEF Queued
<1>9. /\ cf[job] = "none" /\ fut[job] \in {"pending", "cancelled"} /\ job[2] <= calls[job[1]]
  BY DEF Queued
<1>10. CASE UNCHANGED cf /\ phase' # "await"
  <2>1. Typed' /\ Queued' /\ Fresh'
    BY <1>2, <1>4, <1>7, <1>8, <1>10 DEF Typed, Queued, Fresh
  <2>2. GivenUp' /\ AbandonedIsKnown'
    BY <1>2, <1>10 DEF GivenUp, AbandonedIsKnown, JobOf
  <2> QED
    BY <2>1, <2>2
<1>11. CASE fut[job] # "cancelled" /\ cf' = [cf EXCEPT ![job] = "submitted"] /\ current' = job
  <2>1. fut[job] = "pending" /\ job \notin abandoned
    BY <1>9, <1>11 DEF GivenUp
  <2>2. cf'[job] = "submitted" /\ \A j \in Jobs \ {job} : cf'[j] = cf[j]
    BY <1>3, <1>11 DEF Typed
  <2>3. Typed'
    BY <1>2, <1>3, <1>4, <1>11 DEF Typed
  <2>4. Queued'
    BY <1>2, <1>6, <1>7, <1>8, <2>2 DEF Queued
  <2>5. Fresh'
    <3> SUFFICES ASSUME NEW j \in Jobs, j[2] > calls'[j[1]]
                 PROVE  cf'[j] = "none" /\ fut'[j] = "none" /\ j \notin abandoned'
      BY DEF Fresh
    <3>1. calls[j[1]] \in Nat /\ j[2] \in Int
      BY JobShape DEF Typed
    <3>2. j # job
      BY <1>2, <1>9, <3>1
    <3> QED
      BY <1>2, <2>2, <3>2 DEF Fresh
  <2>6. GivenUp'
    <3>1. \A j \in abandoned' : fut'[j] \in {"cancelled", "done"} /\ cf'[j] # "submitted"
      BY <1>2, <2>1, <2>2 DEF GivenUp, Typed
    <3>2. \A j \in Jobs : fut'[j] = "done" => cf'[j] = "done"
      BY <1>2, <2>1, <2>2 DEF GivenUp
    <3> QED
      BY <1>2, <3>1, <3>2 DEF GivenUp, JobOf
  <2>7. AbandonedIsKnown'
    BY <1>2, <2>1, <2>2 DEF AbandonedIsKnown, Typed
  <2> QED
    BY <2>3, <2>4, <2>5, <2>6, <2>7
<1> QED
  BY <1>1, <1>10, <1>11 DEF Onward

LEMMA AnswersStep ==
  ASSUME IInv, WorkerAnswers
  PROVE  IInv'
<1> USE DEF IInv
<1>1. UNCHANGED <<calls, waiting, cut, cf, queue, abandoned, orphans>> /\ phase' # "await"
  BY DEF WorkerAnswers, WorkerRuns, callerVars, outcome, Onward
<1>2. current \in Jobs /\ cf[current] = "done"
  BY DEF WorkerAnswers, Typed
<1>3. CASE fut[current] # "pending"
  <2>1. UNCHANGED fut
    BY <1>3 DEF WorkerAnswers
  <2> QED
    BY <1>1, <2>1, TurnStep
<1>4. CASE fut[current] = "pending"
  <2>1. fut' = [fut EXCEPT ![current] = "done"]
    BY <1>4 DEF WorkerAnswers
  <2>2. fut'[current] = "done" /\ \A j \in Jobs \ {current} : fut'[j] = fut[j]
    BY <1>2, <2>1 DEF Typed
  <2>3. current \notin abandoned
    BY <1>4 DEF GivenUp
  <2>4. Typed'
    BY <1>1, <2>1 DEF Typed
  <2>5. Queued'
    <3>1. \A i \in DOMAIN queue : queue[i] \in Jobs /\ queue[i] # current
      BY <1>2 DEF Queued, Typed
    <3> QED
      BY <1>1, <2>2, <3>1 DEF Queued
  <2>6. Fresh'
    BY <1>1, <1>2, <2>2 DEF Fresh
  <2>7. GivenUp'
    BY <1>1, <1>2, <2>2, <2>3 DEF GivenUp, Typed, JobOf
  <2>8. AbandonedIsKnown'
    BY <1>1 DEF AbandonedIsKnown
  <2> QED
    BY <2>4, <2>5, <2>6, <2>7, <2>8
<1> QED
  BY <1>3, <1>4

LEMMA WorkerStep ==
  ASSUME IInv, WorkerStarts \/ WorkerTakes \/ WorkerAnswers \/ WorkerSkips \/ WorkerCancelled
  PROVE  IInv'
<1>1. CASE WorkerStarts
  BY <1>1, TurnStep DEF WorkerStarts, WorkerRuns, callerVars, outcome, Onward
<1>2. CASE WorkerSkips
  BY <1>2, TurnStep DEF WorkerSkips, WorkerGoesOn, WorkerRuns, callerVars, outcome, Onward
<1>3. CASE WorkerCancelled
  BY <1>3, TurnStep DEF WorkerCancelled, WorkerRuns, callerVars, outcome
<1> QED
  BY <1>1, <1>2, <1>3, TakesStep, AnswersStep

-----------------------------------------------------------------------------
(* The thread, which begins and ends only what has been submitted.         *)
LEMMA ThreadKeeps ==
  ASSUME IInv, NEW j \in Jobs, Executes(j) \/ Finishes(j)
  PROVE  IInv'
<1> USE DEF IInv
<1>1. UNCHANGED <<calls, waiting, cut, fut, queue, phase, current, abandoned, orphans>>
  BY DEF Executes, Finishes, callerVars, workerVars, outcome
<1>2. \/ cf[j] = "submitted" /\ cf' = [cf EXCEPT ![j] = "running"]
      \/ cf[j] = "running" /\ cf' = [cf EXCEPT ![j] = "done"]
  BY DEF Executes, Finishes
<1>3. \A k \in Jobs \ {j} : cf'[k] = cf[k]
  BY <1>2 DEF Typed
<1>4. \/ cf[j] = "submitted" /\ cf'[j] = "running"
      \/ cf[j] = "running" /\ cf'[j] = "done"
  BY <1>2 DEF Typed
<1>5. Typed'
  BY <1>1, <1>2 DEF Typed
<1>6. Queued'
  <2>1. \A i \in DOMAIN queue : queue[i] \in Jobs /\ queue[i] # j
    BY <1>4 DEF Queued, Typed
  <2> QED
    BY <1>1, <1>3, <2>1 DEF Queued
<1>7. Fresh'
  BY <1>1, <1>3, <1>4 DEF Fresh
<1>8. GivenUp'
  BY <1>1, <1>3, <1>4 DEF GivenUp, Typed, JobOf
<1>9. AbandonedIsKnown'
  BY <1>1, <1>3, <1>4 DEF AbandonedIsKnown, GivenUp, Typed
<1> QED
  BY <1>5, <1>6, <1>7, <1>8, <1>9

-----------------------------------------------------------------------------
(* The callers.                                                            *)

(* Futures may only be cancelled, and jobs withdrawn, by these steps.      *)
LEMMA CutKeeps ==
  ASSUME IInv, NEW cs, CutFutures(cs),
         calls' = calls, waiting' = waiting, cut' \subseteq waiting, queue' = queue,
         phase' = phase, current' = current, abandoned' = abandoned, orphans' = orphans,
         \/ cf' = cf
         \/ cf' = [j \in Jobs |-> IF cf[j] = "submitted" THEN "cancelled" ELSE cf[j]]
  PROVE  IInv'
<1> USE DEF IInv
<1>1. /\ fut' \in [Jobs -> {"none", "pending", "done", "cancelled"}]
      /\ \A j \in Jobs : fut'[j] = fut[j] \/ (fut[j] = "pending" /\ fut'[j] = "cancelled")
  BY DEF CutFutures, Typed
<1>2. /\ cf' \in [Jobs -> {"none", "submitted", "running", "done", "cancelled"}]
      /\ \A j \in Jobs : cf'[j] = cf[j] \/ (cf[j] = "submitted" /\ cf'[j] = "cancelled")
  BY DEF Typed
<1>3. Typed'
  BY <1>1, <1>2 DEF Typed
<1>4. Queued'
  <2>1. \A i \in DOMAIN queue : queue[i] \in Jobs
    BY DEF Typed
  <2> QED
    BY <1>1, <1>2, <2>1 DEF Queued
<1>5. Fresh'
  BY <1>1, <1>2 DEF Fresh
<1>6. GivenUp'
  <2>1. \A j \in abandoned : j \in Jobs
    BY DEF Typed
  <2>2. \A j \in abandoned' : fut'[j] \in {"cancelled", "done"} /\ cf'[j] # "submitted"
    BY <1>1, <1>2, <2>1 DEF GivenUp
  <2>3. \A j \in Jobs : fut'[j] = "done" => cf'[j] = "done"
    BY <1>1, <1>2 DEF GivenUp
  <2>4. \A c \in waiting' : JobOf(c)' \in Jobs /\ fut'[JobOf(c)'] # "none"
    BY <1>1 DEF GivenUp, JobOf
  <2> QED
    BY <2>2, <2>3, <2>4 DEF GivenUp
<1>7. AbandonedIsKnown'
  BY <1>2 DEF AbandonedIsKnown, GivenUp, Typed
<1> QED
  BY <1>3, <1>4, <1>5, <1>6, <1>7

(* A caller gives up.                                                      *)
LEMMA AbandonsStep ==
  ASSUME IInv, NEW c \in Callers, Abandons(c)
  PROVE  IInv'
<1> DEFINE job == JobOf(c)
<1> USE DEF IInv
<1>1. c \in waiting /\ job \in Jobs /\ fut[job] # "none"
  BY DEF Abandons, Typed, GivenUp
<1>2. job[1] = c /\ job[2] = calls[c]
  BY DEF JobOf
<1>3. /\ waiting' = waiting \ {c} /\ cut' = cut \ {c}
      /\ calls' = calls /\ queue' = queue /\ phase' = phase /\ current' = current
      /\ cf' = [cf EXCEPT ![job] = IF @ = "submitted" THEN "cancelled" ELSE @]
      /\ fut' = [fut EXCEPT ![job] = IF @ = "pending" THEN "cancelled" ELSE @]
      /\ abandoned' = abandoned \cup {job}
      /\ orphans' = IF c \in Mutating /\ cf[job] # "none" /\ ~Withdrawn(job)
                      THEN orphans \cup {job} ELSE orphans
  BY DEF Abandons, Withdraw, workerVars
<1>4. /\ \A j \in Jobs \ {job} : cf'[j] = cf[j] /\ fut'[j] = fut[j]
      /\ cf'[job] = IF cf[job] = "submitted" THEN "cancelled" ELSE cf[job]
      /\ fut'[job] = IF fut[job] = "pending" THEN "cancelled" ELSE fut[job]
  BY <1>1, <1>3 DEF Typed
<1>5. calls[c] \in Nat
  BY DEF Typed
<1> HIDE DEF job
<1>6. Typed'
  BY <1>1, <1>3 DEF Typed
<1>7. Queued'
  <2>1. \A i \in DOMAIN queue : queue[i] \in Jobs
    BY DEF Typed
  <2> QED
    BY <1>3, <1>4, <2>1 DEF Queued
<1>8. Fresh'
  <2> SUFFICES ASSUME NEW j \in Jobs, j[2] > calls'[j[1]]
               PROVE  cf'[j] = "none" /\ fut'[j] = "none" /\ j \notin abandoned'
    BY DEF Fresh
  <2>1. j # job
    BY <1>2, <1>3, <1>5
  <2> QED
    BY <1>3, <1>4, <2>1 DEF Fresh
<1>9. GivenUp'
  <2>1. \A d \in waiting' : JobOf(d)' = JobOf(d) /\ JobOf(d) \in Jobs /\ fut[JobOf(d)] # "none"
    BY <1>3 DEF GivenUp, JobOf
  <2>2. fut[job] \in {"pending", "done", "cancelled"}
    BY <1>1 DEF Typed
  <2>3. \A j \in abandoned' : fut'[j] \in {"cancelled", "done"} /\ cf'[j] # "submitted"
    BY <1>3, <1>4, <2>2 DEF GivenUp, Typed
  <2>4. \A j \in Jobs : fut'[j] = "done" => cf'[j] = "done"
    BY <1>4 DEF GivenUp
  <2>5. \A d \in waiting' : JobOf(d)' \in Jobs /\ fut'[JobOf(d)'] # "none"
    BY <1>4, <2>1
  <2> QED
    BY <2>3, <2>4, <2>5 DEF GivenUp
<1>10. AbandonedIsKnown'
  <2> SUFFICES ASSUME NEW j \in abandoned', j[1] \in Mutating
               PROVE  j \in orphans' <=> cf'[j] \in {"running", "done"}
    BY DEF AbandonedIsKnown
  <2>1. CASE j # job
    <3>1. j \in abandoned /\ j \in Jobs /\ (j \in orphans' <=> j \in orphans)
      BY <1>3, <2>1 DEF Typed
    <3> QED
      BY <1>4, <2>1, <3>1 DEF AbandonedIsKnown
  <2>2. CASE j = job
    <3>1. cf[job] \in {"none", "submitted", "running", "done", "cancelled"} /\ c \in Mutating
      BY <1>1, <1>2, <2>2 DEF Typed
    <3>2. job \in orphans => cf[job] \in {"running", "done"}
      BY <1>2, <3>1 DEF AbandonedIsKnown, Typed
    <3> QED
      BY <1>3, <1>4, <2>2, <3>1, <3>2 DEF Withdrawn
  <2> QED
    BY <2>1, <2>2
<1> QED
  BY <1>6, <1>7, <1>8, <1>9, <1>10

LEMMA CallerStep ==
  ASSUME IInv, NEW c \in Callers, Call(c) \/ Interrupt(c) \/ Returns(c) \/ ReturnsAndCalls(c)
  PROVE  IInv'
<1> USE DEF IInv
<1>1. CASE Call(c) \/ ReturnsAndCalls(c)
  BY <1>1, SubmitStep DEF Call, ReturnsAndCalls
<1>2. CASE Interrupt(c)
  <2>1. cut' \subseteq waiting
    BY <1>2 DEF Interrupt, Typed
  <2> QED
    BY <1>2, <2>1, CutKeeps DEF Interrupt, workerVars, outcome
<1>3. CASE Returns(c)
  <2>1. /\ waiting' = waiting \ {c} /\ c \notin cut
        /\ UNCHANGED <<calls, cut, fut, cf, queue, phase, current, abandoned, orphans>>
    BY <1>3 DEF Returns, workerVars, outcome
  <2>2. Typed'
    BY <2>1 DEF Typed
  <2>3. Queued' /\ Fresh' /\ AbandonedIsKnown'
    BY <2>1 DEF Queued, Fresh, AbandonedIsKnown
  <2>4. GivenUp'
    BY <2>1 DEF GivenUp, JobOf
  <2> QED
    BY <2>2, <2>3, <2>4
<1> QED
  BY <1>1, <1>2, <1>3

-----------------------------------------------------------------------------
LEMMA NextStep ==
  ASSUME IInv, [Next]_vars
  PROVE  IInv'
<1>1. CASE WorkerStarts \/ WorkerTakes \/ WorkerAnswers \/ WorkerSkips \/ WorkerCancelled
  BY <1>1, WorkerStep
<1>2. CASE \E j \in Jobs : Relays(j)
  BY <1>2, TurnStep DEF Relays, callerVars, workerVars, outcome, IInv, Typed
<1>3. CASE \E c \in Callers : Call(c) \/ Interrupt(c) \/ Returns(c) \/ ReturnsAndCalls(c)
  BY <1>3, CallerStep
<1>4. CASE \E c \in Callers : Abandons(c)
  BY <1>4, AbandonsStep
<1>5. CASE ThreadStep
  BY <1>5, ThreadKeeps DEF ThreadStep
<1>6. CASE Shutdown
  <2>1. CutFutures(waiting \ cut) /\ cut' \subseteq waiting
    BY <1>6 DEF Shutdown
  <2> QED
    BY <1>6, <2>1, CutKeeps DEF Shutdown, workerVars, outcome
<1>7. CASE UNCHANGED vars
  BY <1>7, TurnStep DEF vars, callerVars, workerVars, outcome, IInv, Typed
<1> QED
  BY <1>1, <1>2, <1>3, <1>4, <1>5, <1>6, <1>7 DEF Next, LoopStep

(* A write whose caller has given up is reported as an orphan exactly when *)
(* it is being or has been executed: no write is sent unnoticed after      *)
(* run_gateway_io has raised.                                              *)
THEOREM WritesAccounted == Spec => []AbandonedIsKnown
<1>1. IInv => AbandonedIsKnown
  BY DEF IInv
<1> QED
  BY <1>1, InitIInv, NextStep, PTL DEF Spec

-----------------------------------------------------------------------------
(* The market data.  A message is of one bar: it has its time, and it is a *)
(* close or none.  A close is sent for every key.                          *)
Bars == [t : Nat, closed : BOOLEAN]
Messages == UNION {[K -> Bars] : K \in SUBSET Keys}
TimeOf(m) == m[CHOOSE k \in DOMAIN m : TRUE].t
IsMessage(m) ==
  /\ DOMAIN m # {} /\ DOMAIN m \subseteq Keys /\ TimeOf(m) \in Nat
  /\ \A k \in DOMAIN m : m[k] \in Bars /\ m[k].t = TimeOf(m) /\ (m[k].closed = TRUE <=>
       Feed!Closes(m))
  /\ Feed!Closes(m) => DOMAIN m = Keys

(* The bar after a message, and the bar that the next message is of.       *)
NextBar(m) == IF Feed!Closes(m) THEN TimeOf(m) + 1 ELSE TimeOf(m)
FrontBar == IF wire = <<>> THEN now ELSE TimeOf(wire[1])

FeedTyped ==
  /\ now \in Nat \ {0} /\ bars \in [Keys -> Seq(Bars)]
  /\ wire \in Seq(Messages) /\ (feed # "run" => wire = <<>>)
  /\ todo \subseteq Keys /\ spoiled \in BOOLEAN

(* The messages follow each other without a gap, and lead to what forms.   *)
InOrder ==
  /\ \A i \in 1..Len(wire) : IsMessage(wire[i]) /\ TimeOf(wire[i]) <= now
  /\ \A i \in 1..(Len(wire) - 1) : TimeOf(wire[i + 1]) = NextBar(wire[i])
  /\ wire # <<>> => NextBar(wire[Len(wire)]) = now
  /\ \A i \in 1..Len(wire) : (\A j \in i..Len(wire) : ~Feed!Closes(wire[j])) =>
       TimeOf(wire[i]) = now

(* The next message continues the bars, or is of one that they have.       *)
Continues(s, front) ==
  s # <<>> => \/ Feed!Last(s).closed = FALSE /\ Feed!Last(s).t >= front
              \/ Feed!Last(s).closed = TRUE /\ Feed!Last(s).t + 1 = front
WholeSoFar == \A k \in Keys \ torn : Feed!Whole(bars[k]) /\ Continues(bars[k], FrontBar)

(* What REST has read can still be continued, unless it was spoiled.       *)
ReadWhole ==
  fetching # Feed!Nothing =>
    /\ fetching.key \in Keys /\ fetching.history \in Seq(Bars)
    /\ Feed!Whole(fetching.history)
    /\ spoiled = FALSE => Continues(fetching.history, FrontBar)

FeedInv == Keys # {} => FeedTyped /\ InOrder /\ WholeSoFar /\ ReadWhole

LEMMA KeepsTail ==
  ASSUME NEW s \in Seq(Bars)
  PROVE  /\ Feed!Keep(s) \in Seq(Bars)
         /\ s # <<>> => Feed!Keep(s) # <<>> /\ Feed!Last(Feed!Keep(s)) = Feed!Last(s)
         /\ Feed!Whole(s) => Feed!Whole(Feed!Keep(s))
  <1>1. Depth \in Nat \ {0} /\ Len(s) \in Nat
    BY FeedAssumption
  <1>2. CASE Len(s) <= Depth
    BY <1>1, <1>2 DEF Feed!Keep
  <1>3. CASE Len(s) > Depth
    <2>1. PICK o : o = Len(s) - Depth
      OBVIOUS
    <2>2. o \in Nat /\ o + Depth = Len(s)
      BY <1>1, <1>3, <2>1
    <2>3. PICK q : q = SubSeq(s, Len(s) - Depth + 1, Len(s))
      OBVIOUS
    <2>4. q = [i \in 1..Depth |-> s[i + o]]
      <3>1. q = SubSeq(s, o + 1, o + Depth)
        BY <2>1, <2>2, <2>3
      <3> QED
        BY <1>1, <2>2, <3>1
    <2>5. \A i \in 1..Depth : s[i + o] \in Bars
      BY <1>1, <2>2
    <2>6. q \in Seq(Bars) /\ Len(q) = Depth /\ \A i \in 1..Depth : q[i] = s[i + o]
      <3>1. q \in [1..Depth -> Bars]
        BY <2>4, <2>5
      <3> QED
        BY <1>1, <2>4, <3>1, SeqDef
    <2>7. Feed!Keep(s) = q
      BY <1>1, <1>3, <2>3 DEF Feed!Keep
    <2>8. Feed!Last(q) = Feed!Last(s) /\ q # <<>>
      BY <1>1, <2>2, <2>6 DEF Feed!Last
    <2>9. Feed!Whole(s) => Feed!Whole(q)
      <3> SUFFICES ASSUME Feed!Whole(s), NEW i \in 1..(Len(q) - 1)
                   PROVE  q[i].closed /\ q[i + 1].t = q[i].t + 1
        BY DEF Feed!Whole
      <3>1. i \in 1..Depth /\ i + 1 \in 1..Depth /\ i + o \in 1..(Len(s) - 1)
            /\ i + 1 + o = i + o + 1
        BY <1>1, <2>2, <2>6
      <3>2. q[i] = s[i + o] /\ q[i + 1] = s[i + o + 1]
        BY <2>6, <3>1
      <3> QED
        BY <3>1, <3>2 DEF Feed!Whole
    <2> QED
      BY <2>6, <2>7, <2>8, <2>9
  <1> QED
    BY <1>1, <1>2, <1>3

(* What REST returns is whole, and ends with the bar that is forming.      *)
LEMMA HistoryWhole ==
  ASSUME now \in Nat \ {0}
  PROVE  /\ Feed!History \in Seq(Bars) /\ Feed!History # <<>> /\ Feed!Whole(Feed!History)
         /\ Feed!Last(Feed!History).t = now /\ Feed!Last(Feed!History).closed = FALSE
  <1>1. PICK h : h = [t \in 1..now |-> Feed!Bar(t, t < now)]
    OBVIOUS
  <1>2. h \in Seq(Bars) /\ Len(h) = now
    <2>1. \A t \in 1..now : Feed!Bar(t, t < now) \in Bars
      BY DEF Feed!Bar, Bars
    <2>2. h \in [1..now -> Bars]
      BY <1>1, <2>1
    <2> QED
      BY <2>2, SeqDef
  <1>3. \A t \in 1..now : h[t].t = t /\ h[t].closed = (t < now)
    BY <1>1 DEF Feed!Bar
  <1>4. Feed!Whole(h)
    <2> SUFFICES ASSUME NEW i \in 1..(Len(h) - 1)
                 PROVE  h[i].closed /\ h[i + 1].t = h[i].t + 1
      BY DEF Feed!Whole
    <2>1. i \in 1..now /\ i + 1 \in 1..now /\ i < now
      BY <1>2
    <2> QED
      BY <1>3, <2>1
  <1>5. Feed!Last(h).t = now /\ Feed!Last(h).closed = FALSE /\ h # <<>>
    <2>1. now \in 1..now /\ Feed!Last(h) = h[now]
      BY <1>2 DEF Feed!Last
    <2>2. h[now].closed = (now < now) /\ h[now].t = now
      BY <1>3, <2>1
    <2>3. (now < now) = FALSE
      OBVIOUS
    <2>4. h # <<>>
      BY <1>2
    <2> QED
      BY <2>1, <2>2, <2>3, <2>4
  <1>6. Feed!History = Feed!Keep(h)
    BY <1>1 DEF Feed!History
  <1> QED
    BY <1>2, <1>4, <1>5, <1>6, KeepsTail

LEMMA CandleTyped ==
  ASSUME NEW s \in Seq(Bars), NEW bar \in Bars
  PROVE  Feed!OnCandle(s, bar) \in Seq(Bars)
  <1>1. Append(s, bar) \in Seq(Bars)
    OBVIOUS
  <1>2. Feed!Keep(Append(s, bar)) \in Seq(Bars)
    BY <1>1, KeepsTail
  <1>3. s # <<>> => [s EXCEPT ![Len(s)] = bar] \in Seq(Bars)
    OBVIOUS
  <1> QED
    BY <1>2, <1>3 DEF Feed!OnCandle

(* A bar that continues what is there leaves it whole.                     *)
LEMMA CandleContinues ==
  ASSUME NEW s \in Seq(Bars), Feed!Whole(s), NEW bar \in Bars, Continues(s, bar.t)
  PROVE  /\ Feed!OnCandle(s, bar) \in Seq(Bars) /\ Feed!Whole(Feed!OnCandle(s, bar))
         /\ bar.closed = FALSE => Continues(Feed!OnCandle(s, bar), bar.t)
         /\ bar.closed = TRUE => Continues(Feed!OnCandle(s, bar), bar.t + 1)
  <1>1. bar.t \in Nat /\ bar.closed \in BOOLEAN /\ Len(s) \in Nat
    BY DEF Bars
  <1>2. s # <<>> => /\ Feed!Last(s) \in Bars /\ Feed!Last(s).t \in Nat
          /\ Feed!Last(s).closed \in BOOLEAN
                    /\ Len(s) >= 1 /\ Feed!Last(s) = s[Len(s)]
    <2> SUFFICES ASSUME s # <<>>
                 PROVE  /\ Feed!Last(s) \in Bars /\ Feed!Last(s).t \in Nat
                             /\ Feed!Last(s).closed \in BOOLEAN
                        /\ Len(s) >= 1 /\ Feed!Last(s) = s[Len(s)]
      OBVIOUS
    <2>1. Len(s) >= 1 /\ Len(s) \in 1..Len(s)
      BY <1>1
    <2>2. Feed!Last(s) = s[Len(s)] /\ s[Len(s)] \in Bars
      BY <2>1 DEF Feed!Last
    <2> QED
      BY <2>1, <2>2 DEF Bars
  <1>3. CASE s = <<>> \/ bar.t > Feed!Last(s).t
    <2>1. PICK q : q = Append(s, bar)
      OBVIOUS
    <2>2. /\ q \in Seq(Bars) /\ q # <<>> /\ Len(q) = Len(s) + 1
          /\ \A i \in 1..Len(s) : q[i] = s[i]
          /\ q[Len(s) + 1] = bar
      BY <2>1
    <2>3. Feed!Last(q) = bar
      BY <2>2 DEF Feed!Last
    <2>4. Feed!Whole(q)
      <3> SUFFICES ASSUME NEW i \in 1..(Len(q) - 1)
                   PROVE  q[i].closed /\ q[i + 1].t = q[i].t + 1
        BY DEF Feed!Whole
      <3>1. i \in 1..Len(s)
        BY <1>1, <2>2
      <3>2. CASE i < Len(s)
        <4>1. i \in 1..(Len(s) - 1) /\ i + 1 \in 1..Len(s)
          BY <1>1, <3>1, <3>2
        <4>2. q[i] = s[i] /\ q[i + 1] = s[i + 1]
          BY <2>2, <4>1, <3>1
        <4> QED
          BY <4>1, <4>2 DEF Feed!Whole
      <3>3. CASE i = Len(s)
        <4>1. s # <<>>
          BY <3>1
        <4>2. Feed!Last(s).closed = TRUE /\ Feed!Last(s).t + 1 = bar.t
          BY <1>1, <1>2, <1>3, <4>1 DEF Continues
        <4>3. q[i] = Feed!Last(s) /\ q[i + 1] = bar
          BY <1>2, <2>2, <3>1, <3>3, <4>1
        <4> QED
          BY <4>2, <4>3
      <3> QED
        BY <1>1, <3>1, <3>2, <3>3
    <2>5. Feed!OnCandle(s, bar) = Feed!Keep(q)
      BY <1>3, <2>1 DEF Feed!OnCandle
    <2>6. Feed!Keep(q) \in Seq(Bars) /\ Feed!Whole(Feed!Keep(q)) /\ Feed!Last(Feed!Keep(q)) = bar
      BY <2>2, <2>3, <2>4, KeepsTail
    <2> QED
      BY <1>1, <2>5, <2>6 DEF Continues
  <1>4. CASE s # <<>> /\ bar.t = Feed!Last(s).t
    <2>1. PICK q : q = [s EXCEPT ![Len(s)] = bar]
      OBVIOUS
    <2>2. /\ q \in Seq(Bars) /\ Len(q) = Len(s) /\ q[Len(s)] = bar
          /\ \A i \in 1..Len(s) : i # Len(s) => q[i] = s[i]
      BY <1>2, <1>4, <2>1
    <2>3. Feed!Last(q) = bar
      BY <2>2 DEF Feed!Last
    <2>4. Feed!Whole(q)
      <3> SUFFICES ASSUME NEW i \in 1..(Len(q) - 1)
                   PROVE  q[i].closed /\ q[i + 1].t = q[i].t + 1
        BY DEF Feed!Whole
      <3>1. i \in 1..(Len(s) - 1) /\ i \in 1..Len(s) /\ i # Len(s) /\ i + 1 \in 1..Len(s)
        BY <1>1, <2>2
      <3>2. s[i].closed /\ s[i + 1].t = s[i].t + 1
        BY <3>1 DEF Feed!Whole
      <3>3. q[i] = s[i]
        BY <2>2, <3>1
      <3>4. q[i + 1].t = s[i + 1].t
        <4>1. CASE i + 1 = Len(s)
          BY <1>2, <1>4, <2>2, <4>1
        <4>2. CASE i + 1 # Len(s)
          BY <2>2, <3>1, <4>2
        <4> QED
          BY <4>1, <4>2
      <3> QED
        BY <3>2, <3>3, <3>4
    <2>5. Feed!OnCandle(s, bar) = q
      BY <1>1, <1>2, <1>4, <2>1 DEF Feed!OnCandle
    <2> QED
      BY <1>1, <2>2, <2>3, <2>4, <2>5 DEF Continues
  <1>5. CASE s # <<>> /\ bar.t < Feed!Last(s).t
    <2>1. Feed!OnCandle(s, bar) = s
      BY <1>1, <1>2, <1>5 DEF Feed!OnCandle
    <2>2. Feed!Last(s).closed = FALSE
      BY <1>1, <1>2, <1>5 DEF Continues
    <2> QED
      BY <1>1, <1>2, <1>5, <2>1, <2>2 DEF Continues
  <1>6. s # <<>> => bar.t > Feed!Last(s).t \/ bar.t = Feed!Last(s).t \/ bar.t < Feed!Last(s).t
    BY <1>1, <1>2
  <1> QED
    BY <1>3, <1>4, <1>5, <1>6

LEMMA FeedAtFirst == Feed!Init => FeedInv
  <1> SUFFICES ASSUME Feed!Init, Keys # {} PROVE FeedTyped /\ InOrder /\ WholeSoFar /\ ReadWhole
    BY DEF FeedInv
  <1>1. /\ now = Start /\ bars = [k \in Keys |-> <<>>] /\ wire = <<>> /\ todo = {}
        /\ fetching = Feed!Nothing /\ spoiled = FALSE
    BY DEF Feed!Init
  <1>2. FeedTyped
    <2>1. \A k \in Keys : bars[k] = <<>> /\ bars[k] \in Seq(Bars)
      BY <1>1
    <2>2. bars \in [Keys -> Seq(Bars)]
      BY <1>1, <2>1
    <2>3. wire \in Seq(Messages)
      BY <1>1
    <2> QED
      BY <1>1, <2>2, <2>3, FeedAssumption DEF FeedTyped
  <1>3. InOrder
    BY <1>1 DEF InOrder
  <1>4. WholeSoFar
    <2>1. Feed!Whole(<<>>) /\ Continues(<<>>, FrontBar)
      BY DEF Feed!Whole, Continues
    <2> QED
      BY <1>1, <2>1 DEF WholeSoFar
  <1>5. ReadWhole
    BY <1>1 DEF ReadWhole
  <1> QED
    BY <1>2, <1>3, <1>4, <1>5

(* A message that is sent comes after the others.                          *)
LEMMA MessageSent ==
  ASSUME FeedTyped, InOrder, NEW m \in Messages, IsMessage(m), TimeOf(m) = now,
         wire' = Append(wire, m), now' = NextBar(m)
  PROVE  /\ InOrder' /\ wire' \in Seq(Messages) /\ FrontBar' = FrontBar /\ now' \in Nat \ {0}
  <1>1. now \in Nat \ {0} /\ wire \in Seq(Messages) /\ Len(wire) \in Nat
    BY DEF FeedTyped
  <1>2. /\ wire' \in Seq(Messages) /\ Len(wire') = Len(wire) + 1 /\ wire' # <<>>
        /\ \A i \in 1..Len(wire) : wire'[i] = wire[i]
        /\ wire'[Len(wire')] = m
    BY <1>1
  <1>3. now' \in Nat \ {0} /\ now <= now'
    BY <1>1 DEF NextBar
  <1>4. \A i \in 1..Len(wire) : TimeOf(wire[i]) \in Nat
    BY DEF InOrder, IsMessage
  <1>5. ASSUME NEW i \in 1..Len(wire') PROVE IsMessage(wire'[i]) /\ TimeOf(wire'[i]) <= now'
    <2>1. CASE i = Len(wire')
      BY <1>1, <1>2, <1>3, <2>1
    <2>2. CASE i \in 1..Len(wire)
      <3>1. IsMessage(wire[i]) /\ TimeOf(wire[i]) <= now
        BY <2>2 DEF InOrder
      <3>2. TimeOf(wire[i]) <= now'
        BY <1>1, <1>3, <1>4, <2>2, <3>1
      <3> QED
        BY <1>2, <2>2, <3>1, <3>2
    <2> QED
      BY <1>1, <1>2, <2>1, <2>2
  <1>6. ASSUME NEW i \in 1..(Len(wire') - 1) PROVE TimeOf(wire'[i + 1]) = NextBar(wire'[i])
    <2>1. i \in 1..Len(wire) /\ wire'[i] = wire[i]
      BY <1>1, <1>2
    <2>2. CASE i = Len(wire)
      <3>1. wire # <<>> /\ NextBar(wire[Len(wire)]) = now
        BY <1>1, <2>1, <2>2 DEF InOrder
      <3>2. wire'[i + 1] = m
        BY <1>2, <2>2
      <3> QED
        BY <2>1, <2>2, <3>1, <3>2
    <2>3. CASE i # Len(wire)
      <3>1. i \in 1..(Len(wire) - 1) /\ i + 1 \in 1..Len(wire)
        BY <1>1, <2>1, <2>3
      <3>2. TimeOf(wire[i + 1]) = NextBar(wire[i])
        BY <3>1 DEF InOrder
      <3> QED
        BY <1>2, <2>1, <3>1, <3>2
    <2> QED
      BY <2>2, <2>3
  <1>7. wire' # <<>> => NextBar(wire'[Len(wire')]) = now'
    BY <1>2
  <1>8. ASSUME NEW i \in 1..Len(wire'), \A j \in i..Len(wire') : ~Feed!Closes(wire'[j])
        PROVE  TimeOf(wire'[i]) = now'
    <2>1. ~Feed!Closes(m)
      <3>1. Len(wire') \in i..Len(wire')
        BY <1>1, <1>2
      <3> QED
        BY <1>2, <1>8, <3>1
    <2>2. now' = now
      BY <2>1 DEF NextBar
    <2>3. CASE i = Len(wire')
      BY <1>2, <2>2, <2>3
    <2>4. CASE i \in 1..Len(wire)
      <3>1. ASSUME NEW j \in i..Len(wire) PROVE ~Feed!Closes(wire[j])
        <4>1. j \in i..Len(wire') /\ j \in 1..Len(wire)
          BY <1>1, <1>2, <2>4
        <4> QED
          BY <1>2, <1>8, <4>1
      <3>2. TimeOf(wire[i]) = now
        BY <2>4, <3>1 DEF InOrder
      <3> QED
        BY <1>2, <2>2, <2>4, <3>2
    <2> QED
      BY <1>1, <1>2, <2>3, <2>4
  <1>9. InOrder'
    BY <1>5, <1>6, <1>7, <1>8 DEF InOrder
  <1>10. FrontBar' = FrontBar
    <2>1. CASE wire = <<>>
      BY <1>2, <2>1 DEF FrontBar
    <2>2. CASE wire # <<>>
      <3>1. 1 \in 1..Len(wire)
        BY <1>1, <2>2
      <3> QED
        BY <1>2, <2>2, <3>1 DEF FrontBar
    <2> QED
      BY <2>1, <2>2
  <1> QED
    BY <1>2, <1>3, <1>9, <1>10

(* The message that is handled is the first one: the next bar is in front. *)
LEMMA MessageHandled ==
  ASSUME FeedTyped, InOrder, wire # <<>>, wire' = Tail(wire), now' = now
  PROVE  /\ InOrder' /\ wire' \in Seq(Messages) /\ FrontBar = TimeOf(Head(wire))
         /\ FrontBar' = NextBar(Head(wire)) /\ IsMessage(Head(wire))
  <1>1. now \in Nat \ {0} /\ wire \in Seq(Messages) /\ Len(wire) \in Nat \ {0}
    BY DEF FeedTyped
  <1>2. Head(wire) = wire[1] /\ 1 \in 1..Len(wire)
    BY <1>1
  <1>3. /\ wire' \in Seq(Messages) /\ Len(wire') = Len(wire) - 1
        /\ \A i \in 1..Len(wire') : wire'[i] = wire[i + 1] /\ i + 1 \in 1..Len(wire)
    BY <1>1
  <1>4. ASSUME NEW i \in 1..Len(wire') PROVE IsMessage(wire'[i]) /\ TimeOf(wire'[i]) <= now'
    BY <1>3 DEF InOrder
  <1>5. ASSUME NEW i \in 1..(Len(wire') - 1) PROVE TimeOf(wire'[i + 1]) = NextBar(wire'[i])
    <2>1. i \in 1..Len(wire') /\ i + 1 \in 1..Len(wire') /\ i + 1 \in 1..(Len(wire) - 1)
      BY <1>1, <1>3
    <2>2. TimeOf(wire[i + 1 + 1]) = NextBar(wire[i + 1])
      BY <2>1 DEF InOrder
    <2> QED
      BY <1>3, <2>1, <2>2
  <1>6. wire' # <<>> => NextBar(wire'[Len(wire')]) = now'
    <2> SUFFICES ASSUME wire' # <<>> PROVE NextBar(wire'[Len(wire')]) = now'
      OBVIOUS
    <2>1. Len(wire') \in 1..Len(wire') /\ Len(wire') + 1 = Len(wire)
      BY <1>1, <1>3
    <2>2. wire'[Len(wire')] = wire[Len(wire)]
      BY <1>3, <2>1
    <2> QED
      BY <2>2 DEF InOrder
  <1>7. ASSUME NEW i \in 1..Len(wire'), \A j \in i..Len(wire') : ~Feed!Closes(wire'[j])
        PROVE  TimeOf(wire'[i]) = now'
    <2>1. ASSUME NEW j \in (i + 1)..Len(wire) PROVE ~Feed!Closes(wire[j])
      <3>1. j - 1 \in i..Len(wire') /\ j - 1 \in 1..Len(wire') /\ j - 1 + 1 = j
        BY <1>1, <1>3
      <3>2. wire'[j - 1] = wire[j]
        BY <1>3, <3>1
      <3> QED
        BY <1>7, <3>1, <3>2
    <2>2. TimeOf(wire[i + 1]) = now
      BY <1>3, <2>1 DEF InOrder
    <2> QED
      BY <1>3, <2>2
  <1>8. InOrder'
    BY <1>4, <1>5, <1>6, <1>7 DEF InOrder
  <1>9. FrontBar' = NextBar(Head(wire))
    <2>1. CASE Len(wire) = 1
      <3>1. wire' = <<>> /\ FrontBar' = now
        BY <1>3, <2>1 DEF FrontBar
      <3> QED
        BY <1>2, <2>1, <3>1 DEF InOrder
    <2>2. CASE Len(wire) > 1
      <3>1. 1 \in 1..Len(wire') /\ wire' # <<>> /\ 1 \in 1..(Len(wire) - 1)
        BY <1>1, <1>3, <2>2
      <3>2. wire'[1] = wire[1 + 1]
        BY <1>3, <3>1
      <3>3. TimeOf(wire[1 + 1]) = NextBar(wire[1])
        BY <3>1 DEF InOrder
      <3> QED
        BY <1>2, <3>1, <3>2, <3>3 DEF FrontBar
    <2>3. Len(wire) = 1 \/ Len(wire) > 1
      BY <1>1
    <2> QED
      BY <2>1, <2>2, <2>3
  <1>10. IsMessage(Head(wire)) /\ FrontBar = TimeOf(Head(wire))
    BY <1>2 DEF InOrder, FrontBar
  <1> QED
    BY <1>3, <1>8, <1>9, <1>10

(* What a key has and what REST has read stay good while neither they nor  *)
(* the front change.                                                       *)
LEMMA FrontStays ==
  ASSUME FrontBar' = FrontBar, WholeSoFar, ReadWhole, bars' = bars, fetching' = fetching,
         torn \subseteq torn', spoiled' = FALSE => spoiled = FALSE
  PROVE  WholeSoFar' /\ ReadWhole'
  <1>1. WholeSoFar'
    <2> SUFFICES ASSUME NEW k \in Keys \ torn'
                 PROVE  Feed!Whole(bars[k]) /\ Continues(bars[k], FrontBar)
      BY DEF WholeSoFar, Feed!Whole, Continues
    <2> QED
      BY DEF WholeSoFar
  <1>2. ReadWhole'
    BY DEF ReadWhole, Feed!Whole, Continues
  <1> QED
    BY <1>1, <1>2

LEMMA FeedMessage ==
  ASSUME NEW K \in SUBSET Keys, K # {}, NEW c \in BOOLEAN, c = TRUE => K = Keys, now \in Nat
  PROVE  LET m == [k \in K |-> Feed!Bar(now, c)]
         IN  /\ m \in Messages /\ IsMessage(m) /\ TimeOf(m) = now
             /\ NextBar(m) = IF c THEN now + 1 ELSE now
  <1> DEFINE m == [k \in K |-> Feed!Bar(now, c)]
  <1>1. DOMAIN m = K /\ \A k \in K : m[k] \in Bars /\ m[k].t = now /\ m[k].closed = c
    BY DEF Feed!Bar, Bars
  <1>2. m \in [K -> Bars]
    BY <1>1
  <1> HIDE DEF m
  <1>3. m \in Messages
    BY <1>2 DEF Messages
  <1>4. TimeOf(m) = now
    BY <1>1 DEF TimeOf
  <1>5. Feed!Closes(m) <=> c = TRUE
    BY <1>1 DEF Feed!Closes
  <1>6. IsMessage(m)
    BY <1>1, <1>4, <1>5 DEF IsMessage
  <1>7. NextBar(m) = IF c THEN now + 1 ELSE now
    BY <1>4, <1>5 DEF NextBar
  <1> QED
    BY <1>3, <1>4, <1>6, <1>7 DEF m

LEMMA FeedBackfill ==
  ASSUME Keys # {}, FeedTyped, InOrder, WholeSoFar, ReadWhole, Feed!Backfill
  PROVE  FeedTyped' /\ InOrder' /\ WholeSoFar' /\ ReadWhole'
  <1>1. PICK failed \in SUBSET Keys : bars' = [k \in Keys |-> IF k \in failed
               THEN <<>> ELSE Feed!History]
    BY DEF Feed!Backfill
  <1>2. /\ feed = "boot" /\ feed' = "run" /\ wire = <<>>
        /\ UNCHANGED <<now, wire, todo, fetching, spoiled, torn>>
    BY DEF Feed!Backfill, Feed!history, FeedTyped
  <1>3. /\ Feed!History \in Seq(Bars) /\ Feed!Whole(Feed!History)
        /\ Feed!Last(Feed!History).t = now /\ Feed!Last(Feed!History).closed = FALSE
             /\ now \in Nat \ {0}
    BY HistoryWhole DEF FeedTyped
  <1>4. FeedTyped'
    BY <1>1, <1>2, <1>3 DEF FeedTyped
  <1>5. InOrder'
    BY <1>2 DEF InOrder
  <1>6. FrontBar' = now /\ FrontBar' = FrontBar
    BY <1>2 DEF FrontBar
  <1>7. WholeSoFar'
    <2> SUFFICES ASSUME NEW k \in Keys PROVE Feed!Whole(bars'[k]) /\ Continues(bars'[k], now)
      BY <1>6 DEF WholeSoFar, Feed!Whole, Continues
    <2>1. CASE bars'[k] = <<>>
      BY <2>1 DEF Feed!Whole, Continues
    <2>2. CASE bars'[k] = Feed!History
      BY <1>3, <2>2 DEF Continues
    <2> QED
      BY <1>1, <2>1, <2>2
  <1>8. ReadWhole'
    BY <1>2, <1>6 DEF ReadWhole, Feed!Whole, Continues
  <1> QED
    BY <1>4, <1>5, <1>7, <1>8

LEMMA FeedSent ==
  ASSUME FeedTyped, InOrder, WholeSoFar, ReadWhole, feed = "run",
         NEW m \in Messages, IsMessage(m), TimeOf(m) = now,
         wire' = Append(wire, m), now' = NextBar(m),
         UNCHANGED <<bars, feed, todo, fetching, spoiled, torn>>
  PROVE  FeedTyped' /\ InOrder' /\ WholeSoFar' /\ ReadWhole'
  <1>1. InOrder' /\ wire' \in Seq(Messages) /\ FrontBar' = FrontBar /\ now' \in Nat \ {0}
    BY MessageSent
  <1>2. FeedTyped'
    BY <1>1 DEF FeedTyped
  <1> QED
    BY <1>1, <1>2, FrontStays

LEMMA FeedPush ==
  ASSUME Keys # {}, FeedTyped, InOrder, WholeSoFar, ReadWhole, Feed!Push
  PROVE  FeedTyped' /\ InOrder' /\ WholeSoFar' /\ ReadWhole'
  <1>1. PICK readable \in (SUBSET Keys) \ {{}} :
          wire' = Append(wire, [k \in readable |-> Feed!Bar(now, FALSE)])
    BY DEF Feed!Push
  <1>2. feed = "run" /\ UNCHANGED <<now, bars, feed, todo, fetching, spoiled, torn>>
    BY DEF Feed!Push, Feed!rest, Feed!history
  <1>3. PICK m : m = [k \in readable |-> Feed!Bar(now, FALSE)]
    OBVIOUS
  <1>4. m \in Messages /\ IsMessage(m) /\ TimeOf(m) = now /\ NextBar(m) = now
    <2>a. readable \in SUBSET Keys
      OBVIOUS
    <2>b. readable # {}
      OBVIOUS
    <2>1. now \in Nat
      BY DEF FeedTyped
    <2>2. PICK c : c = FALSE
      OBVIOUS
    <2>3. c \in BOOLEAN /\ (c = TRUE => readable = Keys) /\ m =
            [k \in readable |-> Feed!Bar(now, c)]
      BY <1>3, <2>2
    <2>4. m \in Messages /\ IsMessage(m) /\ TimeOf(m) = now /\ NextBar(m) = IF c
            THEN now + 1 ELSE now
      BY <2>1, <2>3, <2>a, <2>b, FeedMessage
    <2> QED
      BY <2>2, <2>4
  <1>5. wire' = Append(wire, m) /\ now' = NextBar(m)
    BY <1>1, <1>2, <1>3, <1>4
  <1> QED
    BY <1>2, <1>4, <1>5, FeedSent

LEMMA FeedRollOver ==
  ASSUME Keys # {}, FeedTyped, InOrder, WholeSoFar, ReadWhole, Feed!RollOver
  PROVE  FeedTyped' /\ InOrder' /\ WholeSoFar' /\ ReadWhole'
  <1>1. now' = now + 1 /\ UNCHANGED <<bars, feed, todo, fetching>> /\ now \in Nat \ {0}
    BY DEF Feed!RollOver, Feed!rest, FeedTyped
  <1>2. CASE /\ feed = "run" /\ wire' = Append(wire, [k \in Keys |-> Feed!Bar(now, TRUE)])
             /\ UNCHANGED Feed!history
    <2>1. PICK m : m = [k \in Keys |-> Feed!Bar(now, TRUE)]
      OBVIOUS
    <2>2. m \in Messages /\ IsMessage(m) /\ TimeOf(m) = now /\ NextBar(m) = now + 1
      BY <1>1, <2>1, FeedMessage
    <2>3. wire' = Append(wire, m) /\ now' = NextBar(m) /\ UNCHANGED <<spoiled, torn>>
      BY <1>1, <1>2, <2>1, <2>2 DEF Feed!history
    <2> QED
      BY <1>1, <1>2, <2>2, <2>3, FeedSent
  <1>3. CASE feed # "run" /\ Feed!LoseCloses /\ UNCHANGED wire
    <2>1. wire = <<>> /\ wire' = <<>> /\ torn' = Keys /\ spoiled' = TRUE
      BY <1>3 DEF FeedTyped, Feed!LoseCloses
    <2>2. FeedTyped'
      BY <1>1, <1>3, <2>1 DEF FeedTyped
    <2>3. InOrder'
      BY <2>1 DEF InOrder
    <2>4. WholeSoFar'
      BY <2>1 DEF WholeSoFar
    <2>5. ReadWhole'
      BY <1>1, <2>1 DEF ReadWhole, Feed!Whole
    <2> QED
      BY <2>2, <2>3, <2>4, <2>5
  <1> QED
    BY <1>2, <1>3 DEF Feed!RollOver

LEMMA FeedHandleCandle ==
  ASSUME Keys # {}, FeedTyped, InOrder, WholeSoFar, ReadWhole, Feed!HandleCandle
  PROVE  FeedTyped' /\ InOrder' /\ WholeSoFar' /\ ReadWhole'
  <1>1. PICK m : m = Head(wire)
    OBVIOUS
  <1>2. /\ feed = "run" /\ wire # <<>> /\ wire' = Tail(wire)
        /\ spoiled' = (spoiled \/ Feed!Closes(m))
        /\ UNCHANGED <<now, feed, todo, fetching>>
    BY <1>1 DEF Feed!HandleCandle, Feed!rest
  <1>a. PICK skipped \in SUBSET DOMAIN m :
          /\ bars' = [k \in Keys |-> IF k \in DOMAIN m \ skipped
                                    THEN Feed!OnCandle(bars[k], m[k]) ELSE bars[k]]
          /\ torn' = torn \cup {k \in skipped : Feed!OnCandle(bars[k], m[k]) # bars[k]}
    BY <1>1 DEF Feed!HandleCandle
  <1>3. /\ InOrder' /\ wire' \in Seq(Messages) /\ FrontBar = TimeOf(m) /\ FrontBar' = NextBar(m)
        /\ IsMessage(m)
    BY <1>1, <1>2, MessageHandled
  <1>4. TimeOf(m) \in Nat /\ DOMAIN m \subseteq Keys
    BY <1>3 DEF IsMessage
  <1>5. ASSUME NEW k \in Keys
        PROVE  /\ bars'[k] \in Seq(Bars)
               /\ k \notin torn' => Feed!Whole(bars'[k]) /\ Continues(bars'[k], NextBar(m))
    <2>1. bars[k] \in Seq(Bars)
      BY DEF FeedTyped
    <2>2. k \notin torn => Feed!Whole(bars[k]) /\ Continues(bars[k], TimeOf(m))
      BY <1>3 DEF WholeSoFar
    <2>3. CASE k \in DOMAIN m
      <3>1. PICK bar : bar = m[k]
        OBVIOUS
      <3>2. bar \in Bars /\ bar.t = TimeOf(m) /\ (bar.closed = TRUE <=> Feed!Closes(m))
        BY <1>3, <2>3, <3>1 DEF IsMessage
      <3>a. bars'[k] \in {bars[k], Feed!OnCandle(bars[k], bar)}
        BY <1>a, <2>3, <3>1
      <3>3. k \notin torn' => k \notin torn /\ bars'[k] = Feed!OnCandle(bars[k], bar)
        BY <1>a, <2>3, <3>1
      <3>4. Feed!OnCandle(bars[k], bar) \in Seq(Bars)
        BY <2>1, <3>2, CandleTyped
      <3>5. CASE k \notin torn'
        <4>1. /\ Feed!Whole(Feed!OnCandle(bars[k], bar))
              /\ bar.closed = FALSE => Continues(Feed!OnCandle(bars[k], bar), bar.t)
              /\ bar.closed = TRUE => Continues(Feed!OnCandle(bars[k], bar), bar.t + 1)
          BY <2>1, <2>2, <3>2, <3>3, <3>5, CandleContinues
        <4>2. CASE Feed!Closes(m)
          BY <3>2, <3>3, <3>4, <3>5, <4>1, <4>2 DEF NextBar
        <4>3. CASE ~Feed!Closes(m)
          <5>1. bar.closed = FALSE
            BY <3>2, <4>3 DEF Bars
          <5> QED
            BY <3>2, <3>3, <3>4, <3>5, <4>1, <4>3, <5>1 DEF NextBar
        <4> QED
          BY <4>2, <4>3
      <3> QED
        BY <2>1, <3>a, <3>4, <3>5
    <2>4. CASE k \notin DOMAIN m
      <3>1. ~Feed!Closes(m)
        BY <1>3, <2>4 DEF IsMessage
      <3>2. bars'[k] = bars[k] /\ torn \subseteq torn'
        BY <1>a, <2>4
      <3> QED
        BY <2>1, <2>2, <3>1, <3>2 DEF NextBar
    <2> QED
      BY <2>3, <2>4
  <1>6. FeedTyped'
    <2>1. bars' \in [Keys -> Seq(Bars)]
      BY <1>a, <1>5
    <2>2. spoiled' \in BOOLEAN
      BY <1>2
    <2> QED
      BY <1>2, <1>3, <2>1, <2>2 DEF FeedTyped
  <1>7. WholeSoFar'
    <2> SUFFICES ASSUME NEW k \in Keys \ torn' PROVE Feed!Whole(bars'[k])
                          /\ Continues(bars'[k], FrontBar')
      BY DEF WholeSoFar, Feed!Whole, Continues
    <2> QED
      BY <1>3, <1>5
  <1>8. ReadWhole'
    <2>1. CASE Feed!Closes(m)
      <3>1. spoiled' = TRUE
        BY <1>2, <2>1
      <3> QED
        BY <1>2, <3>1 DEF ReadWhole, Feed!Whole
    <2>2. CASE ~Feed!Closes(m)
      <3>1. FrontBar' = FrontBar
        BY <1>3, <2>2 DEF NextBar
      <3>2. spoiled' = FALSE => spoiled = FALSE
        BY <1>2, <2>2 DEF FeedTyped
      <3> QED
        BY <1>2, <3>1, <3>2 DEF ReadWhole, Feed!Whole, Continues
    <2> QED
      BY <2>1, <2>2
  <1> QED
    BY <1>3, <1>6, <1>7, <1>8

LEMMA FeedDrop ==
  ASSUME Keys # {}, FeedTyped, InOrder, WholeSoFar, ReadWhole, Feed!ConnectionEnds \/ Feed!StopFeed
  PROVE  FeedTyped' /\ InOrder' /\ WholeSoFar' /\ ReadWhole'
  <1>1. wire' = <<>> /\ UNCHANGED <<now, bars, todo, fetching>>
    BY DEF Feed!ConnectionEnds, Feed!StopFeed, Feed!Drop, Feed!rest
  <1>2. InOrder'
    BY <1>1 DEF InOrder
  <1>3. wire' \in Seq(Messages)
    BY <1>1
  <1>4. CASE Feed!LoseCloses
    <2>1. torn' = Keys /\ spoiled' = TRUE
      BY <1>4 DEF Feed!LoseCloses
    <2>2. FeedTyped'
      BY <1>1, <1>3, <2>1 DEF FeedTyped
    <2>3. WholeSoFar' /\ ReadWhole'
      BY <1>1, <2>1 DEF WholeSoFar, ReadWhole, Feed!Whole
    <2> QED
      BY <1>2, <2>2, <2>3
  <1>5. CASE UNCHANGED Feed!history /\ \A i \in DOMAIN wire : ~Feed!Closes(wire[i])
    <2>1. FrontBar' = now
      BY <1>1 DEF FrontBar
    <2>2. FrontBar = now
      <3>1. CASE wire = <<>>
        BY <3>1 DEF FrontBar
      <3>2. CASE wire # <<>>
        <4>1. wire \in Seq(Messages) /\ Len(wire) \in Nat /\ DOMAIN wire = 1..Len(wire)
          BY DEF FeedTyped
        <4>2. 1 \in 1..Len(wire)
          BY <3>2, <4>1
        <4>3. TimeOf(wire[1]) = now
          BY <1>5, <4>1, <4>2 DEF InOrder
        <4> QED
          BY <3>2, <4>3 DEF FrontBar
      <3> QED
        BY <3>1, <3>2
    <2>3. UNCHANGED <<spoiled, torn>>
      BY <1>5 DEF Feed!history
    <2>4. FeedTyped'
      BY <1>1, <1>3, <2>3 DEF FeedTyped
    <2>5. WholeSoFar' /\ ReadWhole'
      BY <1>1, <2>1, <2>2, <2>3, FrontStays
    <2> QED
      BY <1>2, <2>4, <2>5
  <1> QED
    BY <1>4, <1>5 DEF Feed!ConnectionEnds, Feed!StopFeed, Feed!Drop

LEMMA FeedReconnect ==
  ASSUME FeedTyped, InOrder, WholeSoFar, ReadWhole, Feed!Reconnect
  PROVE  FeedTyped' /\ InOrder' /\ WholeSoFar' /\ ReadWhole'
  <1>1. feed = "backoff" /\ UNCHANGED <<now, bars, wire, todo, fetching, spoiled, torn>>
    BY DEF Feed!Reconnect, Feed!rest, Feed!history
  <1>2. FeedTyped'
    BY <1>1 DEF FeedTyped
  <1>3. InOrder' /\ FrontBar' = FrontBar
    BY <1>1 DEF InOrder, FrontBar
  <1> QED
    BY <1>1, <1>2, <1>3, FrontStays

LEMMA FeedWatchdogWakes ==
  ASSUME FeedTyped, InOrder, WholeSoFar, ReadWhole, Feed!WatchdogWakes \/ Feed!FetchFails
  PROVE  FeedTyped' /\ InOrder' /\ WholeSoFar' /\ ReadWhole'
  <1>1. UNCHANGED <<now, bars, feed, wire, fetching, spoiled, torn>> /\ todo' \subseteq Keys
    BY DEF Feed!WatchdogWakes, Feed!FetchFails, Feed!GiveUp, Feed!cache, Feed!history,
         Feed!StaleKeys, FeedTyped
  <1>2. FeedTyped'
    BY <1>1 DEF FeedTyped
  <1>3. InOrder' /\ FrontBar' = FrontBar
    BY <1>1 DEF InOrder, FrontBar
  <1> QED
    BY <1>1, <1>2, <1>3, FrontStays

LEMMA FeedFetch ==
  ASSUME FeedTyped, InOrder, WholeSoFar, ReadWhole, Feed!Fetch
  PROVE  FeedTyped' /\ InOrder' /\ WholeSoFar' /\ ReadWhole'
  <1>1. PICK k \in Keys : fetching' = [key |-> k, history |-> Feed!History]
    BY DEF Feed!Fetch, FeedTyped
  <1>2. spoiled' = FALSE /\ UNCHANGED <<now, bars, feed, wire, todo, torn>>
    BY DEF Feed!Fetch, Feed!cache
  <1>3. FeedTyped'
    BY <1>2 DEF FeedTyped
  <1>4. InOrder' /\ FrontBar' = FrontBar
    BY <1>2 DEF InOrder, FrontBar
  <1>5. WholeSoFar'
    BY <1>2, <1>4 DEF WholeSoFar, Feed!Whole, Continues
  <1>6. ReadWhole'
    <2>1. /\ Feed!History \in Seq(Bars) /\ Feed!Whole(Feed!History)
          /\ Feed!Last(Feed!History).t = now /\ Feed!Last(Feed!History).closed = FALSE
      BY HistoryWhole DEF FeedTyped
    <2>2. FrontBar <= now
      <3>1. CASE wire = <<>>
        BY <3>1 DEF FrontBar, FeedTyped
      <3>2. CASE wire # <<>>
        <4>1. wire \in Seq(Messages)
          BY DEF FeedTyped
        <4>2. 1 \in 1..Len(wire)
          BY <3>2, <4>1
        <4> QED
          BY <3>2, <4>2 DEF FrontBar, InOrder
      <3> QED
        BY <3>1, <3>2
    <2>3. FrontBar \in Nat /\ now \in Nat
      <3>1. CASE wire = <<>>
        BY <3>1 DEF FrontBar, FeedTyped
      <3>2. CASE wire # <<>>
        <4>1. wire \in Seq(Messages)
          BY DEF FeedTyped
        <4>2. 1 \in 1..Len(wire)
          BY <3>2, <4>1
        <4> QED
          BY <3>2, <4>2 DEF FrontBar, InOrder, IsMessage, FeedTyped
      <3> QED
        BY <3>1, <3>2
    <2>4. Continues(Feed!History, FrontBar')
      BY <1>4, <2>1, <2>2, <2>3 DEF Continues
    <2>5. PICK h : h = Feed!History
      OBVIOUS
    <2>6. fetching'.key = k /\ fetching'.history = h
      BY <1>1, <2>5
    <2>7. h \in Seq(Bars) /\ Feed!Whole(h) /\ Continues(h, FrontBar')
      BY <2>1, <2>4, <2>5
    <2> QED
      BY <2>6, <2>7 DEF ReadWhole, Feed!Whole, Continues
  <1> QED
    BY <1>3, <1>4, <1>5, <1>6

LEMMA FeedFetchLands ==
  ASSUME FeedTyped, InOrder, WholeSoFar, ReadWhole, Feed!FetchLands
  PROVE  FeedTyped' /\ InOrder' /\ WholeSoFar' /\ ReadWhole'
  <1>1. PICK k : k = fetching.key
    OBVIOUS
  <1>2. PICK h : h = fetching.history
    OBVIOUS
  <1>3. /\ fetching # Feed!Nothing /\ fetching' = Feed!Nothing
        /\ bars' = [bars EXCEPT ![k] = h] /\ todo' = todo \ {k}
        /\ torn' = (IF spoiled THEN torn \cup {k} ELSE torn \ {k})
        /\ UNCHANGED <<now, feed, wire, spoiled>>
    BY <1>1, <1>2 DEF Feed!FetchLands
  <1>4. /\ k \in Keys /\ h \in Seq(Bars) /\ Feed!Whole(h)
        /\ spoiled = FALSE => Continues(h, FrontBar)
    BY <1>1, <1>2, <1>3 DEF ReadWhole
  <1>5. FeedTyped'
    BY <1>3, <1>4 DEF FeedTyped
  <1>6. InOrder' /\ FrontBar' = FrontBar
    BY <1>3 DEF InOrder, FrontBar
  <1>7. WholeSoFar'
    <2> SUFFICES ASSUME NEW n \in Keys \ torn' PROVE Feed!Whole(bars'[n])
                          /\ Continues(bars'[n], FrontBar)
      BY <1>6 DEF WholeSoFar, Feed!Whole, Continues
    <2>1. CASE n = k
      <3>1. spoiled = FALSE
        BY <1>3, <2>1 DEF FeedTyped
      <3>2. bars'[n] = h
        BY <1>3, <1>4, <2>1 DEF FeedTyped
      <3> QED
        BY <1>4, <3>1, <3>2
    <2>2. CASE n # k
      <3>1. bars'[n] = bars[n] /\ n \notin torn
        BY <1>3, <2>2 DEF FeedTyped
      <3> QED
        BY <3>1 DEF WholeSoFar
    <2> QED
      BY <2>1, <2>2
  <1>8. ReadWhole'
    BY <1>3 DEF ReadWhole
  <1> QED
    BY <1>5, <1>6, <1>7, <1>8

LEMMA FeedStep ==
  ASSUME FeedInv, [Feed!Next]_(Feed!vars)
  PROVE  FeedInv'
  <1> SUFFICES ASSUME Keys # {} PROVE FeedTyped' /\ InOrder' /\ WholeSoFar' /\ ReadWhole'
    BY DEF FeedInv
  <1>1. FeedTyped /\ InOrder /\ WholeSoFar /\ ReadWhole
    BY DEF FeedInv
  <1>2. CASE UNCHANGED Feed!vars
    <2>1. UNCHANGED <<now, bars, feed, wire, todo, fetching, spoiled, torn>>
      BY <1>2 DEF Feed!vars, Feed!cache, Feed!rest, Feed!history
    <2>2. FeedTyped' /\ InOrder' /\ FrontBar' = FrontBar
      BY <1>1, <2>1 DEF FeedTyped, InOrder, FrontBar
    <2> QED
      BY <1>1, <2>1, <2>2, FrontStays
  <1>3. CASE Feed!Backfill \/ Feed!RollOver \/ Feed!Push
    BY <1>1, <1>3, FeedBackfill, FeedRollOver, FeedPush
  <1>4. CASE Feed!HandleCandle \/ Feed!ConnectionEnds \/ Feed!StopFeed \/ Feed!Reconnect
    BY <1>1, <1>4, FeedHandleCandle, FeedDrop, FeedReconnect
  <1>5. CASE Feed!WatchdogWakes \/ Feed!Fetch \/ Feed!FetchLands \/ Feed!FetchFails
    BY <1>1, <1>5, FeedWatchdogWakes, FeedFetch, FeedFetchLands
  <1> QED
    BY <1>2, <1>3, <1>4, <1>5 DEF Feed!Next

(* The bars of a key have no hole unless a close was lost, or handled      *)
(* while REST was read.                                                    *)
THEOREM BarsStayWhole == Feed!Spec => []TornOnlyByLoss
  <1>1. Feed!Init => FeedInv
    BY FeedAtFirst
  <1>2. FeedInv /\ [Feed!Next]_(Feed!vars) => FeedInv'
    BY FeedStep
  <1>3. FeedInv => TornOnlyByLoss
    BY DEF FeedInv, WholeSoFar, TornOnlyByLoss, Feed!TornOnlyByLoss
  <1> QED
    BY <1>1, <1>2, <1>3, PTL DEF Feed!Spec
=============================================================================
