-------------------------- MODULE Research_proofs --------------------------
(***************************************************************************)
(* The research agent's scheduled work keeps its promises, for any number  *)
(* of days, rounds, links and faults, and any pages and delays.            *)
(*                                                                         *)
(* The rounds.  The report of a round is either not yet there, or there    *)
(* and found by whoever goes on with the round.  What is left of the list  *)
(* of links is always its tail, what is before it is saved or lost, and a  *)
(* link that still waits replaces a row that nobody has replaced, but      *)
(* perhaps a copy of itself that a cancellation has left behind.           *)
(*                                                                         *)
(* The calendar.  A complete refresh has read two years and holds until    *)
(* 00:10 of the next day, so it covers a year that has begun since         *)
(* (Complete); an incomplete one is repeated at 00:10 or after one of the  *)
(* delays, so that no attempt is due and not planned (Planned).            *)
(***************************************************************************)
EXTENDS Research, FiniteSetTheorems, SequenceTheorems, WellFoundedInduction, TLAPS

LinkSet == [round : Nat, key : Nat, sup : Nat, status : {"current", "superseded"}]

-----------------------------------------------------------------------------
(* The inductive invariant: first of the scheduler.                        *)

Typed ==
  /\ up \in BOOLEAN /\ reserved \in BOOLEAN
  /\ known \in BOOLEAN /\ saved \in BOOLEAN /\ closed \in BOOLEAN
  /\ pc \in PCs /\ rid \in 0..MaxRounds /\ (pc # "idle" => rid \in Rounds)
  /\ day \in Days /\ tick \in {0} \cup Days /\ fired \in [Days -> Nat] /\ faults \in Nat
  /\ audit \in [Rounds -> {"none", "open", "closed"}]
  /\ told \in [Rounds -> {"", "ok", "failed"}]

(* There is one place: the loop that claims a slot has it, or the round.   *)
OnePlace ==
  /\ tick # 0 => reserved /\ pc = "idle"
  /\ pc # "idle" => reserved
  /\ ~up => pc = "idle" /\ tick = 0

(* A slot that has been fired is claimed.                                  *)
Slots == \A d \in Days : fired[d] <= 1 /\ (fired[d] = 1 => d \in claims)

Placed == Typed /\ OnePlace /\ Slots

(* Then of the verdict.  The rounds are numbered in their order.           *)
OfRound == {r \in reports : r.round = rid}
Early   == {"reserved", "begin", "chat", "parse", "reask", "persist"}
Behind  == {"flush", "close", "tell", "reflush", "reclose"}

Counted ==
  /\ \A r \in reports : r.round \in 1..rid /\ r.ok \in BOOLEAN
  /\ \A n \in Rounds : n > rid => told[n] = "" /\ audit[n] = "none"
  /\ pc \notin {"idle", "prestart"} => told[rid] = ""

(* The report of the round, and who knows of it.                           *)
Judged ==
  /\ pc \in Early => OfRound = {} /\ ~saved
  /\ pc \in Behind \cup {"unwind"} => \A r \in OfRound : r.ok = TRUE
  /\ pc \in Behind \/ (pc = "unwind" /\ saved) => OfRound # {}
  /\ pc = "unwind" /\ OfRound # {} => known
  /\ pc \in {"chat", "parse", "reask", "persist", "flush", "close"} => known
  /\ pc \in {"flush", "close"} => saved
  /\ pc \in {"report", "refuse"} => ~saved
  /\ pc = "report" => rid \in blind \/ OfRound = {}

(* The audit round is closed, or was never opened.                         *)
Closing ==
  /\ pc \in {"reserved", "begin"} => audit[rid] = "none" /\ ~closed
  /\ pc # "idle" /\ closed => audit[rid] = "closed"
  /\ faults = 0 =>
       /\ pc \in {"report", "refuse"} /\ ~known => audit[rid] = "none"
       /\ pc = "refuse" => OfRound # {}
       /\ pc = "tell" => audit[rid] = "closed"
       /\ pc = "prestart" /\ rid \notin cut =>
            audit[rid] = "none" \/ (audit[rid] = "closed" /\ OfRound # {})

Agree == \A r, s \in reports : r.round = s.round /\ r.round \notin blind => r.ok = s.ok
Ended == rid > 0 /\ pc = "idle" /\ faults = 0 /\ rid \notin cut =>
           audit[rid] # "open" /\ OfRound # {}

Verdict == Counted /\ Judged /\ Closing /\ Agree /\ Ended

(* And of the links.  What is left of the list is its tail.                *)
Rowed ==
  /\ links \in Seq(LinkSet) /\ pend \in Seq(Nat) /\ left \in Seq(Nat)
  /\ \A i \in DOMAIN pend : pend[i] <= Len(links)

Listing == saved \/ pc \in Behind
Tailed ==
  Listing =>
    /\ Len(left) <= Len(pend)
    /\ \A j \in DOMAIN left : left[j] = Len(pend) - Len(left) + j

(* The links that are still to be saved.                                   *)
Waiting == IF Listing THEN {left[j] : j \in DOMAIN left} ELSE DOMAIN pend

(* A link is saved, and once unless the round has been cancelled.          *)
Once(i) ==
  \/ <<rid, i>> \in lost
  \/ /\ RowsOf(rid, i) # {}
     /\ rid \notin cancelled => \E k \in DOMAIN links : RowsOf(rid, i) = {k}

(* No link of the round is saved yet, or its list is worked on.            *)
Untouched == pc \in Early \cup {"report", "refuse"} \/ (pc = "unwind" /\ ~saved)
Working   == pc \in Behind \/ (pc = "unwind" /\ saved)

Listed ==
  /\ pc \in {"close", "tell", "reclose"} => left = <<>>
  /\ Untouched => \A k \in DOMAIN links : links[k].round # rid
  /\ Working =>
       \A i \in DOMAIN pend :
         IF i \in Waiting THEN rid \notin cancelled => RowsOf(rid, i) = {} ELSE Once(i)
  /\ rid > 0 /\ pc \in {"idle", "prestart"} /\ told[rid] = "ok" =>
       \A i \in DOMAIN pend : Once(i)

(* What is saved of the round is what was submitted in it.                 *)
Named ==
  Working =>
    \A k \in DOMAIN links : links[k].round = rid =>
      links[k].key \in DOMAIN pend /\ links[k].sup = pend[links[k].key]

Reported ==
  \A k \in DOMAIN links :
    /\ links[k].round <= rid
    /\ links[k].round # 0 => \E r \in reports : r.round = links[k].round /\ r.ok = TRUE

(* The rows that count, and the copy that a cancellation has left.         *)
Whole == {m \in DOMAIN links : links[m].round \notin cut}
Copy(j) ==
  /\ pc \in {"unwind", "reflush"} /\ saved /\ left # <<>>
  /\ links[j].round = rid /\ links[j].key = left[1]

Succeeded == \A k \in DOMAIN links : links[k].status = "superseded" =>
               k \in orphans \/ \E j \in DOMAIN links : links[j].sup = k
Apart == \A i, j \in DOMAIN pend : pend[i] = pend[j] /\ pend[i] # 0 => i = j

(* What has been replaced says so, and what waits replaces nothing that    *)
(* another link has replaced.                                              *)
Replaced ==
  faults = 0 =>
    \A j \in Whole : links[j].sup # 0 =>
      (links[j].sup \in DOMAIN links /\ links[links[j].sup].status = "superseded") \/ Copy(j)
Free ==
  faults = 0 /\ pc \in Early \cup {"unwind", "flush", "reflush"} =>
    \A i \in Waiting \cap DOMAIN pend : \A j \in Whole :
      pend[i] # 0 /\ links[j].sup = pend[i] => links[j].round = rid /\ links[j].key = i
Unforked ==
  faults = 0 =>
    \A j, k \in Whole : links[j].sup # 0 /\ links[j].sup = links[k].sup =>
      links[j].round = links[k].round /\ links[j].key = links[k].key

Linked == /\ Rowed /\ Tailed /\ Listed /\ Named /\ Reported
          /\ Succeeded /\ Apart /\ Replaced /\ Free /\ Unforked

-----------------------------------------------------------------------------
(* The scheduler and the place of the round.                               *)
LEMMA PlacedAtFirst == Init => Placed
  <1> SUFFICES ASSUME Init PROVE Placed
    OBVIOUS
  <1>1. 1 \in Days /\ 0 \in 0..MaxRounds
    BY ResearchRoundAssumption DEF Days
  <1>2. Typed
    BY <1>1 DEF Init, Typed, PCs
  <1>3. OnePlace
    BY DEF Init, OnePlace
  <1>4. \A d \in Days : fired[d] = 0
    BY DEF Init
  <1>5. Slots
    BY <1>4 DEF Slots
  <1> QED
    BY <1>2, <1>3, <1>5 DEF Placed

LEMMA Numbers ==
  ASSUME Placed
  PROVE  /\ rid \in Nat /\ rid <= MaxRounds /\ MaxRounds \in Nat
         /\ day \in Nat /\ 1 <= day /\ day <= MaxDays /\ MaxDays \in Nat
  <1>1. MaxRounds \in Nat /\ MaxDays \in Nat
    BY ResearchRoundAssumption
  <1>2. rid \in 0..MaxRounds /\ day \in 1..MaxDays
    BY DEF Placed, Typed, Days
  <1> QED
    BY <1>1, <1>2

(* Nothing is repaired: the number of faults only grows.                   *)
FaultsGrow == faults' \in {faults, faults + 1}

LEMMA StillFaultless ==
  ASSUME Placed, FaultsGrow
  PROVE  faults' \in Nat /\ (faults' = 0 => faults = 0)
  <1>1. faults \in Nat
    BY DEF Placed, Typed
  <1> QED
    BY <1>1 DEF FaultsGrow

LEMMA OnlyMoreFaults ==
  ASSUME Placed, Next
  PROVE  FaultsGrow
  <1> USE DEF FaultsGrow, Fault, NoFault
  <1>1. CASE MinuteTurns \/ Tick \/ ClaimAndFire \/ ClaimFails \/ StartNow \/ Cancel \/ Exit
             \/ Restart \/ SubmitLink
    BY <1>1 DEF MinuteTurns, Tick, ClaimAndFire, ClaimFails, StartNow, Cancel, Exit, Restart,
                SubmitLink
  <1>2. CASE TaskStarts \/ BeginRound \/ ChatEnds \/ ChatRaises \/ ParseAnswer \/ Reask \/ Persist
             \/ FlushLink \/ Flushed
    BY <1>2 DEF TaskStarts, BeginRound, ChatEnds, ChatRaises, ParseAnswer, Reask, Persist,
                FlushLink, Flushed
  <1>3. CASE CloseAudit \/ TellSuccess \/ Recover \/ Reclose \/ SaveFailure \/ CloseFailed
             \/ RecordPrestart
    BY <1>3 DEF CloseAudit, TellSuccess, Recover, Reclose, SaveFailure, CloseFailed,
                RecordPrestart
  <1> QED
    BY <1>1, <1>2, <1>3 DEF Next, RoundStep

(* The loop, the operator and the process.                                 *)
LEMMA PlacedLoop ==
  ASSUME Placed,
         MinuteTurns \/ Tick \/ ClaimAndFire \/ ClaimFails \/ StartNow \/ Exit \/ Restart
  PROVE  Placed'
  <1> USE DEF clockVars, loopVars, taskVars, rowVars, histVars
  <1>1. Typed /\ OnePlace /\ Slots
    BY DEF Placed
  <1>2. faults' \in Nat
    BY OnlyMoreFaults, StillFaultless DEF Next
  <1>3. UNCHANGED <<audit, told>>
    BY DEF MinuteTurns, Tick, ClaimAndFire, ClaimFails, StartNow, Exit, Restart
  <1>4. CASE MinuteTurns \/ Tick \/ ClaimFails \/ Restart
    <2>1. /\ UNCHANGED <<known, saved, closed, pc, rid, fired>>
          /\ claims \subseteq claims' /\ up' \in BOOLEAN /\ reserved' \in BOOLEAN
          /\ day' \in Days /\ tick' \in {0} \cup Days
      <3>1. MinuteTurns => day' \in Days
        <4>1. day \in Nat /\ 1 <= day /\ day <= MaxDays /\ MaxDays \in Nat
          BY Numbers
        <4>2. MinuteTurns => day' = day \/ (day < MaxDays /\ day' = day + 1)
          BY DEF MinuteTurns
        <4> QED
          BY <4>1, <4>2 DEF Days
      <3> QED
        BY <1>1, <1>4, <3>1 DEF MinuteTurns, Tick, ClaimFails, Restart, Typed
    <2>2. Typed'
      BY <1>1, <1>2, <1>3, <2>1 DEF Typed
    <2>3. OnePlace'
      BY <1>1, <1>4 DEF MinuteTurns, Tick, ClaimFails, Restart, OnePlace, Typed
    <2>4. Slots'
      BY <1>1, <2>1 DEF Slots
    <2> QED
      BY <2>2, <2>3, <2>4 DEF Placed
  <1>5. CASE ClaimAndFire
    <2>1. /\ tick \in Days /\ tick' = 0 /\ claims' = claims \cup {tick}
          /\ reserved /\ pc = "idle" /\ up /\ UNCHANGED <<up, day>>
      BY <1>1, <1>5 DEF ClaimAndFire, OnePlace, Typed
    <2>2. \/ /\ tick \notin claims /\ rid < MaxRounds /\ rid' = rid + 1 /\ pc' = "reserved"
             /\ known' = FALSE /\ saved' = FALSE /\ closed' = FALSE
             /\ fired' = [fired EXCEPT ![tick] = @ + 1] /\ reserved' = reserved
          \/ UNCHANGED <<fired, pc, rid, known, saved, closed>> /\ reserved' = FALSE
      BY <1>5 DEF ClaimAndFire, Claims, CanFire, Fire, FreshTask
    <2>3. rid' \in 0..MaxRounds /\ (pc' # "idle" => rid' \in Rounds)
      <3>1. rid \in Nat /\ MaxRounds \in Nat /\ rid <= MaxRounds
        BY Numbers
      <3>2. (rid < MaxRounds /\ rid' = rid + 1) \/ (rid' = rid /\ pc' = "idle")
        BY <2>1, <2>2
      <3> QED
        BY <3>1, <3>2 DEF Rounds
    <2>4. fired' \in [Days -> Nat]
      <3>1. fired \in [Days -> Nat]
        BY <1>1 DEF Typed
      <3>2. fired' = fired \/ fired' = [fired EXCEPT ![tick] = @ + 1]
        BY <2>2
      <3>3. fired[tick] + 1 \in Nat
        BY <2>1, <3>1
      <3> QED
        BY <2>1, <3>1, <3>2, <3>3
    <2>5. Typed'
      BY <1>1, <1>2, <1>3, <2>1, <2>2, <2>3, <2>4 DEF Typed, PCs
    <2>6. OnePlace'
      BY <1>1, <2>1, <2>2 DEF OnePlace
    <2>7. Slots'
      <3>1. \A d \in Days : fired[d] \in Nat /\ fired[d] <= 1 /\ (fired[d] = 1 => d \in claims)
        BY <1>1 DEF Slots, Typed
      <3>2. CASE tick \notin claims /\ fired' = [fired EXCEPT ![tick] = @ + 1]
        <4>1. \A d \in Days : fired'[d] = IF d = tick THEN fired[d] + 1 ELSE fired[d]
          BY <1>1, <3>2 DEF Typed
        <4> QED
          BY <2>1, <3>1, <3>2, <4>1 DEF Slots
      <3> QED
        BY <2>1, <2>2, <3>1, <3>2 DEF Slots
    <2> QED
      BY <2>5, <2>6, <2>7 DEF Placed
  <1>6. CASE StartNow
    <2>1. /\ rid < MaxRounds /\ rid' = rid + 1 /\ pc' = "reserved" /\ reserved' = TRUE
          /\ known' = FALSE /\ saved' = FALSE /\ closed' = FALSE
          /\ up /\ ~reserved /\ UNCHANGED <<up, day, tick, claims, fired>>
      BY <1>6 DEF StartNow, CanFire, Fire, FreshTask
    <2>2. rid' \in 0..MaxRounds /\ rid' \in Rounds
      <3>1. rid \in Nat /\ MaxRounds \in Nat
        BY Numbers
      <3> QED
        BY <2>1, <3>1 DEF Rounds
    <2>3. Typed'
      BY <1>1, <1>2, <1>3, <2>1, <2>2 DEF Typed, PCs
    <2>4. OnePlace'
      BY <1>1, <2>1 DEF OnePlace
    <2>5. Slots'
      BY <1>1, <2>1 DEF Slots
    <2> QED
      BY <2>3, <2>4, <2>5 DEF Placed
  <1>7. CASE Exit
    <2>1. /\ up' = FALSE /\ pc' = "idle" /\ tick' = 0 /\ reserved' = FALSE
          /\ known' = FALSE /\ saved' = FALSE /\ closed' = FALSE
          /\ UNCHANGED <<rid, day, claims, fired>>
      BY <1>7 DEF Exit, FreshTask
    <2>2. Typed'
      BY <1>1, <1>2, <1>3, <2>1 DEF Typed, PCs
    <2>3. OnePlace'
      BY <2>1 DEF OnePlace
    <2>4. Slots'
      BY <1>1, <2>1 DEF Slots
    <2> QED
      BY <2>2, <2>3, <2>4 DEF Placed
  <1> QED
    BY <1>4, <1>5, <1>6, <1>7

(* The steps of the round, and its end.                                    *)
LEMMA PlacedRound ==
  ASSUME Placed, RoundStep \/ SubmitLink
  PROVE  Placed'
  <1> USE DEF Goto, Ends, taskVars, rowVars, clockVars
  <1>1. Typed /\ OnePlace /\ Slots
    BY DEF Placed
  <1>2. faults' \in Nat
    BY OnlyMoreFaults, StillFaultless DEF Next
  <1>3. pc # "idle" /\ rid \in Rounds /\ up /\ reserved /\ tick = 0
    <2>1. pc # "idle"
      BY DEF RoundStep, SubmitLink, TaskStarts, BeginRound, ChatEnds, ChatRaises, ParseAnswer,
             Reask, Persist, FlushLink, Flushing, Flushed, CloseAudit, TellSuccess, Recover,
             Reclose, SaveFailure, CloseFailed, RecordPrestart
    <2> QED
      BY <1>1, <2>1 DEF Typed, OnePlace
  <1>4. /\ UNCHANGED <<up, day, tick, claims, fired, rid>>
        /\ known' \in BOOLEAN /\ saved' \in BOOLEAN /\ closed' \in BOOLEAN
        /\ pc' \in PCs /\ (pc' # "idle" => reserved' = reserved)
        /\ (pc' = "idle" => reserved' = FALSE)
    <2>1. CASE TaskStarts \/ BeginRound \/ ChatEnds \/ ChatRaises \/ ParseAnswer \/ Reask
               \/ SubmitLink
      BY <1>1, <1>3, <2>1 DEF TaskStarts, BeginRound, ChatEnds, ChatRaises, ParseAnswer, Reask,
                        SubmitLink, others, Typed, PCs
    <2>2. CASE Persist \/ FlushLink \/ Flushed \/ CloseAudit \/ TellSuccess
      BY <1>1, <1>3, <2>2 DEF Persist, FlushLink, Flushed, CloseAudit, TellSuccess, others, Typed,
                        PCs
    <2>3. CASE Recover \/ Reclose \/ SaveFailure \/ CloseFailed \/ RecordPrestart
      <3>1. Claimed \in BOOLEAN
        BY DEF Claimed
      <3> QED
        BY <1>1, <1>3, <2>3, <3>1 DEF Recover, Reclose, SaveFailure, CloseFailed, RecordPrestart,
                          others, Typed, PCs
    <2> QED
      BY <2>1, <2>2, <2>3 DEF RoundStep
  <1>5. audit' \in {audit, Opened, Closed}
    BY DEF RoundStep, TaskStarts, BeginRound, ChatEnds, ChatRaises, ParseAnswer, Reask, SubmitLink,
           Persist, FlushLink, Flushed, CloseAudit, TellSuccess, Recover, Reclose, SaveFailure,
           CloseFailed, RecordPrestart
  <1>6. told' = told \/ \E w \in {"ok", "failed"} : told' = [told EXCEPT ![rid] = w]
    BY DEF RoundStep, TaskStarts, BeginRound, ChatEnds, ChatRaises, ParseAnswer, Reask, SubmitLink,
           Persist, FlushLink, Flushed, CloseAudit, TellSuccess, Recover, Reclose, SaveFailure,
           CloseFailed, RecordPrestart, Tell
  <1>7. audit' \in [Rounds -> {"none", "open", "closed"}]
    BY <1>1, <1>5 DEF Typed, Opened, Closed
  <1>8. told' \in [Rounds -> {"", "ok", "failed"}]
    BY <1>1, <1>6 DEF Typed
  <1>9. Typed'
    BY <1>1, <1>2, <1>3, <1>4, <1>7, <1>8 DEF Typed
  <1>10. OnePlace'
    BY <1>1, <1>3, <1>4 DEF OnePlace
  <1>11. Slots'
    BY <1>1, <1>4 DEF Slots
  <1> QED
    BY <1>9, <1>10, <1>11 DEF Placed

LEMMA PlacedCancel ==
  ASSUME Placed, Cancel
  PROVE  Placed'
  <1>1. Typed /\ OnePlace /\ Slots
    BY DEF Placed
  <1>2. /\ UNCHANGED <<up, day, fired, rid, known, saved, closed, told, faults>> /\ up
        /\ tick' = 0 /\ claims \subseteq claims' /\ reserved' = (pc # "idle")
        /\ pc' \in {"unwind", "idle", "prestart"} /\ (pc' = "idle" <=> pc = "idle")
    BY DEF Cancel, clockVars, InTry
  <1>3. audit' \in {audit, Opened, Closed}
    BY DEF Cancel
  <1>4. audit' \in [Rounds -> {"none", "open", "closed"}]
    BY <1>1, <1>3 DEF Typed, Opened, Closed
  <1>5. Typed'
    BY <1>1, <1>2, <1>4 DEF Typed, PCs
  <1>6. OnePlace'
    BY <1>1, <1>2 DEF OnePlace
  <1>7. Slots'
    BY <1>1, <1>2 DEF Slots
  <1> QED
    BY <1>5, <1>6, <1>7 DEF Placed

LEMMA PlacedStep ==
  ASSUME Placed, [Next]_vars
  PROVE  Placed'
  <1>1. CASE UNCHANGED vars
    BY <1>1 DEF Placed, Typed, OnePlace, Slots, vars, clockVars, loopVars, taskVars, rowVars
  <1>2. CASE Next
    BY <1>2, PlacedLoop, PlacedRound, PlacedCancel DEF Next
  <1> QED
    BY <1>1, <1>2

-----------------------------------------------------------------------------
(* The verdict.                                                            *)
LEMMA VerdictAtFirst == Init => Verdict
  <1> SUFFICES ASSUME Init PROVE Verdict
    OBVIOUS
  <1>1. /\ pc = "idle" /\ rid = 0 /\ reports = {}
        /\ \A n \in Rounds : told[n] = "" /\ audit[n] = "none"
    BY DEF Init
  <1>2. Counted
    BY <1>1 DEF Counted
  <1>3. Judged /\ Closing
    BY <1>1 DEF Judged, Closing, Early, Behind
  <1>4. Agree
    BY <1>1 DEF Agree
  <1>5. ~(rid > 0)
    <2>1. rid = 0
      BY <1>1
    <2> QED
      BY <2>1
  <1>6. Ended
    BY <1>5 DEF Ended
  <1> QED
    BY <1>2, <1>3, <1>4, <1>6 DEF Verdict

(* A step that touches neither the round nor its reports.                  *)
LEMMA VerdictUntouched ==
  ASSUME Placed, Verdict, FaultsGrow,
         UNCHANGED <<pc, rid, known, saved, closed, audit, reports, told, blind, cut>>
  PROVE  Verdict'
  <1>1. faults' = 0 => faults = 0
    BY StillFaultless
  <1>2. Counted' /\ Agree'
    BY DEF Verdict, Counted, Agree
  <1>3. Judged' /\ OfRound' = OfRound
    BY DEF Verdict, Judged, OfRound
  <1>4. Closing' /\ Ended'
    BY <1>1, <1>3 DEF Verdict, Closing, Ended
  <1> QED
    BY <1>2, <1>3, <1>4 DEF Verdict

(* A round is fired.                                                       *)
LEMMA VerdictFired ==
  ASSUME Placed, Verdict, Fire, UNCHANGED <<audit, reports, told, blind, cut, faults>>,
         rid < MaxRounds
  PROVE  Verdict'
  <1>1. /\ rid' = rid + 1 /\ pc' = "reserved" /\ saved' = FALSE /\ closed' = FALSE
    BY DEF Fire, FreshTask
  <1>2. rid \in Nat /\ rid' \in Rounds
    BY <1>1, Numbers DEF Rounds
  <1>3. /\ \A r \in reports : r.round \in 1..rid /\ r.ok \in BOOLEAN
        /\ \A n \in Rounds : n > rid => told[n] = "" /\ audit[n] = "none"
    BY DEF Verdict, Counted
  <1>4. \A r \in reports : r.round \in 1..rid' /\ r.round # rid'
    <2>1. \A x \in 1..rid : x \in 1..rid' /\ x # rid'
      BY <1>1, <1>2
    <2> QED
      BY <1>3, <2>1
  <1>5. told[rid'] = "" /\ audit[rid'] = "none"
    <2>1. rid' > rid
      BY <1>1, <1>2
    <2> QED
      BY <1>2, <1>3, <2>1
  <1>6. \A n \in Rounds : n > rid' => told[n] = "" /\ audit[n] = "none"
    <2>1. \A n \in Rounds : n > rid' => n > rid
      BY <1>1, <1>2 DEF Rounds
    <2> QED
      BY <1>3, <2>1
  <1>7. Counted'
    BY <1>3, <1>4, <1>5, <1>6 DEF Counted
  <1>8. Judged'
    BY <1>1, <1>4 DEF Judged, OfRound, Early, Behind
  <1>9. Closing' /\ Ended' /\ Agree'
    BY <1>1, <1>5 DEF Verdict, Closing, Ended, Agree
  <1> QED
    BY <1>7, <1>8, <1>9 DEF Verdict

(* A step of a round: it may save a report that agrees with those there    *)
(* are, or if the lookup of them has failed.                               *)
LEMMA RoundGoesOn ==
  ASSUME Placed, Verdict, pc # "idle", rid' = rid, blind \subseteq blind',
         pc' \notin {"idle", "prestart"} => pc # "prestart", NEW ok \in BOOLEAN,
         \/ reports' = reports
         \/ reports' = Report(ok) /\ (rid \in blind \/ \A r \in OfRound : r.ok = ok),
         audit' \in {audit, Opened, Closed},
         \/ told' = told
         \/ /\ pc' \in {"idle", "prestart"}
            /\ \E w \in {"ok", "failed"} : told' = [told EXCEPT ![rid] = w]
  PROVE  /\ Counted' /\ Agree'
         /\ reports' = reports => OfRound' = OfRound
         /\ reports' = Report(ok) => OfRound' = OfRound \cup {[round |-> rid, ok |-> ok]}
         /\ audit' = Opened => audit'[rid] = "open"
         /\ audit' = Closed => audit'[rid] = "closed"
  <1>1. /\ audit \in [Rounds -> {"none", "open", "closed"}] /\ rid \in Rounds
        /\ told \in [Rounds -> {"", "ok", "failed"}]
    BY DEF Placed, Typed
  <1>2. /\ \A r \in reports : r.round \in 1..rid /\ r.ok \in BOOLEAN
        /\ \A n \in Rounds : n > rid => told[n] = "" /\ audit[n] = "none"
        /\ pc # "prestart" => told[rid] = ""
    BY DEF Verdict, Counted
  <1>3. rid \in 1..rid /\ ~(rid > rid)
    <2>1. rid \in Nat /\ MaxRounds \in Nat
      BY Numbers
    <2>2. rid \in Rounds
      BY <1>1
    <2> QED
      BY <2>1, <2>2 DEF Rounds
  <1>4. \A r \in reports' : r.round \in 1..rid /\ r.ok \in BOOLEAN
    <2>1. \A r \in Report(ok) : r \in reports \/ (r.round = rid /\ r.ok = ok)
      BY DEF Report
    <2> QED
      BY <1>2, <1>3, <2>1
  <1>5. \A n \in Rounds : n # rid => told'[n] = told[n] /\ audit'[n] = audit[n]
    BY <1>1 DEF Opened, Closed
  <1>6. Counted'
    <2>1. \A n \in Rounds : n > rid => told'[n] = "" /\ audit'[n] = "none"
      BY <1>2, <1>3, <1>5
    <2>2. pc' \notin {"idle", "prestart"} => told'[rid] = ""
      BY <1>2
    <2> QED
      BY <1>4, <2>1, <2>2 DEF Counted
  <1>7. Agree'
    <2>1. \A r, s \in reports : r.round = s.round /\ r.round \notin blind => r.ok = s.ok
      BY DEF Verdict, Agree
    <2>2. CASE reports' = reports
      BY <2>1, <2>2 DEF Agree
    <2>3. CASE reports' = Report(ok) /\ (rid \in blind \/ \A r \in OfRound : r.ok = ok)
      BY <2>1, <2>3 DEF Agree, Report, OfRound
    <2> QED
      BY <2>2, <2>3
  <1>8. /\ reports' = reports => OfRound' = OfRound
        /\ reports' = Report(ok) => OfRound' = OfRound \cup {[round |-> rid, ok |-> ok]}
    <2>1. reports' = Report(ok) => OfRound' = OfRound \cup {[round |-> rid, ok |-> ok]}
      BY DEF Report, OfRound
    <2> QED
      BY <2>1 DEF OfRound
  <1>9. (audit' = Opened => audit'[rid] = "open") /\ (audit' = Closed => audit'[rid] = "closed")
    BY <1>1 DEF Opened, Closed
  <1> QED
    BY <1>6, <1>7, <1>8, <1>9

(* The steps up to the report.                                             *)
LEMMA VerdictEarly ==
  ASSUME Placed, Verdict,
         TaskStarts \/ BeginRound \/ ChatEnds \/ ChatRaises \/ ParseAnswer \/ Reask
  PROVE  Verdict'
  <1> USE DEF Goto, Ends, taskVars, rowVars, others, histVars, clockVars, NoFault, Fault
  <1>1. FaultsGrow
    BY OnlyMoreFaults DEF Next, RoundStep
  <1>2. faults' = 0 => faults = 0
    BY <1>1, StillFaultless
  <1>3. /\ UNCHANGED <<rid, saved, closed, reports, told, blind>> /\ cut \subseteq cut'
        /\ audit' \in {audit, Opened}
        /\ \/ pc = "reserved" /\ pc' = "begin" /\ UNCHANGED <<audit, known>>
           \/ /\ pc = "reserved" /\ pc' \in {"idle", "prestart"} /\ rid \in cut'
              /\ UNCHANGED <<audit, known>>
           \/ /\ pc = "begin" /\ pc' = "chat" /\ audit' = Opened /\ known' = TRUE
           \/ /\ pc = "begin" /\ pc' = "unwind" /\ faults' = faults + 1
           \/ /\ pc \in {"chat", "parse", "reask"}
              /\ pc' \in {"parse", "reask", "persist", "unwind"}
              /\ UNCHANGED <<audit, known>>
    <2>1. CASE TaskStarts \/ BeginRound
      BY <2>1 DEF TaskStarts, BeginRound
    <2>2. CASE ChatEnds \/ ChatRaises \/ ParseAnswer \/ Reask
      BY <2>2 DEF ChatEnds, ChatRaises, ParseAnswer, Reask
    <2> QED
      BY <2>1, <2>2
  <1>4. Judged /\ Closing
    BY DEF Verdict
  <1>5. OfRound' = OfRound /\ (audit' = Opened => audit'[rid] = "open") /\ Counted' /\ Agree'
    BY <1>3, RoundGoesOn
  <1>6. OfRound = {} /\ ~saved
    BY <1>3, <1>4 DEF Judged, Early
  <1>7. Judged'
    BY <1>3, <1>4, <1>5, <1>6 DEF Judged, Early, Behind
  <1>8. Closing'
    <2>1. pc = "reserved" \/ pc = "begin" => ~closed /\ audit[rid] = "none"
      BY <1>4 DEF Closing
    <2>2. closed /\ pc # "idle" => audit[rid] = "closed"
      BY <1>4 DEF Closing
    <2> QED
      BY <1>3, <2>1, <2>2 DEF Closing
  <1>9. Ended'
    BY <1>3 DEF Ended
  <1> QED
    BY <1>5, <1>7, <1>8, <1>9 DEF Verdict

(* The report, and what follows it.                                        *)
LEMMA VerdictSaved ==
  ASSUME Placed, Verdict, Persist \/ Flushed \/ CloseAudit \/ Recover
  PROVE  Verdict'
  <1> USE DEF Goto, taskVars, rowVars, others, histVars, clockVars, NoFault, Fault
  <1>1. FaultsGrow
    BY OnlyMoreFaults DEF Next, RoundStep
  <1>2. faults' = 0 => faults = 0
    BY <1>1, StillFaultless
  <1>3. Judged /\ Closing
    BY DEF Verdict
  <1>4. faults \in Nat
    BY DEF Placed, Typed
  <1>5. CASE Persist
    <2>1. /\ UNCHANGED <<rid, known, closed, audit, told, blind, cut>> /\ pc = "persist"
          /\ \/ pc' = "flush" /\ saved' = TRUE /\ reports' = Report(TRUE)
             \/ pc' = "unwind" /\ saved' = saved /\ reports' \in {reports, Report(TRUE)}
      BY <1>5 DEF Persist
    <2>2. OfRound = {} /\ ~saved /\ known
      BY <1>3, <2>1 DEF Judged, Early
    <2>3. /\ Counted' /\ Agree'
          /\ reports' = reports => OfRound' = OfRound
          /\ reports' = Report(TRUE) => OfRound' = OfRound \cup {[round |-> rid, ok |-> TRUE]}
      BY <2>1, <2>2, RoundGoesOn
    <2>4. Judged'
      <3>1. \A r \in OfRound' : r.ok = TRUE
        <4>1. CASE reports' = Report(TRUE)
          <5>1. OfRound' = {[round |-> rid, ok |-> TRUE]}
            BY <2>2, <2>3, <4>1
          <5> QED
            BY <5>1
        <4>2. CASE reports' = reports
          BY <2>2, <2>3, <4>2
        <4> QED
          BY <2>1, <4>1, <4>2
      <3>2. pc' = "flush" => OfRound' # {} /\ saved' = TRUE
        BY <2>1, <2>3
      <3>3. pc' = "unwind" => saved' = saved
        BY <2>1
      <3>4. known' /\ (pc' = "unwind" => ~saved')
        BY <2>1, <2>2, <3>3
      <3> QED
        BY <2>1, <3>1, <3>2, <3>4 DEF Judged, Early, Behind
    <2>5. Closing' /\ Ended'
      BY <1>3, <2>1 DEF Closing, Ended
    <2> QED
      BY <2>3, <2>4, <2>5 DEF Verdict
  <1>6. CASE Flushed
    <2>1. /\ UNCHANGED <<rid, known, saved, closed, reports, audit, told, blind, cut>>
          /\ \/ pc = "flush" /\ pc' = "close"
             \/ pc = "reflush" /\ pc' = "reclose"
      BY <1>6 DEF Flushed
    <2>2. Counted' /\ Agree' /\ OfRound' = OfRound
      BY <2>1, RoundGoesOn
    <2>3. Judged'
      BY <1>3, <2>1, <2>2 DEF Judged, Early, Behind
    <2>4. Closing' /\ Ended'
      BY <1>3, <2>1 DEF Closing, Ended
    <2> QED
      BY <2>2, <2>3, <2>4 DEF Verdict
  <1>7. CASE CloseAudit
    <2>1. /\ UNCHANGED <<rid, known, saved, reports, told, blind, cut>> /\ pc = "close"
          /\ \/ pc' = "tell" /\ closed' = TRUE /\ audit' = Closed
             \/ pc' = "reflush" /\ closed' = closed /\ audit' \in {audit, Closed}
      BY <1>7 DEF CloseAudit
    <2>2. Counted' /\ Agree' /\ OfRound' = OfRound /\ (audit' = Closed => audit'[rid] = "closed")
      BY <2>1, RoundGoesOn
    <2>3. Judged'
      BY <1>3, <2>1, <2>2 DEF Judged, Early, Behind
    <2>4. Closing' /\ Ended'
      BY <1>3, <2>1, <2>2 DEF Closing, Ended
    <2> QED
      BY <2>2, <2>3, <2>4 DEF Verdict
  <1>8. CASE Recover
    <2>1. /\ UNCHANGED <<rid, saved, closed, reports, audit, told, cut>> /\ pc = "unwind"
          /\ blind \subseteq blind'
          /\ \/ /\ pc' = "reflush" /\ (saved \/ (Claimed /\ Committed))
             \/ /\ pc' = "report" /\ ~saved /\ ~(Claimed /\ Committed) /\ known' = Claimed
             \/ pc' = "report" /\ ~saved /\ rid \in blind' /\ faults' = faults + 1
      BY <1>8 DEF Recover
    <2>2. Counted' /\ Agree' /\ OfRound' = OfRound
      BY <2>1, RoundGoesOn
    <2>3. (Committed => OfRound # {}) /\ (OfRound # {} => Claimed /\ Committed)
      BY <1>3, <2>1 DEF Judged, Claimed, Committed, OfRound
    <2>4. Judged'
      <3>1. pc' = "reflush" => OfRound # {} /\ \A r \in OfRound : r.ok = TRUE
        BY <1>3, <2>1, <2>3 DEF Judged
      <3>2. pc' = "report" => ~saved /\ (rid \in blind' \/ OfRound = {})
        BY <2>1, <2>3
      <3> QED
        BY <2>1, <2>2, <3>1, <3>2 DEF Judged, Early, Behind
    <2>5. Closing' /\ Ended'
      <3>1. closed => audit[rid] = "closed"
        BY <1>3, <2>1 DEF Closing
      <3>2. faults' = 0 /\ pc' = "report" /\ ~known' => audit[rid] = "none"
        <4>1. faults' = 0 => faults' # faults + 1
          BY <1>4
        <4> QED
          BY <2>1, <4>1 DEF Claimed
      <3> QED
        BY <2>1, <3>1, <3>2 DEF Closing, Ended
    <2> QED
      BY <2>2, <2>4, <2>5 DEF Verdict
  <1> QED
    BY <1>5, <1>6, <1>7, <1>8

(* The end of the round.                                                   *)
LEMMA VerdictEnds ==
  ASSUME Placed, Verdict,
         TellSuccess \/ Reclose \/ SaveFailure \/ CloseFailed \/ RecordPrestart
  PROVE  Verdict'
  <1> USE DEF Goto, Ends, taskVars, rowVars, others, histVars, clockVars, NoFault, Fault
  <1>1. FaultsGrow
    BY OnlyMoreFaults DEF Next, RoundStep
  <1>2. faults' = 0 => faults = 0
    BY <1>1, StillFaultless
  <1>3. Judged /\ Closing
    BY DEF Verdict
  <1>4. faults \in Nat
    BY DEF Placed, Typed
  <1>5. CASE TellSuccess \/ Reclose \/ CloseFailed
    <2>1. /\ UNCHANGED <<rid, known, saved, closed, reports, blind, cut>>
          /\ pc' \in {"idle", "prestart"} /\ audit' \in {audit, Closed}
          /\ told' = told \/ \E w \in {"ok", "failed"} : told' = [told EXCEPT ![rid] = w]
          /\ \/ pc = "tell" /\ audit' = audit
             \/ /\ pc = "reclose"
                /\ (closed /\ audit' = audit) \/ audit' = Closed \/ faults' = faults + 1
             \/ /\ pc = "refuse"
                /\ (~known /\ audit' = audit) \/ audit' = Closed \/ faults' = faults + 1
      BY <1>5 DEF TellSuccess, Reclose, CloseFailed, Tell
    <2>2. Counted' /\ Agree' /\ OfRound' = OfRound /\ (audit' = Closed => audit'[rid] = "closed")
      BY <2>1, RoundGoesOn
    <2>3. Judged'
      BY <2>1 DEF Judged, Early, Behind
    <2>4. faults' = 0 => OfRound # {}
      BY <1>2, <1>3, <2>1 DEF Judged, Closing, Behind
    <2>5. faults' = 0 => audit'[rid] \in {"closed", "none"}
      <3>1. faults' = 0 => faults' # faults + 1
        BY <1>4
      <3> QED
        BY <1>2, <1>3, <2>1, <2>2, <3>1 DEF Closing
    <2>6. pc' # "idle" /\ closed => audit'[rid] = "closed"
      BY <1>3, <2>1, <2>2 DEF Closing
    <2>7. Closing' /\ Ended'
      BY <2>1, <2>2, <2>4, <2>5, <2>6 DEF Closing, Ended
    <2> QED
      BY <2>2, <2>3, <2>7 DEF Verdict
  <1>6. CASE SaveFailure
    <2>1. /\ UNCHANGED <<rid, known, saved, closed, audit, told, blind, cut>>
          /\ pc = "report" /\ pc' = "refuse"
          /\ reports' = Report(FALSE) \/ (reports' = reports /\ faults' = faults + 1)
      BY <1>6 DEF SaveFailure
    <2>2. ~saved /\ (rid \in blind \/ \A r \in OfRound : r.ok = FALSE)
      BY <1>3, <2>1 DEF Judged
    <2>3. /\ Counted' /\ Agree'
          /\ reports' = Report(FALSE) => OfRound' = OfRound \cup {[round |-> rid, ok |-> FALSE]}
      BY <2>1, <2>2, RoundGoesOn
    <2>4. Judged'
      BY <2>1, <2>2 DEF Judged, Early, Behind
    <2>5. faults' = 0 => OfRound' # {}
      <3>1. faults' = 0 => faults' # faults + 1
        BY <1>4
      <3> QED
        BY <2>1, <2>3, <3>1
    <2>6. Closing' /\ Ended'
      BY <1>2, <1>3, <2>1, <2>5 DEF Closing, Ended
    <2> QED
      BY <2>3, <2>4, <2>6 DEF Verdict
  <1>7. CASE RecordPrestart
    <2>1. /\ UNCHANGED <<rid, known, saved, closed, audit, told, blind, cut>>
          /\ pc = "prestart" /\ pc' = "idle"
          /\ \/ reports' = Report(FALSE) /\ \A r \in reports : r.round # rid
             \/ /\ reports' = reports
                /\ audit[rid] # "none" \/ OfRound # {} \/ faults' = faults + 1
      BY <1>7 DEF RecordPrestart, OfRound
    <2>2. (\A r \in reports : r.round # rid) => OfRound = {}
      BY DEF OfRound
    <2>3. /\ Counted' /\ Agree'
          /\ reports' = reports => OfRound' = OfRound
          /\ reports' = Report(FALSE) => OfRound' = OfRound \cup {[round |-> rid, ok |-> FALSE]}
      BY <2>1, <2>2, RoundGoesOn
    <2>4. Judged' /\ Closing'
      BY <2>1 DEF Judged, Closing, Early, Behind
    <2>5. faults' = 0 /\ rid \notin cut =>
            audit[rid] = "none" \/ (audit[rid] = "closed" /\ OfRound # {})
      BY <1>2, <1>3, <2>1 DEF Closing
    <2>6. faults' = 0 => faults' # faults + 1
      BY <1>4
    <2>7. Ended'
      BY <2>1, <2>3, <2>5, <2>6 DEF Ended
    <2> QED
      BY <2>3, <2>4, <2>7 DEF Verdict
  <1> QED
    BY <1>5, <1>6, <1>7

LEMMA VerdictCancel ==
  ASSUME Placed, Verdict, Cancel
  PROVE  Verdict'
  <1>1. /\ UNCHANGED <<rid, known, saved, closed, told, blind, faults>> /\ cut \subseteq cut'
        /\ pc \in Handling => rid \in cut'
        /\ pc' = IF pc \in InTry THEN "unwind" ELSE IF pc = "idle" THEN "idle" ELSE "prestart"
        /\ audit' \in {audit, Opened, Closed} /\ (pc \notin InTry \cup Handling => audit' = audit)
        /\ audit' = Opened => pc = "begin" \/ audit' = audit \/ audit' = Closed
        /\ \/ reports' = reports
           \/ reports' = Report(TRUE) /\ pc = "persist"
           \/ reports' = Report(FALSE) /\ pc = "report"
        /\ pc = "idle" => cut' = cut
    BY DEF Cancel, InTry, Handling
  <1>2. Judged /\ Closing /\ Ended
    BY DEF Verdict
  <1>3. pc \in PCs
    BY DEF Placed, Typed
  <1>4. CASE pc = "idle"
    BY <1>1, <1>4, VerdictUntouched DEF FaultsGrow, InTry, Handling
  <1>5. CASE pc # "idle"
    <2>1. /\ pc = "persist" => OfRound = {}
          /\ pc = "report" => rid \in blind \/ \A r \in OfRound : r.ok = FALSE
      BY <1>2 DEF Judged, Early
    <2>2. /\ Counted' /\ Agree'
          /\ reports' = reports => OfRound' = OfRound
          /\ pc # "report" /\ reports' = Report(TRUE) =>
               OfRound' = OfRound \cup {[round |-> rid, ok |-> TRUE]}
          /\ audit' = Opened => audit'[rid] = "open"
          /\ audit' = Closed => audit'[rid] = "closed"
      <3>1. pc' \notin {"idle", "prestart"} => pc # "prestart"
        BY <1>1, <1>5 DEF InTry
      <3>2. CASE \/ reports' = reports
                 \/ reports' = Report(TRUE) /\ pc = "persist"
        BY <1>1, <1>5, <2>1, <3>1, <3>2, RoundGoesOn
      <3>3. CASE reports' = Report(FALSE) /\ pc = "report"
        <4>1. rid \in blind \/ \A r \in OfRound : r.ok = FALSE
          BY <2>1, <3>3
        <4> QED
          BY <1>1, <1>5, <3>1, <3>3, <4>1, RoundGoesOn
      <3> QED
        BY <1>1, <3>2, <3>3
    <2>3. CASE pc \in InTry
      <3>1. pc' = "unwind"
        BY <1>1, <2>3
      <3>2. Judged'
        <4>1. \/ reports' = reports /\ OfRound' = OfRound
              \/ /\ pc = "persist" /\ OfRound = {}
                 /\ OfRound' = OfRound \cup {[round |-> rid, ok |-> TRUE]}
          BY <1>1, <2>1, <2>2, <2>3 DEF InTry
        <4>2. \A r \in OfRound : r.ok = TRUE
          BY <1>2, <2>3 DEF Judged, Early, Behind, InTry
        <4>3. \A r \in OfRound' : r.ok = TRUE
          BY <4>1, <4>2
        <4>4. saved => OfRound # {}
          BY <1>2, <2>3 DEF Judged, Early, Behind, InTry
        <4>5. saved => OfRound' # {}
          BY <4>1, <4>4
        <4>6. OfRound' # {} => known
          BY <1>2, <2>3, <4>1 DEF Judged, Early, InTry
        <4> QED
          BY <1>1, <3>1, <4>3, <4>5, <4>6 DEF Judged, Early, Behind
      <3>3. closed => audit'[rid] = "closed"
        BY <1>1, <1>2, <1>5, <2>2 DEF Closing
      <3>4. Closing' /\ Ended'
        BY <1>1, <3>1, <3>3 DEF Closing, Ended
      <3> QED
        BY <2>2, <3>2, <3>4 DEF Verdict
    <2>4. CASE pc \notin InTry
      <3>1. pc' = "prestart"
        BY <1>1, <1>5, <2>4
      <3>2. Judged'
        BY <3>1 DEF Judged, Early, Behind
      <3>3. closed => audit'[rid] = "closed"
        BY <1>1, <1>2, <1>5, <2>2, <2>4 DEF Closing, InTry
      <3>4. faults = 0 /\ rid \notin cut' =>
              audit'[rid] = "none" \/ (audit'[rid] = "closed" /\ OfRound' # {})
        <4>1. pc \in Handling \/ pc \in {"reserved", "tell", "prestart"}
          BY <1>3, <1>5, <2>4 DEF PCs, InTry, Handling
        <4>2. pc \in {"reserved", "tell", "prestart"} => audit' = audit /\ OfRound' = OfRound
          BY <1>1, <2>2 DEF InTry, Handling
        <4> QED
          BY <1>1, <1>2, <4>1, <4>2 DEF Closing, Judged, Behind
      <3>5. Closing' /\ Ended'
        BY <1>1, <3>1, <3>3, <3>4 DEF Closing, Ended
      <3> QED
        BY <2>2, <3>2, <3>5 DEF Verdict
    <2> QED
      BY <2>3, <2>4
  <1> QED
    BY <1>4, <1>5

LEMMA VerdictStep ==
  ASSUME Placed, Verdict, [Next]_vars
  PROVE  Verdict'
  <1> USE DEF clockVars, loopVars, taskVars, rowVars, histVars
  <1>1. CASE MinuteTurns \/ Tick \/ ClaimFails \/ Restart \/ SubmitLink \/ FlushLink
    <2>1. FaultsGrow
      BY <1>1, OnlyMoreFaults DEF Next, RoundStep
    <2>2. UNCHANGED <<pc, rid, known, saved, closed, audit, reports, told, blind, cut>>
      BY <1>1 DEF MinuteTurns, Tick, ClaimFails, Restart, SubmitLink, FlushLink, others
    <2> QED
      BY <2>1, <2>2, VerdictUntouched
  <1>2. CASE ClaimAndFire \/ StartNow
    <2>1. UNCHANGED <<audit, reports, told, blind, cut, faults>>
      BY <1>2 DEF ClaimAndFire, StartNow
    <2>2. \/ Fire /\ rid < MaxRounds
          \/ UNCHANGED <<pc, rid, known, saved, closed>>
      BY <1>2 DEF ClaimAndFire, StartNow, CanFire
    <2> QED
      BY <2>1, <2>2, VerdictFired, VerdictUntouched DEF FaultsGrow
  <1>3. CASE Exit
    <2>1. /\ pc' = "idle" /\ UNCHANGED <<rid, audit, reports, told, blind, faults>>
          /\ cut' = IF pc = "idle" THEN cut ELSE cut \cup {rid}
      BY <1>3 DEF Exit
    <2>2. Counted' /\ Agree'
      BY <2>1 DEF Verdict, Counted, Agree
    <2>3. Judged' /\ Closing'
      BY <2>1 DEF Judged, Closing, Early, Behind
    <2>4. Ended'
      BY <2>1 DEF Verdict, Ended, OfRound
    <2> QED
      BY <2>2, <2>3, <2>4 DEF Verdict
  <1>4. CASE UNCHANGED vars
    BY <1>4, VerdictUntouched DEF vars, FaultsGrow
  <1>5. CASE Cancel
    BY <1>5, VerdictCancel
  <1>6. CASE RoundStep /\ ~FlushLink
    BY <1>6, VerdictEarly, VerdictSaved, VerdictEnds DEF RoundStep
  <1> QED
    BY <1>1, <1>2, <1>3, <1>4, <1>5, <1>6 DEF Next, RoundStep

-----------------------------------------------------------------------------
(* The links.                                                              *)
LEMMA LinkedAtFirst == Init => Linked
  <1> SUFFICES ASSUME Init PROVE Linked
    OBVIOUS
  <1>1. /\ pend = <<>> /\ left = <<>> /\ rid = 0 /\ saved = FALSE /\ pc = "idle"
        /\ links = <<[round |-> 0, key |-> 1, sup |-> 0, status |-> "current"]>>
    BY DEF Init
  <1>2. /\ links \in Seq(LinkSet) /\ DOMAIN links = {1}
        /\ links[1].round = 0 /\ links[1].sup = 0 /\ links[1].status = "current"
    <2>1. [round |-> 0, key |-> 1, sup |-> 0, status |-> "current"] \in LinkSet
      BY DEF LinkSet
    <2> QED
      BY <1>1, <2>1
  <1>3. DOMAIN pend = {} /\ pend \in Seq(Nat) /\ left \in Seq(Nat)
    BY <1>1
  <1>4. Rowed /\ Apart
    BY <1>2, <1>3 DEF Rowed, Apart
  <1>5. Tailed /\ Named
    BY <1>1 DEF Tailed, Listing, Named, Working, Behind
  <1>6. Listed
    BY <1>1, <1>3 DEF Listed, Untouched, Working, Early, Behind
  <1>7. Reported
    BY <1>1, <1>2 DEF Reported
  <1>8. Succeeded /\ Replaced /\ Unforked
    BY <1>2 DEF Succeeded, Replaced, Unforked, Whole
  <1>9. Free
    BY <1>1 DEF Free, Early
  <1> QED
    BY <1>4, <1>5, <1>6, <1>7, <1>8, <1>9 DEF Linked

(* While nothing is saved the list is not looked at.                       *)
LEMMA NotYetListing ==
  ASSUME Placed, Verdict, Untouched
  PROVE  ~Listing /\ ~saved
  BY DEF Verdict, Judged, Untouched, Listing, Early, Behind

(* The first link of the list is the first that waits.                     *)
LEMMA FirstWaits ==
  ASSUME Rowed, Tailed, Listing, left # <<>>
  PROVE  left[1] \in DOMAIN pend /\ left[1] \in Waiting
  <1>1. Len(left) \in Nat /\ Len(pend) \in Nat /\ Len(left) > 0
        /\ DOMAIN left = 1..Len(left) /\ DOMAIN pend = 1..Len(pend)
    BY DEF Rowed
  <1>2. Len(left) <= Len(pend) /\ \A j \in DOMAIN left : left[j] = Len(pend) - Len(left) + j
    BY DEF Tailed
  <1>3. 1 \in DOMAIN left
    BY <1>1
  <1>4. left[1] = Len(pend) - Len(left) + 1
    BY <1>2, <1>3
  <1>5. left[1] \in DOMAIN pend
    BY <1>1, <1>2, <1>4
  <1>6. left[1] \in Waiting
    BY <1>3 DEF Waiting
  <1> QED
    BY <1>5, <1>6

LEMMA RestWaits ==
  ASSUME Rowed, Tailed, Listing, left # <<>>, left' = Tail(left), pend' = pend, Listing'
  PROVE  Tailed' /\ left' \in Seq(Nat) /\ Waiting' = Waiting \ {left[1]}
  <1>1. /\ Len(left) \in Nat /\ Len(pend) \in Nat /\ Len(left) > 0 /\ left \in Seq(Nat)
        /\ DOMAIN left = 1..Len(left) /\ DOMAIN pend = 1..Len(pend)
    BY DEF Rowed
  <1>2. Len(left) <= Len(pend) /\ \A j \in DOMAIN left : left[j] = Len(pend) - Len(left) + j
    BY DEF Tailed
  <1>3. /\ left' \in Seq(Nat) /\ Len(left') = Len(left) - 1 /\ DOMAIN left' = 1..(Len(left) - 1)
        /\ \A j \in 1..(Len(left) - 1) : left'[j] = left[j + 1]
    BY <1>1
  <1>4. \A j \in 1..(Len(left) - 1) :
          j + 1 \in DOMAIN left /\ left'[j] = Len(pend) - Len(left) + (j + 1)
    <2>1. \A j \in 1..(Len(left) - 1) : j + 1 \in DOMAIN left
      BY <1>1
    <2>2. \A j \in 1..(Len(left) - 1) : left[j + 1] = Len(pend) - Len(left) + (j + 1)
      BY <1>2, <2>1
    <2> QED
      BY <1>3, <2>1, <2>2
  <1>5. Tailed'
    <2>1. Len(left') <= Len(pend')
      BY <1>1, <1>2, <1>3
    <2>2. \A j \in DOMAIN left' : left'[j] = Len(pend') - Len(left') + j
      BY <1>1, <1>3, <1>4
    <2> QED
      BY <2>1, <2>2 DEF Tailed
  <1>6. {left'[j] : j \in DOMAIN left'} = {left[j] : j \in DOMAIN left} \ {left[1]}
    <2>1. \A j \in DOMAIN left' : left'[j] = left[j + 1] /\ j + 1 \in DOMAIN left /\ j + 1 # 1
      BY <1>1, <1>3
    <2>2. \A j \in DOMAIN left : j # 1 => left[j] # left[1]
      BY <1>1, <1>2
    <2>3. \A j \in DOMAIN left : j # 1 => j - 1 \in DOMAIN left' /\ left'[j - 1] = left[j]
      BY <1>1, <1>3
    <2>4. \A j \in DOMAIN left' : left'[j] \in {left[m] : m \in DOMAIN left} \ {left[1]}
      BY <2>1, <2>2
    <2>5. ASSUME NEW j \in DOMAIN left, left[j] # left[1]
          PROVE  left[j] \in {left'[m] : m \in DOMAIN left'}
      BY <2>3, <2>5
    <2> QED
      BY <2>4, <2>5
  <1> QED
    BY <1>3, <1>5, <1>6 DEF Waiting

(* The table has one row more: the link, and perhaps the mark on what it   *)
(* replaces.                                                               *)
New == Len(links) + 1
Grown(i) ==
  /\ links' \in Seq(LinkSet) /\ DOMAIN links' = DOMAIN links \cup {New} /\ New \notin DOMAIN links
  /\ Len(links') = New /\ Len(links) < New
  /\ links'[New].round = rid /\ links'[New].key = i
  /\ links'[New].sup = pend[i] /\ links'[New].status = "current"
  /\ \A k \in DOMAIN links :
       /\ links'[k].round = links[k].round /\ links'[k].key = links[k].key
       /\ links'[k].sup = links[k].sup
       /\ \/ links'[k].status = links[k].status
          \/ k = pend[i] /\ links'[k].status = "superseded"
Marked(i) ==
  pend[i] # 0 => pend[i] \in DOMAIN links /\ links'[pend[i]].status = "superseded"

(* Or as many rows, and the mark: the link was rolled back.                *)
Orphaned(i) ==
  /\ links' \in Seq(LinkSet) /\ DOMAIN links' = DOMAIN links /\ Len(links') = Len(links)
  /\ orphans' = orphans \cup {pend[i]}
  /\ \A k \in DOMAIN links :
       /\ links'[k].round = links[k].round /\ links'[k].key = links[k].key
       /\ links'[k].sup = links[k].sup
       /\ \/ links'[k].status = links[k].status
          \/ k = pend[i]

LEMMA Appended ==
  ASSUME Placed, Rowed, NEW i \in DOMAIN pend
  PROVE  /\ Inserted(i) \in Seq(LinkSet) /\ Len(Inserted(i)) = New /\ New \in Nat
         /\ DOMAIN Inserted(i) = 1..New /\ DOMAIN links = 1..Len(links) /\ Len(links) \in Nat
         /\ Inserted(i)[New] = Link(i) /\ Link(i) \in LinkSet
         /\ \A k \in DOMAIN links : Inserted(i)[k] = links[k] /\ links[k] \in LinkSet
         /\ pend[i] \in Nat /\ pend[i] <= Len(links)
  <1>1. /\ links \in Seq(LinkSet) /\ pend[i] \in Nat /\ i \in Nat /\ rid \in Nat
        /\ pend[i] <= Len(links)
    <2>1. pend \in Seq(Nat)
      BY DEF Rowed
    <2> QED
      BY <2>1, Numbers DEF Rowed
  <1>2. Link(i) \in LinkSet
    BY <1>1 DEF Link, LinkSet
  <1> QED
    BY <1>1, <1>2 DEF Inserted, New

LEMMA GrownInserted ==
  ASSUME Placed, Rowed, NEW i \in DOMAIN pend, links' = Inserted(i)
  PROVE  Grown(i)
  <1>1. /\ Inserted(i) \in Seq(LinkSet) /\ Len(Inserted(i)) = New /\ New \in Nat
        /\ DOMAIN Inserted(i) = 1..New /\ DOMAIN links = 1..Len(links) /\ Len(links) \in Nat
        /\ Inserted(i)[New] = Link(i)
        /\ \A k \in DOMAIN links : Inserted(i)[k] = links[k]
    BY Appended
  <1>2. 1..New = 1..Len(links) \cup {New} /\ New \notin 1..Len(links) /\ Len(links) < New
    BY <1>1 DEF New
  <1>3. /\ Link(i).round = rid /\ Link(i).key = i /\ Link(i).sup = pend[i]
        /\ Link(i).status = "current"
    BY DEF Link
  <1> QED
    BY <1>1, <1>2, <1>3 DEF Grown

LEMMA GrownSaved ==
  ASSUME Placed, Rowed, NEW i \in DOMAIN pend, links' = Saved(i)
  PROVE  Grown(i) /\ Marked(i)
  <1>1. /\ Inserted(i) \in Seq(LinkSet) /\ New \in Nat
        /\ DOMAIN links = 1..Len(links) /\ Len(links) \in Nat
        /\ Inserted(i)[New] = Link(i) /\ Link(i) \in LinkSet
        /\ \A k \in DOMAIN links : Inserted(i)[k] = links[k] /\ links[k] \in LinkSet
        /\ pend[i] \in Nat /\ pend[i] <= Len(links)
    BY Appended
  <1>2. 1..New = 1..Len(links) \cup {New} /\ New \notin 1..Len(links) /\ Len(links) < New
        /\ pend[i] # New
    BY <1>1 DEF New
  <1>3. /\ Link(i).round = rid /\ Link(i).key = i /\ Link(i).sup = pend[i]
        /\ Link(i).status = "current"
    BY DEF Link
  <1>4. \A k \in DOMAIN links : LET m == [links[k] EXCEPT !.status = "superseded"] IN
          /\ m \in LinkSet /\ m.round = links[k].round /\ m.key = links[k].key
          /\ m.sup = links[k].sup /\ m.status = "superseded"
    BY <1>1 DEF LinkSet
  <1>5. links' = [k \in 1..New |->
                   IF k = pend[i] THEN [links[k] EXCEPT !.status = "superseded"]
                   ELSE Inserted(i)[k]]
    BY DEF Saved, New
  <1>6. links'[New] = Link(i)
    BY <1>1, <1>2, <1>5
  <1>7. \A k \in DOMAIN links : 
          IF k = pend[i] THEN links'[k] = [links[k] EXCEPT !.status = "superseded"]
          ELSE links'[k] = links[k]
    BY <1>1, <1>2, <1>5
  <1>8. \A k \in 1..New : links'[k] \in LinkSet
    BY <1>1, <1>2, <1>4, <1>6, <1>7
  <1>9. links' \in Seq(LinkSet) /\ Len(links') = New /\ DOMAIN links' = 1..New
    <2>1. links' \in [1..New -> LinkSet]
      BY <1>5, <1>8
    <2>2. links' \in Seq(LinkSet)
      BY <1>1, <2>1, SeqDef
    <2> QED
      BY <1>1, <2>1, <2>2
  <1>10. Grown(i)
    BY <1>1, <1>2, <1>3, <1>4, <1>6, <1>7, <1>9 DEF Grown
  <1>11. Marked(i)
    <2>1. pend[i] # 0 => pend[i] \in DOMAIN links
      BY <1>1
    <2>2. pend[i] \in DOMAIN links => links'[pend[i]].status = "superseded"
      BY <1>4, <1>7
    <2> QED
      BY <2>1, <2>2 DEF Marked
  <1> QED
    BY <1>10, <1>11

LEMMA OrphanedOne ==
  ASSUME Placed, Rowed, NEW i \in DOMAIN pend, pend[i] # 0, links' = RolledBack(i),
         orphans' = orphans \cup {pend[i]}
  PROVE  Orphaned(i)
  <1>1. /\ DOMAIN links = 1..Len(links) /\ Len(links) \in Nat
        /\ \A k \in DOMAIN links : links[k] \in LinkSet
        /\ pend[i] \in Nat /\ pend[i] <= Len(links)
    BY Appended
  <1>2. links' = [links EXCEPT ![pend[i]].status = "superseded"]
    BY DEF RolledBack
  <1>3. pend[i] \in DOMAIN links
    BY <1>1
  <1>4. /\ links \in Seq(LinkSet) /\ DOMAIN links' = DOMAIN links
        /\ links'[pend[i]] = [links[pend[i]] EXCEPT !.status = "superseded"]
        /\ \A k \in DOMAIN links : k # pend[i] => links'[k] = links[k]
    BY <1>2, <1>3 DEF Rowed
  <1>5. LET m == [links[pend[i]] EXCEPT !.status = "superseded"] IN
          /\ m \in LinkSet /\ m.round = links[pend[i]].round /\ m.key = links[pend[i]].key
          /\ m.sup = links[pend[i]].sup
    BY <1>1, <1>3 DEF LinkSet
  <1>6. \A k \in DOMAIN links :
          /\ links'[k] \in LinkSet
          /\ links'[k].round = links[k].round /\ links'[k].key = links[k].key
          /\ links'[k].sup = links[k].sup
          /\ links'[k].status = links[k].status \/ k = pend[i]
    BY <1>1, <1>4, <1>5
  <1>7. links' \in Seq(LinkSet) /\ Len(links') = Len(links)
    <2>1. links' \in [1..Len(links) -> LinkSet]
      BY <1>1, <1>2, <1>4, <1>6
    <2>2. links' \in Seq(LinkSet)
      BY <1>1, <2>1, SeqDef
    <2> QED
      BY <1>1, <2>1, <2>2
  <1> QED
    BY <1>4, <1>6, <1>7 DEF Orphaned

(* A step that saves no link.  While the list is not worked on, while it   *)
(* is, and at the end.                                                     *)
Begun == Early \cup {"unwind"}
Moves ==
  /\ UNCHANGED <<links, pend, left, lost, orphans, rid, saved>>
  /\ reports \subseteq reports' /\ cancelled \subseteq cancelled' /\ cut \subseteq cut'
  /\ \/ pc' = pc /\ told' = told
     \/ /\ Untouched /\ Untouched' /\ told' = told
        /\ pc' \in Begun => pc \in Begun
     \/ /\ Working /\ Working' /\ told' = told
        /\ pc' \in {"close", "tell", "reclose"} \/ pc = "close" => left = <<>>
        /\ pc' = "reflush" \/ pc # "reflush" \/ left = <<>>
        /\ pc' \in {"unwind", "reflush"} \/ pc # "unwind"
        /\ pc' \in {"unwind", "flush", "reflush"} => pc \in {"unwind", "flush", "reflush", "close"}
     \/ /\ pc' \in {"idle", "prestart"}
        /\ \/ /\ pc \in {"tell", "reclose"}
              /\ \A n \in Rounds : told'[n] = "ok" => told[n] = "ok" \/ n = rid
           \/ /\ pc \in {"idle", "prestart"} /\ told' = told
           \/ pc \notin {"idle", "prestart"} /\ told'[rid] # "ok"
        /\ pc \in {"unwind", "reflush"} => rid \in cut'

LEMMA ListedMoves ==
  ASSUME Placed, Verdict, Linked, Moves
  PROVE  Tailed' /\ Listed' /\ Named'
  <1> USE DEF Moves
  <1>1. Tailed /\ Listed /\ Named
    BY DEF Linked
  <1>2. \A i : RowsOf(rid, i)' = RowsOf(rid, i) /\ (Once(i) => Once(i)')
    BY DEF RowsOf, Once
  <1>3. Untouched \/ Working \/ pc \in {"idle", "prestart"}
    BY DEF Placed, Typed, PCs, Untouched, Working, Early, Behind
  <1>4. CASE pc' = pc /\ told' = told
    <2>1. Listing' = Listing /\ Untouched' = Untouched /\ Working' = Working
      BY <1>4 DEF Listing, Untouched, Working
    <2>2. Waiting' = Waiting
      BY <2>1 DEF Waiting
    <2>3. Tailed' /\ Named'
      BY <1>1, <2>1 DEF Tailed, Named
    <2>4. Listed'
      BY <1>1, <1>2, <1>4, <2>1, <2>2 DEF Listed
    <2> QED
      BY <2>3, <2>4
  <1>5. CASE Untouched /\ Untouched'
    <2>1. ~Listing /\ ~saved
      BY <1>5, NotYetListing
    <2>2. ~Listing' /\ ~Working'
      BY <1>5, <2>1 DEF Listing, Untouched, Working, Early, Behind
    <2>3. Tailed' /\ Named'
      BY <2>2 DEF Tailed, Named
    <2>4. pc' \notin {"close", "tell", "reclose", "idle", "prestart"}
      BY <1>5 DEF Untouched, Early
    <2>5. Listed'
      BY <1>1, <1>5, <2>2, <2>4 DEF Listed
    <2> QED
      BY <2>3, <2>5
  <1>6. CASE /\ Working /\ Working'
             /\ pc' \in {"close", "tell", "reclose"} => left = <<>>
    <2>1. Listing /\ Listing'
      BY <1>6 DEF Working, Listing
    <2>2. Waiting' = Waiting
      BY <2>1 DEF Waiting
    <2>3. Tailed' /\ Named'
      BY <1>1, <1>6, <2>1 DEF Tailed, Named
    <2>4. ~Untouched' /\ pc' \notin {"idle", "prestart"}
      BY <1>6 DEF Untouched, Working, Early, Behind
    <2>5. Listed'
      BY <1>1, <1>2, <1>6, <2>2, <2>4 DEF Listed
    <2> QED
      BY <2>3, <2>5
  <1>7. CASE pc' \in {"idle", "prestart"} /\ ~(pc' = pc /\ told' = told)
    <2>1. ~Untouched' /\ ~Working'
      BY <1>7 DEF Untouched, Working, Early, Behind
    <2>2. Tailed' /\ Named'
      BY <1>1, <2>1, <1>7 DEF Tailed, Named, Listing, Behind
    <2>3. rid > 0 /\ told'[rid] = "ok" => \A i \in DOMAIN pend : Once(i)
      <3>1. CASE pc \in {"tell", "reclose"}
        <4>1. Working /\ Listing /\ left = <<>>
          BY <1>1, <3>1 DEF Working, Listing, Behind, Listed
        <4>2. Waiting = {}
          BY <4>1 DEF Waiting
        <4> QED
          BY <1>1, <4>1, <4>2 DEF Listed
      <3>2. CASE pc \in {"idle", "prestart"} /\ told' = told
        BY <1>1, <3>2 DEF Listed
      <3> QED
        BY <1>7, <3>1, <3>2 DEF Untouched, Working, Early, Behind
    <2>4. Listed'
      BY <1>2, <1>7, <2>1, <2>3 DEF Listed
    <2> QED
      BY <2>2, <2>4
  <1> QED
    BY <1>4, <1>5, <1>6, <1>7

LEMMA LinkedMoves ==
  ASSUME Placed, Verdict, Linked, Moves, FaultsGrow
  PROVE  Linked'
  <1> USE DEF Moves
  <1>1. Rowed' /\ Apart' /\ Succeeded'
    BY DEF Linked, Rowed, Apart, Succeeded
  <1>2. Tailed' /\ Listed' /\ Named'
    BY ListedMoves
  <1>3. Reported'
    BY DEF Linked, Reported
  <1>4. (faults' = 0 => faults = 0) /\ Whole' \subseteq Whole
    BY StillFaultless DEF Whole
  <1>5. Unforked'
    BY <1>4 DEF Linked, Unforked
  <1>6. Replaced'
    <2> SUFFICES ASSUME faults' = 0, NEW j \in Whole', links[j].sup # 0
                 PROVE  \/ /\ links[j].sup \in DOMAIN links
                           /\ links[links[j].sup].status = "superseded"
                        \/ Copy(j)'
      BY DEF Replaced
    <2>1. \/ links[j].sup \in DOMAIN links /\ links[links[j].sup].status = "superseded"
          \/ Copy(j)
      BY <1>4 DEF Linked, Replaced
    <2>2. CASE Copy(j)
      <3>1. /\ pc \in {"unwind", "reflush"} /\ saved /\ left # <<>>
            /\ links[j].round = rid /\ links[j].key = left[1]
        BY <2>2 DEF Copy
      <3>2. rid \notin cut'
        BY <3>1 DEF Whole
      <3>3. ~Untouched
        BY <3>1 DEF Untouched, Early
      <3>4. pc' \in {"unwind", "reflush"}
        BY <3>1, <3>2, <3>3
      <3> QED
        BY <3>1, <3>4 DEF Copy
    <2> QED
      BY <2>1, <2>2
  <1>7. Free'
    <2> SUFFICES ASSUME faults' = 0, pc' \in Begun \cup {"flush", "reflush"},
                        NEW i \in Waiting' \cap DOMAIN pend, NEW j \in Whole',
                        pend[i] # 0, links[j].sup = pend[i]
                 PROVE  links[j].round = rid /\ links[j].key = i
      BY DEF Free, Begun
    <2>1. i \in Waiting /\ pc \in Begun \cup {"flush", "reflush"}
      <3>1. CASE pc' = pc
        BY <3>1 DEF Waiting, Listing
      <3>2. CASE Untouched /\ Untouched' /\ (pc' \in Begun => pc \in Begun)
        <4>1. ~Listing
          BY <3>2, NotYetListing
        <4>2. pc \in Begun
          BY <3>2 DEF Untouched, Early, Begun
        <4> QED
          BY <4>1, <4>2 DEF Waiting
      <3>3. CASE /\ Working /\ Working' /\ (pc = "close" => left = <<>>)
                 /\ pc' \in {"unwind", "flush", "reflush"} =>
                      pc \in {"unwind", "flush", "reflush", "close"}
        <4>1. Listing /\ Listing'
          BY <3>3 DEF Working, Listing
        <4>2. Waiting' = Waiting /\ left # <<>>
          BY <4>1 DEF Waiting
        <4>3. pc' \in {"unwind", "flush", "reflush"}
          BY <3>3 DEF Working, Behind, Begun, Early
        <4> QED
          BY <3>3, <4>2, <4>3 DEF Begun
      <3>4. pc' \notin {"idle", "prestart"}
        BY DEF Begun, Early
      <3> QED
        BY <3>1, <3>2, <3>3, <3>4
    <2> QED
      BY <1>4, <2>1 DEF Linked, Free, Begun
  <1> QED
    BY <1>1, <1>2, <1>3, <1>5, <1>6, <1>7 DEF Linked

(* What a new row of the round keeps, marked or not.                       *)
LEMMA GrownRows ==
  ASSUME Placed, Verdict, Linked, Working, NEW i \in DOMAIN pend, Grown(i), rid' = rid,
         pend' = pend, left' \in Seq(Nat), reports \subseteq reports',
         orphans' = orphans
  PROVE  /\ Rowed' /\ Apart' /\ Succeeded' /\ Reported'
         /\ \A k \in DOMAIN links' : links'[k].round = rid =>
              links'[k].key \in DOMAIN pend /\ links'[k].sup = pend[links'[k].key]
         /\ RowsOf(rid, i)' = RowsOf(rid, i) \cup {New}
         /\ \A x : x # i => RowsOf(rid, x)' = RowsOf(rid, x)
  <1>1. /\ DOMAIN links' = DOMAIN links \cup {New} /\ New \notin DOMAIN links
        /\ links'[New].round = rid /\ links'[New].key = i
        /\ links'[New].sup = pend[i] /\ links'[New].status = "current"
        /\ \A k \in DOMAIN links :
             /\ links'[k].round = links[k].round /\ links'[k].key = links[k].key
             /\ links'[k].sup = links[k].sup
             /\ \/ links'[k].status = links[k].status
                \/ k = pend[i] /\ links'[k].status = "superseded"
    BY DEF Grown
  <1>2. Rowed'
    <2>1. Len(links) \in Nat /\ New \in Nat
      BY DEF Linked, Rowed, New
    <2>2. \A x \in DOMAIN pend : pend[x] \in Nat /\ pend[x] <= Len(links)
      BY DEF Linked, Rowed
    <2>3. \A x \in DOMAIN pend : pend[x] <= Len(links')
      BY <2>1, <2>2 DEF Grown
    <2> QED
      BY <2>3 DEF Linked, Rowed, Grown
  <1>3. Apart'
    BY DEF Linked, Apart
  <1>4. Succeeded'
    <2> SUFFICES ASSUME NEW k \in DOMAIN links', links'[k].status = "superseded", k \notin orphans
                 PROVE  \E j \in DOMAIN links' : links'[j].sup = k
      BY DEF Succeeded
    <2>1. k \in DOMAIN links
      BY <1>1
    <2>2. CASE k = pend[i]
      BY <1>1, <2>2
    <2>3. CASE links[k].status = "superseded"
      <3>1. PICK j \in DOMAIN links : links[j].sup = k
        BY <2>1, <2>3 DEF Linked, Succeeded
      <3> QED
        BY <1>1, <3>1
    <2> QED
      BY <1>1, <2>1, <2>2, <2>3
  <1>5. Reported'
    <2>1. OfRound # {} /\ \A r \in OfRound : r.ok = TRUE
      BY DEF Verdict, Judged, Working, Behind
    <2>2. PICK r \in reports : r.round = rid /\ r.ok = TRUE
      BY <2>1 DEF OfRound
    <2>3. \A k \in DOMAIN links :
            /\ links[k].round <= rid
            /\ links[k].round # 0 => \E q \in reports' : q.round = links[k].round /\ q.ok = TRUE
      BY DEF Linked, Reported
    <2>4. rid <= rid
      BY Numbers
    <2>5. \A k \in DOMAIN links' :
            /\ links'[k].round <= rid
            /\ links'[k].round # 0 => \E q \in reports' : q.round = links'[k].round /\ q.ok = TRUE
      BY <1>1, <2>2, <2>3, <2>4
    <2> QED
      BY <2>5 DEF Reported
  <1>6. \A k \in DOMAIN links' : links'[k].round = rid =>
          links'[k].key \in DOMAIN pend /\ links'[k].sup = pend[links'[k].key]
    BY <1>1 DEF Linked, Named
  <1>7. RowsOf(rid, i)' = RowsOf(rid, i) \cup {New}
    BY <1>1 DEF RowsOf
  <1>8. ASSUME NEW x, x # i PROVE RowsOf(rid, x)' = RowsOf(rid, x)
    BY <1>1, <1>8 DEF RowsOf
  <1> QED
    BY <1>2, <1>3, <1>4, <1>5, <1>6, <1>7, <1>8

(* The chains, when the new row is the first link that waits.              *)
LEMMA GrownChains ==
  ASSUME Placed, Linked, Flushing, NEW i \in DOMAIN pend, i \in Waiting, Grown(i), rid' = rid,
         cut \subseteq cut', FaultsGrow
  PROVE  /\ Unforked'
         /\ faults' = 0 =>
              \A x \in Waiting \cap DOMAIN pend : \A j \in Whole' :
                pend[x] # 0 /\ links'[j].sup = pend[x] =>
                  links'[j].round = rid /\ links'[j].key = x
  <1>1. /\ DOMAIN links' = DOMAIN links \cup {New} /\ New \notin DOMAIN links
        /\ links'[New].round = rid /\ links'[New].key = i /\ links'[New].sup = pend[i]
        /\ \A k \in DOMAIN links :
             /\ links'[k].round = links[k].round /\ links'[k].key = links[k].key
             /\ links'[k].sup = links[k].sup
    BY DEF Grown
  <1>2. faults' = 0 => faults = 0
    BY StillFaultless
  <1>3. \A j \in Whole' : j # New => j \in Whole
    BY <1>1 DEF Whole
  <1>4. pc \in {"flush", "reflush"}
    BY DEF Flushing
  <1>5. ASSUME faults' = 0, NEW x \in Waiting \cap DOMAIN pend, NEW j \in Whole',
               pend[x] # 0, links'[j].sup = pend[x]
        PROVE  links'[j].round = rid /\ links'[j].key = x
    <2>1. CASE j = New
      <3>1. pend[i] = pend[x]
        BY <1>1, <1>5, <2>1
      <3>2. i = x
        BY <1>5, <3>1 DEF Linked, Apart
      <3> QED
        BY <1>1, <2>1, <3>2
    <2>2. CASE j # New
      <3>1. j \in Whole /\ j \in DOMAIN links
        BY <1>3, <1>5, <2>2 DEF Whole
      <3>2. links[j].sup = pend[x]
        BY <1>1, <1>5, <3>1
      <3>3. links[j].round = rid /\ links[j].key = x
        BY <1>2, <1>4, <1>5, <3>1, <3>2 DEF Linked, Free
      <3> QED
        BY <1>1, <3>1, <3>3
    <2> QED
      BY <2>1, <2>2
  <1>6. ASSUME faults' = 0, NEW j \in Whole', NEW k \in Whole', links'[j].sup # 0,
               links'[j].sup = links'[k].sup
        PROVE  links'[j].round = links'[k].round /\ links'[j].key = links'[k].key
    <2>1. CASE j = New \/ k = New
      <3>1. pend[i] # 0 /\ links'[j].sup = pend[i] /\ links'[k].sup = pend[i]
        BY <1>1, <1>6, <2>1
      <3> QED
        BY <1>5, <1>6, <3>1
    <2>2. CASE j # New /\ k # New
      <3>1. j \in Whole /\ k \in Whole /\ j \in DOMAIN links /\ k \in DOMAIN links
        BY <1>3, <1>6, <2>2 DEF Whole
      <3>2. links[j].sup # 0 /\ links[j].sup = links[k].sup
        BY <1>1, <1>6, <3>1
      <3>3. links[j].round = links[k].round /\ links[j].key = links[k].key
        BY <1>2, <1>6, <3>1, <3>2 DEF Linked, Unforked
      <3> QED
        BY <1>1, <3>1, <3>3
    <2> QED
      BY <2>1, <2>2
  <1>7. Unforked'
    BY <1>6 DEF Unforked
  <1> QED
    BY <1>5, <1>7

(* The rows, when the link was rolled back and its mark was not.           *)
LEMMA OrphanedRows ==
  ASSUME Placed, Verdict, Linked, Working, NEW i \in DOMAIN pend, Orphaned(i), rid' = rid,
         pend' = pend, left' \in Seq(Nat), reports' = reports
  PROVE  /\ Rowed' /\ Apart' /\ Succeeded' /\ Reported'
         /\ \A k \in DOMAIN links' : links'[k].round = rid =>
              links'[k].key \in DOMAIN pend /\ links'[k].sup = pend[links'[k].key]
         /\ \A x : RowsOf(rid, x)' = RowsOf(rid, x)
  <1>1. /\ DOMAIN links' = DOMAIN links /\ Len(links') = Len(links)
        /\ orphans' = orphans \cup {pend[i]}
        /\ \A k \in DOMAIN links :
             /\ links'[k].round = links[k].round /\ links'[k].key = links[k].key
             /\ links'[k].sup = links[k].sup
             /\ links'[k].status = links[k].status \/ k = pend[i]
    BY DEF Orphaned
  <1>2. Rowed'
    BY <1>1 DEF Linked, Rowed, Orphaned
  <1>3. Apart'
    BY DEF Linked, Apart
  <1>4. Succeeded'
    <2> SUFFICES ASSUME NEW k \in DOMAIN links', links'[k].status = "superseded",
                        k \notin orphans'
                 PROVE  \E j \in DOMAIN links' : links'[j].sup = k
      BY DEF Succeeded
    <2>1. k \in DOMAIN links /\ links[k].status = "superseded" /\ k \notin orphans
      BY <1>1
    <2>2. PICK j \in DOMAIN links : links[j].sup = k
      BY <2>1 DEF Linked, Succeeded
    <2> QED
      BY <1>1, <2>2
  <1>5. Reported'
    BY <1>1 DEF Linked, Reported
  <1>6. \A k \in DOMAIN links' : links'[k].round = rid =>
          links'[k].key \in DOMAIN pend /\ links'[k].sup = pend[links'[k].key]
    BY <1>1 DEF Linked, Named
  <1>7. ASSUME NEW x PROVE RowsOf(rid, x)' = RowsOf(rid, x)
    BY <1>1 DEF RowsOf
  <1> QED
    BY <1>2, <1>3, <1>4, <1>5, <1>6, <1>7

(* A link is saved, or its save has failed or was rolled back, and it      *)
(* leaves the list.                                                        *)
LEMMA LinkedFlush ==
  ASSUME Placed, Verdict, Linked, FlushLink
  PROVE  Linked'
  <1>0. PICK i : i = left[1]
    OBVIOUS
  <1>1. /\ Flushing /\ left' = Tail(left)
        /\ UNCHANGED <<pend, pc, rid, saved, told, cut, cancelled, reports>>
        /\ \/ links' = Saved(i) /\ lost' = lost /\ orphans' = orphans
           \/ /\ faults' = faults + 1 /\ lost' = lost \cup {<<rid, i>>}
              /\ \/ (links' = links \/ links' = Inserted(i)) /\ orphans' = orphans
                 \/ /\ pend[i] # 0 /\ links' = RolledBack(i)
                    /\ orphans' = orphans \cup {pend[i]}
    BY <1>0 DEF FlushLink, PopFirst, others, Fault
  <1>2. FaultsGrow /\ (faults' = 0 => faults = 0)
    <2>1. FaultsGrow
      BY OnlyMoreFaults DEF Next, RoundStep
    <2> QED
      BY <2>1, StillFaultless
  <1>3. Rowed /\ Tailed /\ Listed /\ Named
    BY DEF Linked
  <1>4. Listing /\ Listing' /\ Working /\ Working' /\ left # <<>> /\ pc \in {"flush", "reflush"}
    BY <1>1 DEF Flushing, Listing, Working, Behind
  <1>5. i \in DOMAIN pend /\ i \in Waiting
    BY <1>0, <1>3, <1>4, FirstWaits
  <1>6. Tailed' /\ left' \in Seq(Nat) /\ Waiting' = Waiting \ {i}
    BY <1>0, <1>1, <1>3, <1>4, RestWaits
  <1>7. \/ Grown(i) /\ Marked(i) /\ lost' = lost /\ orphans' = orphans
        \/ /\ ((Grown(i) \/ links' = links) /\ orphans' = orphans) \/ Orphaned(i)
           /\ faults' # 0 /\ <<rid, i>> \in lost' /\ lost \subseteq lost'
    <2>1. links' = Saved(i) => Grown(i) /\ Marked(i)
      BY <1>3, <1>5, GrownSaved
    <2>2. links' = Inserted(i) => Grown(i)
      BY <1>3, <1>5, GrownInserted
    <2>3. faults' = faults + 1 => faults' # 0
      <3>1. faults \in Nat
        BY DEF Placed, Typed
      <3> QED
        BY <3>1
    <2>4. pend[i] # 0 /\ links' = RolledBack(i) /\ orphans' = orphans \cup {pend[i]}
            => Orphaned(i)
      BY <1>3, <1>5, OrphanedOne
    <2> QED
      BY <1>1, <2>1, <2>2, <2>3, <2>4
  <1>8. /\ Rowed' /\ Apart' /\ Succeeded' /\ Reported'
        /\ \A k \in DOMAIN links' : links'[k].round = rid =>
             links'[k].key \in DOMAIN pend /\ links'[k].sup = pend[links'[k].key]
        /\ \A x : x # i => RowsOf(rid, x)' = RowsOf(rid, x)
    <2>1. CASE Grown(i) /\ orphans' = orphans
      BY <1>1, <1>4, <1>5, <1>6, <2>1, GrownRows
    <2>3. CASE Orphaned(i)
      BY <1>1, <1>4, <1>5, <1>6, <2>3, OrphanedRows
    <2>2. CASE links' = links /\ orphans' = orphans
      <3>1. Rowed' /\ Apart' /\ Succeeded' /\ Reported'
        BY <1>1, <1>6, <2>2 DEF Linked, Rowed, Apart, Succeeded, Reported
      <3>2. \A k \in DOMAIN links' : links'[k].round = rid =>
              links'[k].key \in DOMAIN pend /\ links'[k].sup = pend[links'[k].key]
        BY <1>3, <1>4, <2>2 DEF Named
      <3> QED
        BY <1>1, <2>2, <3>1, <3>2 DEF RowsOf
    <2> QED
      BY <1>7, <2>1, <2>2, <2>3
  <1>9. Named'
    BY <1>1, <1>8 DEF Named
  <1>10. Listed'
    <2>1. ASSUME NEW x \in DOMAIN pend
          PROVE  IF x \in Waiting' THEN rid \notin cancelled => RowsOf(rid, x)' = {} ELSE Once(x)'
      <3>1. IF x \in Waiting THEN rid \notin cancelled => RowsOf(rid, x) = {} ELSE Once(x)
        BY <1>3, <1>4 DEF Listed
      <3>2. CASE x # i
        <4>1. RowsOf(rid, x)' = RowsOf(rid, x) /\ (x \in Waiting' <=> x \in Waiting)
          BY <1>6, <1>8, <3>2
        <4>2. <<rid, x>> \in lost => <<rid, x>> \in lost'
          BY <1>7
        <4>3. RowsOf(rid, x)' = {k \in DOMAIN links' : links'[k].round = rid /\ links'[k].key = x}
          BY <1>1 DEF RowsOf
        <4>4. \A k : RowsOf(rid, x) = {k} => k \in DOMAIN links'
          BY <4>1, <4>3
        <4>5. Once(x) => Once(x)'
          <5>1. (\E k \in DOMAIN links : RowsOf(rid, x) = {k}) =>
                  \E k \in DOMAIN links' : RowsOf(rid, x)' = {k}
            BY <4>1, <4>4
          <5> QED
            BY <1>1, <4>1, <4>2, <5>1 DEF Once
        <4> QED
          BY <3>1, <4>1, <4>5
      <3>3. CASE x = i
        <4>1. x \notin Waiting' /\ x \in Waiting
          BY <1>5, <1>6, <3>3
        <4>2. Once(i)'
          <5>1. CASE <<rid, i>> \in lost'
            BY <1>1, <5>1 DEF Once
          <5>2. CASE Grown(i) /\ orphans' = orphans
            <6>1. RowsOf(rid, i)' = RowsOf(rid, i) \cup {New} /\ New \in DOMAIN links'
              BY <1>1, <1>4, <1>5, <1>6, <5>2, GrownRows DEF Grown
            <6>2. rid \notin cancelled => RowsOf(rid, i)' = {New}
              BY <3>1, <3>3, <4>1, <6>1
            <6> QED
              BY <1>1, <6>1, <6>2 DEF Once
          <5> QED
            BY <1>7, <5>1, <5>2
        <4> QED
          BY <3>3, <4>1, <4>2
      <3> QED
        BY <3>2, <3>3
    <2>2. ~Untouched' /\ pc' \notin {"idle", "prestart", "close", "tell", "reclose"}
      BY <1>1, <1>4 DEF Untouched, Early
    <2> QED
      BY <1>1, <2>1, <2>2 DEF Listed
  <1>11. faults' = 0 => Grown(i) /\ Marked(i)
    BY <1>7
  <1>12. Unforked' /\ Free'
    <2>1. CASE faults' # 0
      BY <2>1 DEF Unforked, Free
    <2>2. CASE faults' = 0
      <3>1. /\ Unforked'
            /\ \A x \in Waiting \cap DOMAIN pend : \A j \in Whole' :
                 pend[x] # 0 /\ links'[j].sup = pend[x] =>
                   links'[j].round = rid /\ links'[j].key = x
        BY <1>1, <1>2, <1>5, <1>11, <2>2, GrownChains
      <3> QED
        BY <1>1, <1>6, <3>1 DEF Free
    <2> QED
      BY <2>1, <2>2
  <1>13. Replaced'
    <2> SUFFICES ASSUME faults' = 0, NEW j \in Whole', links'[j].sup # 0
                 PROVE  /\ links'[j].sup \in DOMAIN links'
                        /\ links'[links'[j].sup].status = "superseded"
      BY DEF Replaced
    <2>1. /\ DOMAIN links' = DOMAIN links \cup {New} /\ j \in DOMAIN links'
          /\ links'[New].sup = pend[i]
          /\ \A k \in DOMAIN links :
             /\ links'[k].round = links[k].round /\ links'[k].key = links[k].key
             /\ links'[k].sup = links[k].sup
             /\ \/ links'[k].status = links[k].status
                \/ k = pend[i] /\ links'[k].status = "superseded"
      BY <1>11 DEF Grown, Whole
    <2>2. pend[i] # 0 => pend[i] \in DOMAIN links /\ links'[pend[i]].status = "superseded"
      BY <1>11 DEF Marked
    <2>3. CASE j = New
      BY <2>1, <2>2, <2>3
    <2>4. CASE j \in DOMAIN links
      <3>1. j \in Whole /\ links[j].sup # 0 /\ links[j].sup = links'[j].sup
        BY <1>1, <2>1, <2>4 DEF Whole
      <3>2. \/ links[j].sup \in DOMAIN links /\ links[links[j].sup].status = "superseded"
            \/ Copy(j)
        BY <1>2, <3>1 DEF Linked, Replaced
      <3>3. CASE Copy(j)
        <4>1. links[j].round = rid /\ links[j].key = i
          BY <1>0, <3>3 DEF Copy
        <4>2. links[j].sup = pend[i]
          BY <1>3, <1>4, <2>4, <4>1 DEF Named
        <4> QED
          BY <2>1, <2>2, <3>1, <4>2
      <3> QED
        BY <2>1, <3>1, <3>2, <3>3
    <2> QED
      BY <2>1, <2>3, <2>4
  <1> QED
    BY <1>6, <1>8, <1>9, <1>10, <1>12, <1>13 DEF Linked

(* A cancellation while a link is saved: the statement may take effect,    *)
(* and the link is still in the list.                                      *)
LEMMA LinkedLanded ==
  ASSUME Placed, Verdict, Linked, Cancel, Flushing, links' # links
  PROVE  Linked'
  <1>0. PICK i : i = left[1]
    OBVIOUS
  <1>1. /\ UNCHANGED <<pend, left, rid, saved, told, lost, orphans, faults,
                     reports>>
        /\ rid \in cancelled' /\ cancelled \subseteq cancelled' /\ cut \subseteq cut'
        /\ \/ pc = "flush" /\ pc' = "unwind"
           \/ pc = "reflush" /\ pc' = "prestart" /\ rid \in cut'
        /\ links' = Inserted(i) \/ links' = Saved(i)
    BY <1>0 DEF Cancel, Flushing, InTry, Handling
  <1>2. FaultsGrow /\ Rowed /\ Tailed /\ Listed /\ Named
    BY <1>1 DEF Linked, FaultsGrow
  <1>3. Listing /\ Working /\ left # <<>> /\ (pc = "flush" => saved)
    BY DEF Flushing, Listing, Working, Behind, Verdict, Judged
  <1>4. i \in DOMAIN pend /\ i \in Waiting
    BY <1>0, <1>2, <1>3, FirstWaits
  <1>5. Grown(i)
    BY <1>1, <1>2, <1>4, GrownSaved, GrownInserted
  <1>6. /\ Rowed' /\ Apart' /\ Succeeded' /\ Reported'
        /\ \A k \in DOMAIN links' : links'[k].round = rid =>
             links'[k].key \in DOMAIN pend /\ links'[k].sup = pend[links'[k].key]
        /\ RowsOf(rid, i)' = RowsOf(rid, i) \cup {New}
        /\ \A x : x # i => RowsOf(rid, x)' = RowsOf(rid, x)
    <2>1. left' \in Seq(Nat)
      BY <1>1, <1>2 DEF Rowed
    <2> QED
      BY <1>1, <1>3, <1>4, <1>5, <2>1, GrownRows
  <1>7. Tailed' /\ Named'
    BY <1>1, <1>2, <1>3, <1>6 DEF Tailed, Named, Listing
  <1>8. Working' => pc' = "unwind" /\ Waiting' = Waiting
    <2>1. Working' => pc' = "unwind" /\ saved'
      BY <1>1 DEF Working, Behind
    <2>2. saved' => Waiting' = Waiting
      BY <1>1, <1>3 DEF Waiting, Listing
    <2> QED
      BY <2>1, <2>2
  <1>9. Listed'
    <2>1. told[rid] # "ok"
      BY <1>1 DEF Verdict, Counted
    <2>2. \A x \in DOMAIN pend : x \notin Waiting => Once(x)'
      <3>1. ASSUME NEW x \in DOMAIN pend, x \notin Waiting PROVE Once(x)'
        <4>1. Once(x)
          BY <1>2, <1>3, <3>1 DEF Listed
        <4>2. RowsOf(rid, x)' = RowsOf(rid, x)
          BY <1>4, <1>6, <3>1
        <4> QED
          BY <1>1, <4>1, <4>2 DEF Once
      <3> QED
        BY <3>1
    <2>3. ~Untouched' /\ pc' \notin {"idle", "close", "tell", "reclose"}
      BY <1>1, <1>3 DEF Untouched, Early
    <2> QED
      BY <1>1, <1>8, <2>1, <2>2, <2>3 DEF Listed
  <1>10. /\ Unforked'
         /\ faults' = 0 =>
              \A x \in Waiting \cap DOMAIN pend : \A j \in Whole' :
                pend[x] # 0 /\ links'[j].sup = pend[x] =>
                  links'[j].round = rid /\ links'[j].key = x
    BY <1>1, <1>2, <1>4, <1>5, GrownChains
  <1>11. Free'
    <2>1. CASE pc' = "prestart"
      BY <2>1 DEF Free, Early
    <2>2. CASE pc' = "unwind"
      <3>1. Waiting' = Waiting
        BY <1>1, <1>3, <2>2 DEF Waiting, Listing
      <3> QED
        BY <1>1, <1>10, <3>1 DEF Free
    <2> QED
      BY <1>1, <2>1, <2>2
  <1>12. Replaced'
    <2> SUFFICES ASSUME faults' = 0, NEW j \in Whole', links'[j].sup # 0
                 PROVE  \/ /\ links'[j].sup \in DOMAIN links'
                           /\ links'[links'[j].sup].status = "superseded"
                        \/ Copy(j)'
      BY DEF Replaced
    <2>1. /\ DOMAIN links' = DOMAIN links \cup {New} /\ j \in DOMAIN links'
          /\ links'[New].round = rid /\ links'[New].key = i
          /\ \A k \in DOMAIN links :
             /\ links'[k].round = links[k].round
             /\ links'[k].sup = links[k].sup
             /\ \/ links'[k].status = links[k].status
                \/ k = pend[i] /\ links'[k].status = "superseded"
      BY <1>5 DEF Grown, Whole
    <2>2. CASE j = New
      <3>1. pc' = "unwind" /\ saved'
        BY <1>1, <1>3, <2>1, <2>2 DEF Whole
      <3> QED
        BY <1>0, <1>1, <1>3, <2>1, <2>2, <3>1 DEF Copy
    <2>3. CASE j \in DOMAIN links
      <3>1. j \in Whole /\ links[j].sup # 0 /\ links[j].sup = links'[j].sup
        BY <1>1, <2>1, <2>3 DEF Whole
      <3>2. \/ links[j].sup \in DOMAIN links /\ links[links[j].sup].status = "superseded"
            \/ Copy(j)
        BY <1>1, <3>1 DEF Linked, Replaced
      <3>3. ~Copy(j)
        <4>1. links'[j].round \notin cut'
          BY DEF Whole
        <4> QED
          BY <1>1, <2>1, <2>3, <4>1 DEF Copy
      <3> QED
        BY <2>1, <3>1, <3>2, <3>3
    <2> QED
      BY <2>1, <2>2, <2>3
  <1> QED
    BY <1>6, <1>7, <1>9, <1>10, <1>11, <1>12 DEF Linked

(* The report is there: the list is all the links submitted.               *)
LEMMA LinkedTaken ==
  ASSUME Placed, Verdict, Linked, FaultsGrow, left' = AllLinks,
         \/ pc = "persist" /\ pc' = "flush"
         \/ pc = "unwind" /\ ~saved /\ pc' = "reflush",
         UNCHANGED <<links, pend, rid, lost, orphans, cut, cancelled, told>>,
         reports \subseteq reports'
  PROVE  Linked'
  <1>1. Untouched /\ ~Listing
    <2>1. Untouched
      BY DEF Untouched, Early
    <2> QED
      BY <2>1, NotYetListing
  <1>2. pend \in Seq(Nat) /\ Len(pend) \in Nat /\ DOMAIN pend = 1..Len(pend)
    BY DEF Linked, Rowed
  <1>3. /\ left' = [i \in 1..Len(pend) |-> i] /\ DOMAIN left' = DOMAIN pend
        /\ left' \in Seq(Nat) /\ Len(left') = Len(pend)
    <2>1. left' = [i \in 1..Len(pend) |-> i]
      BY <1>2 DEF AllLinks
    <2>2. left' \in [1..Len(pend) -> Nat]
      BY <1>2, <2>1
    <2>3. left' \in Seq(Nat)
      BY <1>2, <2>2, SeqDef
    <2> QED
      BY <1>2, <2>1, <2>2, <2>3
  <1>4. Rowed' /\ Apart' /\ Succeeded' /\ Reported'
    BY <1>3 DEF Linked, Rowed, Apart, Succeeded, Reported
  <1>5. Tailed'
    <2>1. \A j \in DOMAIN left' : left'[j] = Len(pend') - Len(left') + j
      BY <1>2, <1>3
    <2> QED
      BY <1>2, <1>3, <2>1 DEF Tailed
  <1>6. \A k \in DOMAIN links : links[k].round # rid
    BY <1>1 DEF Linked, Listed
  <1>7. Waiting = DOMAIN pend /\ Waiting' = DOMAIN pend
    <2>1. Listing'
      BY DEF Listing, Behind
    <2>2. {left'[j] : j \in DOMAIN left'} = DOMAIN pend
      <3>1. \A j \in DOMAIN pend : left'[j] = j
        BY <1>2, <1>3
      <3>2. DOMAIN left' = DOMAIN pend
        BY <1>3
      <3>3. \A j \in DOMAIN pend : \E i \in DOMAIN left' : left'[i] = j
        BY <3>1, <3>2, Zenon
      <3>4. \A i \in DOMAIN left' : left'[i] \in DOMAIN pend
        BY <3>1, <3>2, Zenon
      <3> QED
        BY <3>3, <3>4, Zenon
    <2> QED
      BY <1>1, <2>1, <2>2 DEF Waiting
  <1>8. Named'
    BY <1>6 DEF Named
  <1>9. Listed'
    <2>1. \A x : RowsOf(rid, x)' = {}
      BY <1>6 DEF RowsOf
    <2>2. pc' \in {"flush", "reflush"} /\ ~Untouched'
      BY DEF Untouched, Early
    <2> QED
      BY <1>7, <2>1, <2>2 DEF Listed
  <1>10. faults' = 0 => faults = 0
    BY StillFaultless
  <1>11. Unforked'
    BY <1>10 DEF Linked, Unforked, Whole
  <1>12. Replaced'
    <2>1. \A j : ~Copy(j)
      BY DEF Copy
    <2> QED
      BY <1>10, <2>1 DEF Linked, Replaced, Whole
  <1>13. Free'
    <2>1. pc \in Early \cup {"unwind", "flush", "reflush"}
      BY DEF Early
    <2> QED
      BY <1>7, <1>10, <2>1 DEF Linked, Free, Whole
  <1> QED
    BY <1>4, <1>5, <1>8, <1>9, <1>11, <1>12, <1>13 DEF Linked

(* A link is submitted: what it replaces has not been replaced.            *)
LEMMA LinkedSubmitted ==
  ASSUME Placed, Verdict, Linked, SubmitLink
  PROVE  Linked'
  <1>1. PICK s \in 0..Len(links) : (s = 0 \/ Replaceable(s)) /\ pend' = Append(pend, s)
    BY DEF SubmitLink
  <1>2. /\ pc \in {"chat", "reask"}
        /\ UNCHANGED <<links, left, rid, pc, saved, lost, orphans, cut, cancelled, told, reports,
                       faults>>
    BY DEF SubmitLink, others, rowVars, histVars
  <1>3. Untouched /\ Untouched' /\ ~Listing /\ ~Listing' /\ ~Working'
    <2>1. Untouched /\ Untouched' /\ ~Working'
      BY <1>2 DEF Untouched, Early, Working, Behind
    <2> QED
      BY <1>2, <2>1, NotYetListing DEF Listing
  <1>4. /\ pend \in Seq(Nat) /\ Len(pend) \in Nat /\ DOMAIN pend = 1..Len(pend) /\ s \in Nat
        /\ s <= Len(links) /\ Len(links) \in Nat
    BY DEF Linked, Rowed
  <1> DEFINE n == Len(pend) + 1
  <1>5. /\ pend' \in Seq(Nat) /\ DOMAIN pend' = DOMAIN pend \cup {n} /\ n \notin DOMAIN pend
        /\ pend'[n] = s /\ \A x \in DOMAIN pend : pend'[x] = pend[x]
    <2>1. pend' \in Seq(Nat) /\ Len(pend') = n /\ DOMAIN pend' = 1..n /\ pend'[n] = s
          /\ \A x \in 1..Len(pend) : pend'[x] = pend[x]
      BY <1>1, <1>4
    <2>2. 1..n = 1..Len(pend) \cup {n} /\ n \notin 1..Len(pend)
      BY <1>4
    <2> QED
      BY <1>4, <2>1, <2>2
  <1> HIDE DEF n
  <1>6. Rowed'
    BY <1>2, <1>4, <1>5 DEF Linked, Rowed
  <1>7. s # 0 => \A x \in DOMAIN pend : pend[x] # s
    BY <1>1 DEF Replaceable
  <1>8. Apart'
    BY <1>5, <1>7 DEF Linked, Apart
  <1>9. Succeeded' /\ Reported' /\ Unforked'
    BY <1>2 DEF Linked, Succeeded, Reported, Unforked, Whole
  <1>10. Tailed' /\ Named'
    BY <1>3 DEF Tailed, Named
  <1>11. Listed'
    BY <1>2, <1>3 DEF Linked, Listed
  <1>12. \A j : ~Copy(j)
    BY <1>2 DEF Copy
  <1>13. Replaced'
    BY <1>2, <1>12 DEF Linked, Replaced, Whole
  <1>14. Free'
    <2> SUFFICES ASSUME faults = 0, NEW x \in DOMAIN pend', NEW j \in Whole, pend'[x] # 0,
                        links[j].sup = pend'[x]
                 PROVE  links[j].round = rid /\ links[j].key = x
      BY <1>2, <1>3 DEF Free, Waiting, Whole
    <2>1. CASE x = n
      <3>1. s # 0 /\ links[j].sup = s
        BY <1>5, <2>1
      <3>2. links[s].status = "superseded"
        BY <1>12, <3>1 DEF Linked, Replaced
      <3> QED
        BY <1>1, <3>1, <3>2 DEF Replaceable
    <2>2. CASE x \in DOMAIN pend
      <3>1. x \in Waiting /\ pend[x] # 0 /\ links[j].sup = pend[x]
        BY <1>3, <1>5, <2>2 DEF Waiting
      <3>2. pc \in Early
        BY <1>2 DEF Early
      <3> QED
        BY <2>2, <3>1, <3>2 DEF Linked, Free
    <2> QED
      BY <1>5, <2>1, <2>2
  <1> QED
    BY <1>6, <1>8, <1>9, <1>10, <1>11, <1>13, <1>14 DEF Linked

(* A round is fired, or the program exits: there is no list any more.      *)
LEMMA LinkedFresh ==
  ASSUME Placed, Verdict, Linked, FreshTask,
         UNCHANGED <<links, lost, orphans, cancelled, reports, faults>>,
         \/ /\ pc = "idle" /\ pc' = "reserved" /\ rid' = rid + 1
            /\ UNCHANGED <<cut, told>>
         \/ /\ pc' = "idle" /\ rid' = rid /\ told' = told
            /\ cut' = IF pc = "idle" THEN cut ELSE cut \cup {rid}
  PROVE  Linked'
  <1>1. pend' = <<>> /\ left' = <<>> /\ saved' = FALSE
    BY DEF FreshTask
  <1>2. DOMAIN pend' = {} /\ pend' \in Seq(Nat) /\ left' \in Seq(Nat)
    BY <1>1
  <1>3. ~Listing' /\ ~Working' /\ rid \in Nat
    BY <1>1, Numbers DEF Listing, Working, Behind
  <1>4. Rowed' /\ Apart' /\ Tailed' /\ Named' /\ Succeeded'
    BY <1>2, <1>3 DEF Linked, Rowed, Apart, Tailed, Named, Succeeded
  <1>5. \A k \in DOMAIN links : links[k].round <= rid /\ links[k].round \in Nat
    <2>1. \A k \in DOMAIN links : links[k] \in LinkSet
      BY DEF Linked, Rowed
    <2> QED
      BY <2>1 DEF Linked, Reported, LinkSet
  <1>6. Reported'
    <2>1. \A k \in DOMAIN links : links[k].round <= rid'
      <3>1. \A x \in Nat : x <= rid => x <= rid'
        BY <1>3
      <3> QED
        BY <1>5, <3>1
    <2> QED
      BY <2>1 DEF Linked, Reported
  <1>7. Listed'
    <2>1. pc' = "reserved" => \A k \in DOMAIN links : links[k].round # rid'
      <3>1. rid' = rid + 1 => \A x \in Nat : x <= rid => x # rid'
        BY <1>3
      <3> QED
        BY <1>5, <3>1
    <2>2. Untouched' => pc' = "reserved"
      BY DEF Untouched, Early
    <2>3. pc' \notin {"close", "tell", "reclose"}
      OBVIOUS
    <2> QED
      BY <1>2, <1>3, <2>1, <2>2, <2>3 DEF Listed
  <1>8. Whole' \subseteq Whole
    BY DEF Whole
  <1>9. Unforked'
    BY <1>8 DEF Linked, Unforked
  <1>10. \A j \in Whole' : ~Copy(j)
    BY DEF Whole, Copy
  <1>11. Replaced'
    BY <1>8, <1>10 DEF Linked, Replaced
  <1>12. Free'
    BY <1>2 DEF Free
  <1> QED
    BY <1>4, <1>6, <1>7, <1>9, <1>11, <1>12 DEF Linked

-----------------------------------------------------------------------------
(* The steps that save no link.                                            *)
LEMMA MovesAround ==
  ASSUME Placed, Verdict, Linked,
         MinuteTurns \/ Tick \/ ClaimFails \/ Restart \/ UNCHANGED vars
  PROVE  Moves
  BY DEF MinuteTurns, Tick, ClaimFails, Restart, vars, loopVars, taskVars, rowVars, histVars, Moves

LEMMA MovesEarly ==
  ASSUME Placed, Verdict, Linked,
         \/ TaskStarts \/ BeginRound \/ ChatEnds \/ ChatRaises \/ ParseAnswer \/ Reask
         \/ SaveFailure
  PROVE  Moves
  <1> USE DEF Goto, Ends, taskVars, rowVars, others, histVars, clockVars
  <1>1. /\ UNCHANGED <<links, pend, left, lost, orphans, rid, saved, cancelled, told>>
        /\ reports \subseteq reports' /\ cut \subseteq cut'
        /\ \/ pc \in Early /\ pc' \in Begun
           \/ pc = "reserved" /\ pc' \in {"idle", "prestart"}
           \/ pc = "report" /\ pc' = "refuse"
    BY DEF TaskStarts, BeginRound, ChatEnds, ChatRaises, ParseAnswer, Reask, SaveFailure, Report,
           Early, Begun
  <1>2. pc \in Early \/ pc = "report" => ~saved
    BY DEF Verdict, Judged
  <1>3. CASE pc \in Early /\ pc' \in Begun
    <2>1. Untouched /\ Untouched' /\ pc \in Begun
      BY <1>1, <1>2, <1>3 DEF Untouched, Early, Begun
    <2> QED
      BY <1>1, <2>1 DEF Moves
  <1>4. CASE pc = "reserved" /\ pc' \in {"idle", "prestart"}
    <2>1. told[rid] = ""
      BY <1>4 DEF Verdict, Counted
    <2> QED
      BY <1>1, <1>4, <2>1 DEF Moves
  <1>5. CASE pc = "report" /\ pc' = "refuse"
    <2>1. Untouched /\ Untouched' /\ pc' \notin Begun
      BY <1>5 DEF Untouched, Early, Begun
    <2> QED
      BY <1>1, <2>1 DEF Moves
  <1> QED
    BY <1>1, <1>3, <1>4, <1>5

LEMMA MovesBehind ==
  ASSUME Placed, Verdict, Linked, Flushed \/ CloseAudit
  PROVE  Moves
  <1> USE DEF Goto, taskVars, rowVars, others, histVars, clockVars
  <1>1. /\ UNCHANGED <<links, pend, left, lost, orphans, rid, saved, cancelled, told, reports, cut>>
        /\ left = <<>>
        /\ \/ pc = "flush" /\ pc' = "close"
           \/ pc = "reflush" /\ pc' = "reclose"
           \/ pc = "close" /\ pc' \in {"tell", "reflush"}
    BY DEF Flushed, CloseAudit, Linked, Listed
  <1>2. Working /\ Working'
    BY <1>1 DEF Working, Behind
  <1> QED
    BY <1>1, <1>2 DEF Moves

LEMMA MovesToEnd ==
  ASSUME Placed, Verdict, Linked, TellSuccess \/ Reclose \/ CloseFailed \/ RecordPrestart
  PROVE  Moves
  <1> USE DEF Goto, Ends, taskVars, rowVars, others, histVars, clockVars
  <1>1. /\ UNCHANGED <<links, pend, left, lost, orphans, rid, saved, cancelled, cut>>
        /\ reports \subseteq reports' /\ pc' \in {"idle", "prestart"}
        /\ \/ pc \in {"tell", "reclose"} /\ told' = [told EXCEPT ![rid] = "ok"]
           \/ pc = "refuse" /\ (told' = told \/ told' = [told EXCEPT ![rid] = "failed"])
           \/ pc = "prestart" /\ told' = told
    BY DEF TellSuccess, Reclose, CloseFailed, RecordPrestart, Tell, Report
  <1>2. told \in [Rounds -> {"", "ok", "failed"}] /\ (pc # "idle" => rid \in Rounds)
    BY DEF Placed, Typed
  <1>3. pc = "refuse" => told[rid] = ""
    BY DEF Verdict, Counted
  <1>4. CASE pc \in {"tell", "reclose"} /\ told' = [told EXCEPT ![rid] = "ok"]
    <2>1. \A n \in Rounds : told'[n] = "ok" => told[n] = "ok" \/ n = rid
      BY <1>2, <1>4
    <2> QED
      BY <1>1, <1>4, <2>1 DEF Moves
  <1>5. CASE pc = "refuse" /\ (told' = told \/ told' = [told EXCEPT ![rid] = "failed"])
    <2>1. told'[rid] # "ok"
      BY <1>2, <1>3, <1>5
    <2> QED
      BY <1>1, <1>5, <2>1 DEF Moves
  <1>6. CASE pc = "prestart" /\ told' = told
    BY <1>1, <1>6 DEF Moves
  <1> QED
    BY <1>1, <1>4, <1>5, <1>6

LEMMA LinkedCancel ==
  ASSUME Placed, Verdict, Linked, Cancel
  PROVE  Linked'
  <1>1. CASE links' # links
    <2>1. Flushing
      BY <1>1 DEF Cancel
    <2> QED
      BY <1>1, <2>1, LinkedLanded
  <1>2. CASE links' = links
    <2>1. /\ UNCHANGED <<links, pend, left, lost, orphans, rid, saved, told, faults>>
          /\ reports \subseteq reports' /\ cancelled \subseteq cancelled' /\ cut \subseteq cut'
          /\ pc \in Handling => rid \in cut'
          /\ pc' = IF pc \in InTry THEN "unwind" ELSE IF pc = "idle" THEN "idle" ELSE "prestart"
      BY <1>2 DEF Cancel, Report
    <2>2. pc \in PCs
      BY DEF Placed, Typed
    <2>3. CASE pc \in InTry
      <3>1. CASE pc \in Early
        <4>1. Untouched /\ Untouched' /\ pc \in Begun
          BY <2>1, <2>3, <3>1 DEF Verdict, Judged, Untouched, Begun
        <4> QED
          BY <2>1, <4>1, LinkedMoves DEF Moves, FaultsGrow
      <3>2. CASE pc \in {"flush", "close"}
        <4>1. Working /\ Working' /\ (pc = "close" => left = <<>>)
          BY <2>1, <2>3, <3>2 DEF Verdict, Judged, Working, Behind, Linked, Listed
        <4> QED
          BY <2>1, <2>3, <3>2, <4>1, LinkedMoves DEF Moves, FaultsGrow
      <3> QED
        BY <2>3, <3>1, <3>2 DEF InTry, Early
    <2>4. CASE pc \notin InTry
      <3>1. CASE pc = "idle" \/ pc = "prestart"
        <4>1. pc' = pc
          BY <2>1, <3>1 DEF InTry
        <4> QED
          BY <2>1, <4>1, LinkedMoves DEF Moves, FaultsGrow
      <3>2. CASE pc \notin {"idle", "prestart"}
        <4>1. told[rid] = "" /\ pc' = "prestart"
          BY <2>1, <2>4, <3>2 DEF Verdict, Counted
        <4>2. pc \in {"unwind", "reflush"} => rid \in cut'
          BY <2>1 DEF Handling
        <4> QED
          BY <2>1, <3>2, <4>1, <4>2, LinkedMoves DEF Moves, FaultsGrow
      <3> QED
        BY <3>1, <3>2
    <2> QED
      BY <2>3, <2>4
  <1> QED
    BY <1>1, <1>2

LEMMA LinkedPersist ==
  ASSUME Placed, Verdict, Linked, Persist \/ Recover
  PROVE  Linked'
  <1> USE DEF Goto, taskVars, rowVars, others, histVars, clockVars
  <1>1. FaultsGrow
    BY OnlyMoreFaults DEF Next, RoundStep
  <1>2. /\ UNCHANGED <<links, pend, rid, lost, orphans, cut, cancelled, told>>
        /\ reports \subseteq reports'
        /\ \/ pc = "persist" /\ pc' = "flush" /\ left' = AllLinks
           \/ pc = "persist" /\ pc' = "unwind" /\ UNCHANGED <<left, saved>>
           \/ pc = "unwind" /\ saved /\ pc' = "reflush" /\ UNCHANGED <<left, saved>>
           \/ pc = "unwind" /\ ~saved /\ pc' = "reflush" /\ left' = AllLinks
           \/ pc = "unwind" /\ ~saved /\ pc' = "report" /\ UNCHANGED <<left, saved>>
    BY DEF Persist, Recover, Retaken, Report
  <1>3. CASE \/ pc = "persist" /\ pc' = "flush" /\ left' = AllLinks
             \/ pc = "unwind" /\ ~saved /\ pc' = "reflush" /\ left' = AllLinks
    <2>1. /\ left' = AllLinks
          /\ \/ pc = "persist" /\ pc' = "flush"
             \/ pc = "unwind" /\ ~saved /\ pc' = "reflush"
      BY <1>3
    <2> QED
      BY <1>1, <1>2, <2>1, LinkedTaken
  <1>4. CASE \/ pc = "persist" /\ pc' = "unwind" /\ UNCHANGED <<left, saved>>
             \/ pc = "unwind" /\ ~saved /\ pc' = "report" /\ UNCHANGED <<left, saved>>
    <2>1. ~saved
      BY <1>4 DEF Verdict, Judged, Early
    <2>2. Untouched /\ Untouched' /\ pc \in Begun
      BY <1>4, <2>1 DEF Untouched, Early, Begun
    <2> QED
      BY <1>1, <1>2, <1>4, <2>2, LinkedMoves DEF Moves
  <1>5. CASE pc = "unwind" /\ saved /\ pc' = "reflush" /\ UNCHANGED <<left, saved>>
    <2>1. Working /\ Working'
      BY <1>5 DEF Working, Behind
    <2> QED
      BY <1>1, <1>2, <1>5, <2>1, LinkedMoves DEF Moves
  <1> QED
    BY <1>2, <1>3, <1>4, <1>5

LEMMA LinkedStep ==
  ASSUME Placed, Verdict, Linked, [Next]_vars
  PROVE  Linked'
  <1>1. FaultsGrow
    BY OnlyMoreFaults DEF FaultsGrow, vars
  <1>2. CASE MinuteTurns \/ Tick \/ ClaimFails \/ Restart \/ UNCHANGED vars
    BY <1>1, <1>2, MovesAround, LinkedMoves
  <1>3. CASE \/ TaskStarts \/ BeginRound \/ ChatEnds \/ ChatRaises \/ ParseAnswer \/ Reask
             \/ SaveFailure
    BY <1>1, <1>3, MovesEarly, LinkedMoves
  <1>4. CASE Flushed \/ CloseAudit
    BY <1>1, <1>4, MovesBehind, LinkedMoves
  <1>5. CASE TellSuccess \/ Reclose \/ CloseFailed \/ RecordPrestart
    BY <1>1, <1>5, MovesToEnd, LinkedMoves
  <1>6. CASE ClaimAndFire \/ StartNow
    <2>1. UNCHANGED <<links, lost, orphans, cancelled, reports, faults, cut, told>> /\ pc = "idle"
      <3>1. pc = "idle"
        BY <1>6 DEF Placed, OnePlace, ClaimAndFire, StartNow
      <3> QED
        BY <1>6, <3>1 DEF ClaimAndFire, StartNow, rowVars, histVars
    <2>2. CASE Fire
      BY <2>1, <2>2, LinkedFresh DEF Fire
    <2>3. CASE UNCHANGED <<pc, rid, taskVars>>
      <3>1. Moves
        BY <2>1, <2>3 DEF Moves, taskVars
      <3> QED
        BY <1>1, <3>1, LinkedMoves
    <2> QED
      BY <1>6, <2>2, <2>3 DEF ClaimAndFire, StartNow
  <1>7. CASE Exit
    <2>1. /\ FreshTask /\ UNCHANGED <<links, lost, orphans, cancelled, reports, faults, rid, told>>
          /\ pc' = "idle" /\ cut' = IF pc = "idle" THEN cut ELSE cut \cup {rid}
      BY <1>7 DEF Exit, rowVars
    <2> QED
      BY <2>1, LinkedFresh
  <1>8. CASE FlushLink \/ SubmitLink \/ Cancel \/ Persist \/ Recover
    BY <1>8, LinkedFlush, LinkedSubmitted, LinkedCancel, LinkedPersist
  <1> QED
    BY <1>2, <1>3, <1>4, <1>5, <1>6, <1>7, <1>8 DEF Next, RoundStep

-----------------------------------------------------------------------------
LEMMA Inductive == Spec => [](Placed /\ Verdict /\ Linked)
  <1>1. Init => Placed /\ Verdict /\ Linked
    BY PlacedAtFirst, VerdictAtFirst, LinkedAtFirst
  <1>2. Placed /\ Verdict /\ Linked /\ [Next]_vars => (Placed /\ Verdict /\ Linked)'
    BY PlacedStep, VerdictStep, LinkedStep
  <1> QED
    BY <1>1, <1>2, PTL DEF Spec

(* What a round leaves behind (the claim of the slot in scheduler.py, the  *)
(* completion and the failure in agent.py): a slot is fired once; the      *)
(* round has one verdict; and the links of a successful round are saved,   *)
(* each of them once unless the round was cancelled.  For any number of    *)
(* days, rounds, links and faults.                                         *)
THEOREM ResearchSettled == Spec => []RoundsSettled
  <1>1. Placed /\ Verdict /\ Linked => RoundsSettled
    <2> SUFFICES ASSUME Placed, Verdict, Linked PROVE RoundsSettled
      OBVIOUS
    <2>1. SlotOnce
      BY DEF SlotOnce, Placed, Slots
    <2>2. OneVerdict
      <3>1. rid > 0 /\ pc = "idle" /\ faults = 0 /\ rid \notin cut =>
              audit[rid] # "open" /\ \E r \in reports : r.round = rid
        BY DEF Verdict, Ended, OfRound
      <3> QED
        BY <3>1 DEF OneVerdict, Verdict, Agree
    <2>3. LinksKept
      <3>1. \A k \in DOMAIN links : links[k].round # 0 =>
              \E r \in reports : r.round = links[k].round /\ r.ok
        BY DEF Linked, Reported
      <3>2. rid > 0 /\ pc = "idle" /\ told[rid] = "ok" => \A i \in DOMAIN pend : Once(i)
        BY DEF Linked, Listed
      <3>3. ASSUME NEW i, Once(i), <<rid, i>> \notin lost
            PROVE  /\ RowsOf(rid, i) # {}
                   /\ rid \notin cancelled => Cardinality(RowsOf(rid, i)) = 1
        <4>1. \A k : Cardinality({k}) = 1
          BY FS_Singleton
        <4> QED
          BY <3>3, <4>1 DEF Once
      <3> QED
        BY <3>1, <3>2, <3>3 DEF LinksKept
    <2> QED
      BY <2>1, <2>2, <2>3 DEF RoundsSettled
  <1> QED
    BY <1>1, Inductive, PTL

(* Causal links (save_causal_link in memory/repo.py, submit_causal_links): *)
(* a link that counts as superseded has its successor, and without a       *)
(* failure of the database no link has two, but for the copies that a      *)
(* cancellation leaves behind.                                             *)
THEOREM ChainsStayWhole == Spec => []ChainsHold
  <1>1. Linked => ChainsHold
    BY DEF Linked, Unforked, Succeeded, Whole, ChainsHold
  <1> QED
    BY <1>1, Inductive, PTL
-----------------------------------------------------------------------------
(* The calendar.  Its module counts as this one does.                      *)
LEMMA SameCount ==
  ASSUME NEW S
  PROVE  Calendar!Cardinality(S) = Cardinality(S)
  BY DEF Cardinality, Calendar!Cardinality

-----------------------------------------------------------------------------
(* Days and years: a quotient is determined by its bounds.                 *)
LEMMA Quotient ==
  ASSUME NEW a \in Nat, NEW d \in Nat \ {0}
  PROVE  a \div d \in Nat /\ d * (a \div d) <= a /\ a < d * (a \div d) + d
  OBVIOUS

LEMMA QuotientsInOrder ==
  ASSUME NEW d \in Nat \ {0}, NEW p \in Nat, NEW q \in Nat, d * p < d * q + d
  PROVE  p <= q
  <1> SUFFICES ASSUME p >= q + 1 PROVE FALSE
    OBVIOUS
  <1>1. PICK r \in Nat : p = q + 1 + r
    <2>1. p - (q + 1) \in Nat /\ p = q + 1 + (p - (q + 1))
      OBVIOUS
    <2> QED
      BY <2>1
  <1>2. d * p = d * q + d + d * r
    BY <1>1
  <1>3. d * r >= 0 /\ d * q \in Nat /\ d * r \in Nat
    OBVIOUS
  <1> QED
    BY <1>2, <1>3
LEMMA DayFacts ==
  ASSUME NEW t \in Nat
  PROVE  /\ Calendar!DayOf(t) \in Nat /\ DaySlots * Calendar!DayOf(t) \in Nat
         /\ DaySlots * Calendar!DayOf(t) <= t /\ t < DaySlots * Calendar!DayOf(t) + DaySlots
         /\ Calendar!DailyAt(t) = DaySlots * Calendar!DayOf(t) + 1 /\ Calendar!DailyAt(t) \in Nat
         /\ Calendar!YearOf(t) \in Nat
  <1>1. DaySlots \in Nat \ {0} /\ YearDays \in Nat \ {0}
    BY CalendarAssumption
  <1>2. Calendar!DayOf(t) \in Nat /\ DaySlots * Calendar!DayOf(t) <= t
          /\ t < DaySlots * Calendar!DayOf(t) + DaySlots
    BY <1>1, Quotient DEF Calendar!DayOf
  <1>3. DaySlots * Calendar!DayOf(t) \in Nat /\ Calendar!DayOf(t) * DaySlots =
          DaySlots * Calendar!DayOf(t)
    BY <1>1, <1>2
  <1>4. Calendar!YearOf(t) \in Nat
    BY <1>1, <1>2, Quotient DEF Calendar!YearOf
  <1>5. Calendar!DailyAt(t) = DaySlots * Calendar!DayOf(t) + 1
    BY <1>3 DEF Calendar!DailyAt
  <1> QED
    BY <1>2, <1>3, <1>4, <1>5

(* Days and years do not run backwards.                                    *)
LEMMA DaysInOrder ==
  ASSUME NEW s \in Nat, NEW t \in Nat, s <= t
  PROVE  Calendar!DayOf(s) <= Calendar!DayOf(t)
           /\ Calendar!DailyAt(s) <= Calendar!DailyAt(t)
           /\ Calendar!YearOf(s) <= Calendar!YearOf(t)
  <1>1. DaySlots \in Nat \ {0} /\ YearDays \in Nat \ {0}
    BY CalendarAssumption
  <1>2. Calendar!DayOf(s) \in Nat /\ Calendar!DayOf(t) \in Nat
    BY DayFacts
  <1>3. DaySlots * Calendar!DayOf(s) < DaySlots * Calendar!DayOf(t) + DaySlots
    <2>1. /\ DaySlots * Calendar!DayOf(s) \in Nat /\ DaySlots * Calendar!DayOf(s) <= s
          /\ DaySlots * Calendar!DayOf(t) \in Nat /\ t < DaySlots * Calendar!DayOf(t) + DaySlots
      BY DayFacts
    <2> QED
      BY <1>1, <2>1
  <1>4. Calendar!DayOf(s) <= Calendar!DayOf(t)
    BY <1>1, <1>2, <1>3, QuotientsInOrder
  <1>5. Calendar!DailyAt(s) <= Calendar!DailyAt(t)
    <2>1. PICK r \in Nat : Calendar!DayOf(t) = Calendar!DayOf(s) + r
      <3>1. Calendar!DayOf(t) - Calendar!DayOf(s) \in Nat /\ Calendar!DayOf(t) =
              Calendar!DayOf(s) + (Calendar!DayOf(t) - Calendar!DayOf(s))
        BY <1>2, <1>4
      <3> QED
        BY <3>1
    <2>2. DaySlots * Calendar!DayOf(t) = DaySlots * Calendar!DayOf(s) + DaySlots * r
            /\ DaySlots * r \in Nat
      BY <1>1, <1>2, <2>1
    <2>3. /\ Calendar!DailyAt(s) = DaySlots * Calendar!DayOf(s) + 1
               /\ DaySlots * Calendar!DayOf(s) \in Nat
          /\ Calendar!DailyAt(t) = DaySlots * Calendar!DayOf(t) + 1
      BY DayFacts
    <2> QED
      BY <2>2, <2>3
  <1>6. Calendar!YearOf(s) <= Calendar!YearOf(t)
    <2>1. /\ Calendar!YearOf(s) \in Nat /\ YearDays * Calendar!YearOf(s) <= Calendar!DayOf(s)
          /\ Calendar!YearOf(t) \in Nat
               /\ Calendar!DayOf(t) < YearDays * Calendar!YearOf(t) + YearDays
      BY <1>1, <1>2, Quotient DEF Calendar!YearOf
    <2>2. YearDays * Calendar!YearOf(s) \in Nat /\ YearDays * Calendar!YearOf(t) \in Nat
      BY <1>1, <2>1
    <2>3. YearDays * Calendar!YearOf(s) < YearDays * Calendar!YearOf(t) + YearDays
      BY <1>1, <1>2, <1>4, <2>1, <2>2
    <2> QED
      BY <1>1, <2>1, <2>3, QuotientsInOrder
  <1> QED
    BY <1>4, <1>5, <1>6

(* A slot later it is the same day, or the next one before 00:10.          *)
LEMMA NextSlot ==
  ASSUME NEW t \in Nat
  PROVE  \/ Calendar!DayOf(t + 1) = Calendar!DayOf(t)
         \/ /\ Calendar!DayOf(t + 1) = Calendar!DayOf(t) + 1
            /\ t + 1 < Calendar!DailyAt(t + 1) /\ t >= Calendar!DailyAt(t)
  <1>1. DaySlots \in Nat \ {0, 1} /\ t + 1 \in Nat
    BY CalendarAssumption
  <1> DEFINE p == Calendar!DayOf(t + 1)
             q == Calendar!DayOf(t)
  <1>2. /\ p \in Nat /\ DaySlots * p \in Nat /\ DaySlots * p <= t + 1
        /\ Calendar!DailyAt(t + 1) = DaySlots * p + 1
        /\ q \in Nat /\ DaySlots * q \in Nat /\ t < DaySlots * q + DaySlots
        /\ Calendar!DailyAt(t) = DaySlots * q + 1
    BY <1>1, DayFacts
  <1>3. q <= p
    BY <1>1, DaysInOrder
  <1>4. p <= q + 1
    <2>1. DaySlots * (q + 1) = DaySlots * q + DaySlots
      BY <1>1, <1>2
    <2>2. DaySlots * p < DaySlots * (q + 1) + DaySlots
      BY <1>1, <1>2, <2>1
    <2>3. q + 1 \in Nat /\ DaySlots \in Nat \ {0}
      BY <1>1, <1>2
    <2> HIDE DEF p, q
    <2> QED
      BY <1>2, <2>2, <2>3, QuotientsInOrder
  <1>5. CASE p = q
    BY <1>5
  <1>6. CASE p = q + 1
    <2>1. DaySlots * p = DaySlots * q + DaySlots
      BY <1>1, <1>2, <1>6
    <2>2. t + 1 < DaySlots * p + 1 /\ t >= DaySlots * q + 1
      BY <1>1, <1>2, <2>1
    <2> QED
      BY <1>2, <1>6, <2>2
  <1>7. p = q \/ p = q + 1
    BY <1>2, <1>3, <1>4
  <1> QED
    BY <1>5, <1>6, <1>7

LEMMA NextDay ==
  ASSUME NEW s \in Nat, NEW t \in Nat, Calendar!DayOf(t) = Calendar!DayOf(s)
           \/ Calendar!DayOf(t) = Calendar!DayOf(s) + 1
  PROVE  Calendar!YearOf(t) = Calendar!YearOf(s) \/ Calendar!YearOf(t) = Calendar!YearOf(s) + 1
  <1>1. YearDays \in Nat \ {0} /\ Calendar!DayOf(s) \in Nat /\ Calendar!DayOf(t) \in Nat
    BY CalendarAssumption, DayFacts
  <1>2. CASE Calendar!DayOf(t) = Calendar!DayOf(s)
    BY <1>2 DEF Calendar!YearOf
  <1>3. CASE Calendar!DayOf(t) = Calendar!DayOf(s) + 1
    <2> DEFINE p == Calendar!YearOf(t)
               q == Calendar!YearOf(s)
    <2>1. /\ p \in Nat /\ YearDays * p <= Calendar!DayOf(t)
               /\ Calendar!DayOf(t) < YearDays * p + YearDays
          /\ q \in Nat /\ YearDays * q <= Calendar!DayOf(s)
               /\ Calendar!DayOf(s) < YearDays * q + YearDays
      BY <1>1, Quotient DEF Calendar!YearOf
    <2>2. /\ YearDays * p \in Nat /\ YearDays * q \in Nat /\ q + 1 \in Nat
          /\ YearDays * (q + 1) = YearDays * q + YearDays
      BY <1>1, <2>1
    <2> HIDE DEF p, q
    <2>3. YearDays * q < YearDays * p + YearDays
      BY <1>1, <1>3, <2>1, <2>2
    <2>4. YearDays * p < YearDays * (q + 1) + YearDays
      BY <1>1, <1>3, <2>1, <2>2
    <2>5. q <= p
      BY <1>1, <2>1, <2>3, QuotientsInOrder
    <2>6. p <= q + 1
      BY <1>1, <2>1, <2>2, <2>4, QuotientsInOrder
    <2>7. p = q \/ p = q + 1
      BY <2>1, <2>5, <2>6
    <2> QED
      BY <2>7 DEF p, q
  <1> QED
    BY <1>2, <1>3

(* A non-empty set of numbers has a smallest one.                          *)
LEMMA LeastNumber ==
  ASSUME NEW T \in SUBSET Nat, T # {}
  PROVE  \E m \in T : \A n \in T : m <= n
  <1>1. IsWellFoundedOn(OpToRel(<, Nat), Nat)
    BY NatLessThanWellFounded
  <1>2. T \subseteq Nat
    OBVIOUS
  <1>3. \E m \in T : \A n \in T : ~ (<<n, m>> \in OpToRel(<, Nat))
    BY <1>1, <1>2, WFMin, Zenon
  <1>4. PICK m \in T : \A n \in T : ~ (<<n, m>> \in OpToRel(<, Nat))
    BY <1>3
  <1>5. ASSUME NEW n \in T PROVE m <= n
    <2>1. n \in Nat /\ m \in Nat
      BY <1>2
    <2>2. ~ (n < m)
      BY <1>4, <2>1, Zenon DEF OpToRel
    <2>. QED BY <2>1, <2>2
  <1>. QED BY <1>5

(* What a day, a page and a delay are.                                     *)
Delays == {Backoff[i] : i \in DOMAIN Backoff}

(* The holidays that a market may have for a year: none, or enough.        *)
Sound(m) == {{}} \cup {p \in Pages[m] : Calendar!Cardinality(p) >= Minimum}
Books == {h \in [Markets -> [Calendar!Years -> {{}} \cup UNION {Pages[m] : m \in Markets}]] :
            \A m \in Markets, y \in Calendar!Years : h[m][y] \in Sound(m)}

CalendarTyped ==
  /\ time \in Nat \ {0} /\ time <= MaxTime
  /\ holidays \in Books /\ disk = holidays
  /\ failures \in 0..Len(Backoff)
  /\ last \in Nat /\ tried \in Nat /\ next \in Nat
  /\ last <= tried /\ tried <= time

(* A complete refresh leaves nothing to retry, and holds until 00:10 of    *)
(* the next day; the two years it read are there.                          *)
Complete ==
  live =>
    /\ last # 0 /\ next = 0
    /\ \/ Calendar!DayOf(time) = Calendar!DayOf(last)
       \/ Calendar!DayOf(time) = Calendar!DayOf(last) + 1 /\ time < Calendar!DailyAt(time)
    /\ \A m \in Markets, y \in {Calendar!YearOf(last), Calendar!YearOf(last) + 1} :
         Calendar!Cardinality(holidays[m][y]) >= Minimum

(* An incomplete one is repeated soon: at 00:10 or after a delay.          *)
Planned ==
  /\ next # 0 => \/ next <= Calendar!DailyAt(tried)
                 \/ \E d \in Delays : next <= tried + d
  /\ tried # 0 /\ time >= Calendar!DailyAt(time) /\ tried < Calendar!DailyAt(time) =>
       next # 0 /\ time < next

CalendarInv == CalendarTyped /\ Complete /\ Planned

-----------------------------------------------------------------------------
LEMMA LargestDelay ==
  /\ Calendar!Max(Delays) \in Delays /\ Calendar!Max(Delays) \in Nat
  /\ \A d \in Delays : d \in Nat \ {0} /\ d <= Calendar!Max(Delays)
  <1>1. Backoff \in Seq(Nat \ {0}) /\ Len(Backoff) \in Nat \ {0}
    BY CalendarAssumption, EmptySeq
  <1>2. \A i \in 1..Len(Backoff) : Backoff[i] \in Nat \ {0}
    BY <1>1
  <1> DEFINE Leads(n) == \E i \in 1..n : \A k \in 1..n : Backoff[k] <= Backoff[i]
             T == {n \in 1..Len(Backoff) : ~Leads(n)}
  <1>3. T = {}
    <2> SUFFICES ASSUME T # {} PROVE FALSE
      OBVIOUS
    <2>1. T \in SUBSET Nat
      BY <1>1
    <2> PICK n \in T : \A k \in T : n <= k
      BY <2>1, LeastNumber
    <2>2. ~Leads(n)
      OBVIOUS
    <2>5. n \in 1..Len(Backoff) /\ n \in Nat /\ n >= 1 /\ n <= Len(Backoff)
      BY <1>1
    <2>6. \A i \in 1..n : i \in 1..Len(Backoff)
      BY <1>1, <2>5
    <2> HIDE DEF Leads, T
    <2>3. CASE n = 1
      <3>1. 1 \in 1..n /\ \A k \in 1..n : k = 1
        BY <2>3
      <3>2. Backoff[1] <= Backoff[1]
        BY <1>2, <2>3, <2>5
      <3>3. Leads(n)
        BY <3>1, <3>2 DEF Leads
      <3> QED
        BY <2>2, <3>3
    <2>4. CASE n # 1
      <3>1. n - 1 \in 1..Len(Backoff) /\ ~(n <= n - 1)
        BY <1>1, <2>4, <2>5
      <3>2. Leads(n - 1)
        BY <3>1 DEF T
      <3> PICK i \in 1..(n - 1) : \A k \in 1..(n - 1) : Backoff[k] <= Backoff[i]
        BY <3>2 DEF Leads
      <3>3. i \in 1..n /\ n \in 1..n /\ \A k \in 1..n : k \in 1..(n - 1) \/ k = n
        BY <2>4, <2>5
      <3>4. Backoff[i] \in Nat /\ Backoff[n] \in Nat
        BY <1>2, <2>6, <3>3
      <3>5. CASE Backoff[n] <= Backoff[i]
        <4>1. \A k \in 1..n : Backoff[k] <= Backoff[i]
          BY <3>3, <3>5
        <4> QED
          BY <2>2, <3>3, <4>1 DEF Leads
      <3>6. CASE Backoff[i] <= Backoff[n]
        <4>1. ASSUME NEW k \in 1..n PROVE Backoff[k] <= Backoff[n]
          <5>1. Backoff[k] \in Nat
            BY <1>2, <2>6
          <5>2. k = n \/ Backoff[k] <= Backoff[i]
            BY <3>3
          <5> QED
            BY <3>4, <3>6, <5>1, <5>2
        <4> QED
          BY <2>2, <3>3, <4>1 DEF Leads
      <3> QED
        BY <3>4, <3>5, <3>6
    <2> QED
      BY <2>3, <2>4
  <1>4. Leads(Len(Backoff))
    <2>1. Len(Backoff) \in 1..Len(Backoff)
      BY <1>1
    <2> HIDE DEF Leads
    <2> QED
      BY <1>3, <2>1
  <1> PICK i \in 1..Len(Backoff) : \A k \in 1..Len(Backoff) : Backoff[k] <= Backoff[i]
    BY <1>4
  <1>5. Backoff[i] \in Delays /\ \A d \in Delays : d \in Nat \ {0} /\ d <= Backoff[i]
    BY <1>1, <1>2 DEF Delays
  <1>6. \E x \in Delays : \A y \in Delays : x >= y
    BY <1>5
  <1>7. Calendar!Max(Delays) \in Delays /\ \A y \in Delays : Calendar!Max(Delays) >= y
    BY <1>6 DEF Calendar!Max
  <1> QED
    BY <1>5, <1>7

LEMMA MinOfTwo ==
  ASSUME NEW a \in Nat, NEW b \in Nat
  PROVE  Calendar!Min({a, b}) \in {a, b} /\ Calendar!Min({a, b}) <= a /\ Calendar!Min({a, b}) <= b
  <1>1. \E x \in {a, b} : \A y \in {a, b} : x =< y
    <2>1. CASE a <= b
      BY <2>1
    <2>2. CASE b <= a
      BY <2>2
    <2> QED
      BY <2>1, <2>2
  <1>2. Calendar!Min({a, b}) \in {a, b} /\ \A y \in {a, b} : Calendar!Min({a, b}) <= y
    BY <1>1 DEF Calendar!Min
  <1> QED
    BY <1>2

LEMMA NextDelay ==
  ASSUME failures \in 0..Len(Backoff)
  PROVE  Calendar!Delay \in Delays /\ Calendar!Min({failures + 1, Len(Backoff)}) \in 0..Len(Backoff)
  <1>1. Backoff \in Seq(Nat \ {0}) /\ Len(Backoff) \in Nat \ {0}
    BY CalendarAssumption, EmptySeq
  <1>2. failures + 1 \in Nat /\ Len(Backoff) \in Nat
    BY <1>1
  <1>3. Calendar!Min({failures + 1, Len(Backoff)}) \in 1..Len(Backoff)
    <2> DEFINE k == Calendar!Min({failures + 1, Len(Backoff)})
    <2>1. k \in {failures + 1, Len(Backoff)} /\ k <= Len(Backoff)
      BY <1>2, MinOfTwo
    <2>2. failures >= 0
      OBVIOUS
    <2> HIDE DEF k
    <2>3. k \in Nat /\ k >= 1
      BY <1>1, <1>2, <2>1, <2>2
    <2>4. k \in 1..Len(Backoff)
      BY <1>1, <2>1, <2>3
    <2> QED
      BY <2>4 DEF k
  <1>4. Calendar!Min({failures + 1, Len(Backoff)}) \in DOMAIN Backoff
    BY <1>1, <1>3
  <1>5. Calendar!Min({failures + 1, Len(Backoff)}) \in 0..Len(Backoff)
    BY <1>1, <1>3
  <1> QED
    BY <1>4, <1>5 DEF Calendar!Delay, Delays

-----------------------------------------------------------------------------
(* A page that is reconciled.                                              *)
LEMMA LargerIsEnough ==
  ASSUME NEW m \in Markets, NEW c \in Sound(m), NEW p \in Pages[m], c # {}, c \subseteq p
  PROVE  p \in Sound(m) /\ Calendar!Cardinality(p) >= Minimum
  <1>1. Calendar!Cardinality(c) >= Minimum /\ c \in Pages[m]
    BY DEF Sound
  <1>2. IsFiniteSet(p) /\ IsFiniteSet(c)
    BY <1>1, CalendarAssumption
  <1>3. Calendar!Cardinality(c) <= Calendar!Cardinality(p)
          /\ Calendar!Cardinality(c) \in Nat /\ Calendar!Cardinality(p) \in Nat
    BY <1>2, FS_Subset, FS_CardinalityType, SameCount
  <1>4. Calendar!Cardinality(p) >= Minimum
    BY <1>1, <1>3, CalendarAssumption
  <1> QED
    BY <1>4 DEF Sound

LEMMA CurrentIsSound ==
  ASSUME NEW m \in Markets, NEW c \in Sound(m), NEW p \in Pages[m]
  PROVE  /\ Calendar!Current(p, c) \in Sound(m) /\ c \subseteq Calendar!Current(p, c)
         /\ Calendar!CurrentOk(p, c) => Calendar!Cardinality(Calendar!Current(p, c)) >= Minimum
  <1>1. CASE p = {}
    BY <1>1 DEF Calendar!Current, Calendar!CurrentOk
  <1>2. CASE p # {} /\ c = {}
    <2>1. Calendar!Cardinality(p) \in Nat /\ Minimum \in Nat
      BY CalendarAssumption, FS_CardinalityType, SameCount
    <2>2. CASE Calendar!Cardinality(p) < Minimum
      <3>1. ~(Calendar!Cardinality(p) >= Minimum)
        BY <2>1, <2>2
      <3> QED
        BY <1>2, <2>2, <3>1 DEF Calendar!Current, Calendar!CurrentOk
    <2>3. CASE Calendar!Cardinality(p) >= Minimum
      <3>1. ~(Calendar!Cardinality(p) < Minimum)
        BY <2>1, <2>3
      <3>2. Calendar!Current(p, c) = p
        BY <1>2, <3>1 DEF Calendar!Current
      <3> QED
        BY <1>2, <2>3, <3>2 DEF Sound
    <2> QED
      BY <2>1, <2>2, <2>3
  <1>3. CASE p # {} /\ c # {} /\ c \subseteq p
    <2>1. Calendar!Current(p, c) = p
      BY <1>3 DEF Calendar!Current
    <2> QED
      BY <1>3, <2>1, LargerIsEnough
  <1>4. CASE p # {} /\ c # {} /\ ~(c \subseteq p)
    <2>1. Calendar!Current(p, c) = c
      BY <1>4 DEF Calendar!Current
    <2>2. Calendar!Cardinality(c) >= Minimum
      BY <1>4 DEF Sound
    <2> QED
      BY <2>1, <2>2
  <1> QED
    BY <1>1, <1>2, <1>3, <1>4

LEMMA ComingIsSound ==
  ASSUME NEW m \in Markets, NEW c \in Sound(m), NEW p \in Pages[m]
  PROVE  /\ Calendar!Coming(p, c) \in Sound(m) /\ c \subseteq Calendar!Coming(p, c)
         /\ Calendar!ComingOk(p, c) => Calendar!Cardinality(Calendar!Coming(p, c)) >= Minimum
  BY DEF Calendar!Coming, Calendar!ComingOk, Sound

Book == [Calendar!Years -> {{}} \cup UNION {Pages[m] : m \in Markets}]

LEMMA ReconciledIsSound ==
  ASSUME NEW m \in Markets, NEW cached \in Book, NEW y \in Calendar!Years, y + 1 \in Calendar!Years,
         \A z \in Calendar!Years : cached[z] \in Sound(m), NEW page \in Calendar!Fetched[m],
           page # Calendar!Unreadable
  PROVE  /\ Calendar!Reconciled(cached, page, y) \in Book
         /\ \A z \in Calendar!Years : Calendar!Reconciled(cached, page, y)[z] \in Sound(m)
         /\ \A z \in Calendar!Years : cached[z] \subseteq Calendar!Reconciled(cached, page, y)[z]
         /\ Calendar!Covered(cached, page, y) =>
              /\ Calendar!Cardinality(Calendar!Reconciled(cached, page, y)[y]) >= Minimum
              /\ Calendar!Cardinality(Calendar!Reconciled(cached, page, y)[y + 1]) >= Minimum
  <1>1. page \in [current : Pages[m], coming : Pages[m]]
    BY DEF Calendar!Fetched
  <1>2. page.current \in Pages[m] /\ page.coming \in Pages[m]
    BY <1>1
  <1> DEFINE a == Calendar!Current(page.current, cached[y])
             b == Calendar!Coming(page.coming, cached[y + 1])
             new == Calendar!Reconciled(cached, page, y)
  <1>3. /\ a \in Sound(m) /\ cached[y] \subseteq a
        /\ Calendar!CurrentOk(page.current, cached[y]) => Calendar!Cardinality(a) >= Minimum
    BY <1>2, CurrentIsSound
  <1>4. /\ b \in Sound(m) /\ cached[y + 1] \subseteq b
        /\ Calendar!ComingOk(page.coming, cached[y + 1]) => Calendar!Cardinality(b) >= Minimum
    BY <1>2, ComingIsSound
  <1>5. y # y + 1
    BY DEF Calendar!Years
  <1>6. /\ DOMAIN new = Calendar!Years /\ new[y] = a /\ new[y + 1] = b
        /\ \A z \in Calendar!Years : z # y /\ z # y + 1 => new[z] = cached[z]
    <2>1. DOMAIN cached = Calendar!Years
      BY DEF Book
    <2>2. [cached EXCEPT ![y] = a][y + 1] = cached[y + 1]
      BY <1>5, <2>1
    <2>3. new = [[cached EXCEPT ![y] = a] EXCEPT ![y + 1] = Calendar!Coming(page.coming,
            cached[y + 1])]
      BY <2>1, <2>2 DEF Calendar!Reconciled
    <2> QED
      BY <1>5, <2>1, <2>3
  <1>7. new = [z \in Calendar!Years |-> new[z]]
    <2>1. new = [z \in DOMAIN new |-> new[z]]
      BY DEF Calendar!Reconciled
    <2> QED
      BY <1>6, <2>1
  <1> HIDE DEF new, a, b
  <1>8. \A z \in Calendar!Years : new[z] \in Sound(m) /\ cached[z] \subseteq new[z]
    BY <1>3, <1>4, <1>6
  <1>9. new \in Book
    <2>1. \A z \in Calendar!Years : new[z] \in {{}} \cup UNION {Pages[k] : k \in Markets}
      <3> SUFFICES ASSUME NEW z \in Calendar!Years
                   PROVE  new[z] \in {{}} \cup UNION {Pages[k] : k \in Markets}
        OBVIOUS
      <3>1. new[z] = {} \/ new[z] \in Pages[m]
        BY <1>8 DEF Sound
      <3> QED
        BY <3>1
    <2> QED
      BY <1>7, <2>1 DEF Book
  <1>10. Calendar!Covered(cached, page, y) => Calendar!Cardinality(new[y]) >= Minimum
           /\ Calendar!Cardinality(new[y + 1]) >= Minimum
    BY <1>3, <1>4, <1>6 DEF Calendar!Covered
  <1> QED
    BY <1>8, <1>9, <1>10 DEF new

-----------------------------------------------------------------------------
(* What an attempt leaves, complete or not.                                *)
LEMMA YearsAhead ==
  ASSUME NEW t \in Nat, t <= MaxTime
  PROVE  Calendar!YearOf(t) \in Calendar!Years /\ Calendar!YearOf(t) + 1 \in Calendar!Years
  <1>1. MaxTime \in Nat
    BY CalendarAssumption
  <1>2. Calendar!YearOf(t) \in Nat /\ Calendar!YearOf(MaxTime) \in Nat
          /\ Calendar!YearOf(t) <= Calendar!YearOf(MaxTime)
    BY <1>1, DayFacts, DaysInOrder
  <1> QED
    BY <1>2 DEF Calendar!Years

BooksGrow == \A m \in Markets, y \in Calendar!Years : holidays[m][y] \subseteq holidays'[m][y]
BothYears(h, t) ==
  \A m \in Markets, y \in {Calendar!YearOf(t), Calendar!YearOf(t) + 1} :
    Calendar!Cardinality(h[m][y]) >= Minimum

LEMMA BooksSettle ==
  ASSUME CalendarTyped, time' \in Nat, time' <= MaxTime, Calendar!Refresh
  PROVE  /\ holidays' \in Books /\ disk' = holidays' /\ BooksGrow
         /\ live' => BothYears(holidays', time')
  <1> PICK pages \in [Markets -> UNION Calendar!Range(Calendar!Fetched)], saveFails \in BOOLEAN :
        (\A m \in Markets : pages[m] \in Calendar!Fetched[m]) /\ Calendar!Settle(pages, saveFails)
    BY DEF Calendar!Refresh
  <1> DEFINE y == Calendar!YearOf(time')
             read == {m \in Markets : pages[m] # Calendar!Unreadable}
             succeeded == {m \in read : Calendar!Covered(holidays[m], pages[m], y)}
             merged == [m \in Markets |-> IF m \in read THEN Calendar!Reconciled(holidays[m],
               pages[m], y)
                                          ELSE holidays[m]]
             written == read # {} /\ ~saveFails
  <1>1. /\ IF written THEN holidays' = merged /\ disk' = merged ELSE UNCHANGED <<holidays, disk>>
        /\ live' = (written /\ succeeded = Markets)
    BY DEF Calendar!Settle
  <1>2. y \in Calendar!Years /\ y + 1 \in Calendar!Years
    BY YearsAhead
  <1>3. /\ holidays \in [Markets -> Book] /\ disk = holidays
        /\ \A m \in Markets, z \in Calendar!Years : holidays[m][z] \in Sound(m)
    BY DEF CalendarTyped, Books, Book
  <1>4. CASE ~written
    <2>1. holidays' = holidays /\ disk' = disk /\ ~live'
      BY <1>1, <1>4
    <2> QED
      BY <1>3, <2>1 DEF CalendarTyped, BooksGrow
  <1>5. CASE written
    <2>1. holidays' = merged /\ disk' = merged /\ (live' => succeeded = Markets)
      BY <1>1, <1>5
    <2>2. ASSUME NEW m \in Markets
          PROVE  /\ merged[m] \in Book /\ \A z \in Calendar!Years : merged[m][z] \in Sound(m)
                 /\ \A z \in Calendar!Years : holidays[m][z] \subseteq merged[m][z]
                 /\ m \in succeeded => Calendar!Cardinality(merged[m][y]) >= Minimum
                                       /\ Calendar!Cardinality(merged[m][y + 1]) >= Minimum
      <3>1. CASE m \notin read
        <4>1. merged[m] = holidays[m] /\ m \notin succeeded
          BY <3>1
        <4> QED
          BY <1>3, <4>1
      <3>2. CASE m \in read
        <4>1. merged[m] = Calendar!Reconciled(holidays[m], pages[m], y)
                /\ pages[m] # Calendar!Unreadable
          BY <3>2
        <4>2. m \in succeeded => Calendar!Covered(holidays[m], pages[m], y)
          OBVIOUS
        <4>3. holidays[m] \in Book /\ pages[m] \in Calendar!Fetched[m]
              /\ \A z \in Calendar!Years : holidays[m][z] \in Sound(m)
          BY <1>3
        <4> HIDE DEF merged, succeeded, read, y
        <4> QED
          BY <1>2, <4>1, <4>2, <4>3, ReconciledIsSound
      <3> QED
        BY <3>1, <3>2
    <2>3. merged = [m \in Markets |-> merged[m]]
      OBVIOUS
    <2> HIDE DEF merged, succeeded, written, read
    <2>4. merged \in [Markets -> Book]
      BY <2>2, <2>3
    <2>5. merged \in Books
      BY <2>2, <2>4 DEF Books, Book
    <2>6. BooksGrow
      BY <2>1, <2>2 DEF BooksGrow
    <2>7. live' => BothYears(merged, time')
      BY <2>1, <2>2 DEF BothYears
    <2> QED
      BY <2>1, <2>5, <2>6, <2>7
  <1> QED
    BY <1>4, <1>5

LEMMA AttemptPlans ==
  ASSUME CalendarTyped, time' \in Nat, Calendar!Refresh
  PROVE  /\ tried' = time'
         /\ failures' \in 0..Len(Backoff) /\ next' \in Nat
         /\ live' => last' = time' /\ next' = 0
         /\ ~live' => last' = last
         /\ next' # 0 => next' <= Calendar!DailyAt(tried') \/ \E d \in Delays : next' <= tried' + d
  <1>1. tried' = time' /\ Calendar!Plan
    BY DEF Calendar!Refresh
  <1>2. Len(Backoff) \in Nat /\ failures \in 0..Len(Backoff)
    BY CalendarAssumption DEF CalendarTyped
  <1>3. CASE live'
    <2>1. last' = time' /\ next' = 0 /\ failures' = 0
      BY <1>1, <1>3 DEF Calendar!Plan
    <2> QED
      BY <1>1, <1>2, <1>3, <2>1
  <1>4. CASE ~live'
    <2>1. /\ last' = last /\ failures' = Calendar!Min({failures + 1, Len(Backoff)})
          /\ next' = IF time' < Calendar!DailyAt(time')
               THEN Calendar!DailyAt(time') ELSE time' + Calendar!Delay
      BY <1>1, <1>4 DEF Calendar!Plan
    <2>2. failures' \in 0..Len(Backoff) /\ Calendar!Delay \in Delays /\ Calendar!Delay \in Nat
      BY <1>2, <2>1, NextDelay, LargestDelay
    <2>3. Calendar!DailyAt(time') \in Nat
      BY DayFacts
    <2>4. next' = Calendar!DailyAt(tried') \/ next' = tried' + Calendar!Delay
      BY <1>1, <2>1
    <2>5. next' \in Nat
      BY <1>1, <2>2, <2>3, <2>4
    <2>6. next' <= Calendar!DailyAt(tried') \/ \E d \in Delays : next' <= tried' + d
      <3>1. CASE next' = Calendar!DailyAt(tried')
        BY <1>1, <2>3, <3>1
      <3>2. CASE next' = tried' + Calendar!Delay
        <4>1. next' <= tried' + Calendar!Delay
          BY <2>5, <3>2
        <4> QED
          BY <2>2, <4>1
      <3> QED
        BY <2>4, <3>1, <3>2
    <2> QED
      BY <1>1, <1>4, <2>1, <2>2, <2>5, <2>6
  <1> QED
    BY <1>3, <1>4

(* An attempt keeps the invariant.                                         *)
LEMMA AttemptHolds ==
  ASSUME CalendarInv, Calendar!Refresh, time' = time \/ time' = time + 1, time' <= MaxTime
  PROVE  CalendarInv' /\ BooksGrow
  <1>1. time' \in Nat \ {0} /\ time' >= time /\ time \in Nat
    BY DEF CalendarInv, CalendarTyped
  <1>2. /\ holidays' \in Books /\ disk' = holidays' /\ BooksGrow
        /\ live' => BothYears(holidays', time')
    BY <1>1, BooksSettle DEF CalendarInv
  <1>3. /\ tried' = time'
        /\ failures' \in 0..Len(Backoff) /\ next' \in Nat
        /\ live' => last' = time' /\ next' = 0
        /\ ~live' => last' = last
        /\ next' # 0 => next' <= Calendar!DailyAt(tried') \/ \E d \in Delays : next' <= tried' + d
    BY <1>1, AttemptPlans DEF CalendarInv
  <1>4. CalendarTyped'
    <2>1. last \in Nat /\ last <= tried /\ tried <= time /\ tried \in Nat
      BY DEF CalendarInv, CalendarTyped
    <2>2. last' \in Nat /\ last' <= tried'
      <3>1. CASE live'
        BY <1>1, <1>3, <3>1
      <3>2. CASE ~live'
        BY <1>1, <1>3, <2>1, <3>2
      <3> QED
        BY <3>1, <3>2
    <2> QED
      BY <1>1, <1>2, <1>3, <2>2 DEF CalendarTyped
  <1>5. Complete'
    <2> SUFFICES ASSUME live'
                 PROVE  /\ last' # 0 /\ next' = 0 /\ Calendar!DayOf(time') = Calendar!DayOf(last')
                        /\ BothYears(holidays', last')
      BY DEF Complete, BothYears
    <2> QED
      BY <1>1, <1>2, <1>3
  <1>6. Planned'
    <2>1. ~(time' >= Calendar!DailyAt(time') /\ tried' < Calendar!DailyAt(time'))
      <3>1. Calendar!DailyAt(time') \in Nat
        BY <1>1, DayFacts
      <3> QED
        BY <1>1, <1>3, <3>1
    <2> QED
      BY <1>3, <2>1 DEF Planned
  <1> QED
    BY <1>2, <1>4, <1>5, <1>6 DEF CalendarInv

(* A minute without an attempt.                                            *)
LEMMA QuietMinute ==
  ASSUME CalendarInv, time < MaxTime, time' = time + 1, ~Calendar!ShouldRefresh(time'),
         UNCHANGED <<Calendar!book, Calendar!plan, pageFaults, tried>>
  PROVE  CalendarInv'
  <1>1. /\ time \in Nat \ {0} /\ MaxTime \in Nat /\ time' \in Nat \ {0} /\ time' <= MaxTime
        /\ last \in Nat /\ tried \in Nat /\ next \in Nat /\ last <= tried /\ tried <= time
    BY CalendarAssumption DEF CalendarInv, CalendarTyped
  <1>2. /\ holidays' = holidays /\ disk' = disk /\ live' = live /\ last' = last /\ next' = next
        /\ failures' = failures /\ tried' = tried
    BY DEF Calendar!book, Calendar!plan
  <1>3. CalendarTyped'
    <2>1. tried' <= time'
      BY <1>1, <1>2
    <2> QED
      BY <1>1, <1>2, <2>1 DEF CalendarInv, CalendarTyped
  <1>4. Calendar!DailyAt(time') \in Nat /\ Calendar!DailyAt(time) \in Nat
    BY <1>1, DayFacts
  <1>5. \/ time' < Calendar!DailyAt(time')
        \/ Calendar!DayOf(last) = Calendar!DayOf(time') /\ last >= Calendar!DailyAt(time')
        \/ next # 0 /\ time' < next
    BY <1>1, <1>4 DEF Calendar!ShouldRefresh, Calendar!RefreshedToday
  <1>6. Complete'
    <2> SUFFICES ASSUME live
                 PROVE  \/ Calendar!DayOf(time') = Calendar!DayOf(last)
                        \/ Calendar!DayOf(time') = Calendar!DayOf(last) + 1
                             /\ time' < Calendar!DailyAt(time')
      BY <1>2 DEF CalendarInv, Complete
    <2>1. /\ next = 0
          /\ \/ Calendar!DayOf(time) = Calendar!DayOf(last)
             \/ Calendar!DayOf(time) = Calendar!DayOf(last) + 1 /\ time < Calendar!DailyAt(time)
      BY DEF CalendarInv, Complete
    <2>2. time' < Calendar!DailyAt(time') \/ Calendar!DayOf(last) = Calendar!DayOf(time')
      BY <1>5, <2>1
    <2>3. \/ Calendar!DayOf(time') = Calendar!DayOf(time)
          \/ /\ Calendar!DayOf(time') = Calendar!DayOf(time) + 1
             /\ time' < Calendar!DailyAt(time') /\ time >= Calendar!DailyAt(time)
      BY <1>1, NextSlot
    <2>4. ~(time < Calendar!DailyAt(time) /\ time >= Calendar!DailyAt(time))
      BY <1>1, <1>4
    <2> QED
      BY <2>1, <2>2, <2>3, <2>4
  <1>7. Planned'
    <2>1. next' # 0 => next' <= Calendar!DailyAt(tried') \/ \E d \in Delays : next' <= tried' + d
      BY <1>2 DEF CalendarInv, Planned
    <2>2. ASSUME tried' # 0, time' >= Calendar!DailyAt(time'), tried' < Calendar!DailyAt(time')
          PROVE  next' # 0 /\ time' < next'
      <3>1. ~(time' < Calendar!DailyAt(time'))
        BY <1>1, <1>4, <2>2
      <3>2. ~(last >= Calendar!DailyAt(time'))
        BY <1>1, <1>2, <1>4, <2>2
      <3> QED
        BY <1>2, <1>5, <3>1, <3>2
    <2> QED
      BY <2>1, <2>2 DEF Planned
  <1> QED
    BY <1>3, <1>6, <1>7 DEF CalendarInv

LEMMA CalendarStarts == Calendar!Init => CalendarInv
  <1> SUFFICES ASSUME Calendar!Init PROVE CalendarInv
    OBVIOUS
  <1>1. /\ time = 1 /\ tried = 0 /\ holidays = Calendar!Empty /\ disk = Calendar!Empty
             /\ live = FALSE
        /\ last = 0 /\ next = 0 /\ failures = 0
    BY DEF Calendar!Init
  <1>2. Calendar!Empty \in Books
    <2>1. \A m \in Markets, y \in Calendar!Years : Calendar!Empty[m][y] = {}
      BY DEF Calendar!Empty
    <2>2. Calendar!Empty \in [Markets -> [Calendar!Years -> {{}} \cup UNION {Pages[m] :
            m \in Markets}]]
      BY DEF Calendar!Empty
    <2> QED
      BY <2>1, <2>2 DEF Books, Sound
  <1>3. Len(Backoff) \in Nat /\ MaxTime \in Nat \ {0}
    BY CalendarAssumption
  <1>4. CalendarTyped
    BY <1>1, <1>2, <1>3 DEF CalendarTyped
  <1>5. Complete /\ Planned
    BY <1>1 DEF Complete, Planned
  <1> QED
    BY <1>4, <1>5 DEF CalendarInv

LEMMA CalendarStep ==
  CalendarInv /\ [Calendar!Next]_(Calendar!vars) => CalendarInv' /\ BooksGrow
  <1> SUFFICES ASSUME CalendarInv, [Calendar!Next]_(Calendar!vars)
               PROVE  CalendarInv' /\ BooksGrow
    OBVIOUS
  <1> USE DEF CalendarInv
  <1>1. /\ time \in Nat \ {0} /\ time <= MaxTime /\ MaxTime \in Nat /\ disk = holidays
        /\ last \in Nat /\ tried \in Nat /\ next \in Nat /\ last <= tried /\ tried <= time
    BY CalendarAssumption DEF CalendarTyped
  <1>2. CASE Calendar!Minute
    <2>1. time < MaxTime /\ time' = time + 1 /\ time' <= MaxTime
      BY <1>1, <1>2 DEF Calendar!Minute
    <2>2. CASE Calendar!ShouldRefresh(time')
      <3>1. Calendar!Refresh
        BY <1>2, <2>2 DEF Calendar!Minute
      <3> HIDE DEF CalendarInv
      <3> QED
        BY <2>1, <3>1, AttemptHolds
    <2>3. CASE ~Calendar!ShouldRefresh(time')
      <3>1. UNCHANGED <<Calendar!book, Calendar!plan, pageFaults, tried>>
        BY <1>2, <2>3 DEF Calendar!Minute
      <3>2. BooksGrow
        BY <3>1 DEF BooksGrow, Calendar!book
      <3> HIDE DEF CalendarInv
      <3> QED
        BY <2>1, <2>3, <3>1, <3>2, QuietMinute
    <2> QED
      BY <2>2, <2>3
  <1>3. CASE Calendar!FirstRefresh
    <2>1. time' = time /\ Calendar!Refresh /\ time' <= MaxTime
      BY <1>1, <1>3 DEF Calendar!FirstRefresh
    <2> HIDE DEF CalendarInv
    <2> QED
      BY <2>1, AttemptHolds
  <1>4. CASE Calendar!Restart
    <2>1. /\ time' = time /\ holidays' = disk /\ disk' = disk /\ live' = FALSE
          /\ last' = 0 /\ next' = 0 /\ failures' = 0 /\ tried' = 0
      BY <1>4 DEF Calendar!Restart
    <2>2. Len(Backoff) \in Nat
      BY CalendarAssumption
    <2>3. CalendarTyped'
      BY <1>1, <2>1, <2>2 DEF CalendarTyped
    <2>4. Complete' /\ Planned' /\ BooksGrow
      BY <1>1, <2>1 DEF Complete, Planned, BooksGrow
    <2> QED
      BY <2>3, <2>4
  <1>5. CASE Calendar!Tick \/ UNCHANGED Calendar!vars
    <2>1. /\ time' = time /\ holidays' = holidays /\ disk' = disk /\ live' = live
          /\ last' = last /\ next' = next /\ failures' = failures /\ tried' = tried
      BY <1>5 DEF Calendar!Tick, Calendar!vars, Calendar!book, Calendar!plan
    <2> QED
      BY <2>1 DEF CalendarTyped, Complete, Planned, BooksGrow
  <1> QED
    BY <1>2, <1>3, <1>4, <1>5 DEF Calendar!Next

LEMMA InvariantCovers == CalendarInv => Calendar!OkMeansCovered
  <1> SUFFICES ASSUME CalendarInv, live, NEW m \in Markets
               PROVE  Calendar!Cardinality(holidays[m][Calendar!YearOf(time)]) >= Minimum
    BY DEF Calendar!OkMeansCovered, Calendar!StateOk
  <1>1. time \in Nat /\ last \in Nat
    BY DEF CalendarInv, CalendarTyped
  <1>2. Calendar!DayOf(time) = Calendar!DayOf(last) \/ Calendar!DayOf(time) =
          Calendar!DayOf(last) + 1
    BY DEF CalendarInv, Complete
  <1>3. Calendar!YearOf(time) \in {Calendar!YearOf(last), Calendar!YearOf(last) + 1}
    BY <1>1, <1>2, NextDay
  <1> QED
    BY <1>3 DEF CalendarInv, Complete

LEMMA InvariantTries == CalendarInv => Calendar!TriedDaily
  <1> SUFFICES ASSUME CalendarInv, tried # 0,
                        time >= Calendar!DailyAt(time) + Calendar!Max(Delays) - 1,
                      ~(tried >= Calendar!DailyAt(time))
               PROVE  FALSE
    BY DEF Calendar!TriedDaily, Delays
  <1>1. time \in Nat /\ tried \in Nat /\ next \in Nat /\ tried <= time
    BY DEF CalendarInv, CalendarTyped
  <1>2. Calendar!DailyAt(time) \in Nat /\ Calendar!DailyAt(tried) \in Nat
          /\ Calendar!DailyAt(tried) <= Calendar!DailyAt(time)
    BY <1>1, DayFacts, DaysInOrder
  <1>3. Calendar!Max(Delays) \in Nat \ {0}
    BY LargestDelay
  <1>4. time >= Calendar!DailyAt(time) /\ tried < Calendar!DailyAt(time)
    BY <1>1, <1>2, <1>3
  <1>5. next # 0 /\ time < next
    BY <1>4 DEF CalendarInv, Planned
  <1>6. next <= Calendar!DailyAt(tried) \/ \E d \in Delays : next <= tried + d
    BY <1>5 DEF CalendarInv, Planned
  <1>7. CASE next <= Calendar!DailyAt(tried)
    BY <1>1, <1>2, <1>4, <1>5, <1>7
  <1>8. ASSUME NEW d \in Delays, next <= tried + d
        PROVE  FALSE
    <2>1. d \in Nat /\ d <= Calendar!Max(Delays)
      BY LargestDelay
    <2> QED
      BY <1>1, <1>2, <1>3, <1>4, <1>5, <1>8, <2>1
  <1> QED
    BY <1>6, <1>7, <1>8

(* The trading calendar (ResearchScheduler._should_refresh and             *)
(* _safe_refresh, _reconcile_years in research/calendars.py): what reports *)
(* "ok" covers the year in progress, and every day has its attempt.        *)
THEOREM CalendarKnown == Calendar!Spec => []CalendarHolds
  <1>1. CalendarInv => CalendarHolds
    BY InvariantCovers, InvariantTries DEF CalendarHolds, Calendar!CalendarHolds
  <1> QED
    BY <1>1, CalendarStarts, CalendarStep, PTL DEF Calendar!Spec

(* _reconcile_years and the roll-back of refresh(): a holiday that is      *)
(* known is not lost.                                                      *)
THEOREM HolidaysStay == Calendar!Spec => HolidaysKept
  <1>1. BooksGrow =>
          \A m \in Markets, y \in {Calendar!YearOf(time),
            Calendar!YearOf(time) + 1} \cap Calendar!Years :
            holidays[m][y] \subseteq holidays'[m][y]
    BY DEF BooksGrow
  <1> QED
    BY <1>1, CalendarStarts, CalendarStep, PTL DEF Calendar!Spec, HolidaysKept,
         Calendar!HolidaysKept
============================================================================
