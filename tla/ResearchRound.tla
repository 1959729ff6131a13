---------------------------- MODULE ResearchRound ----------------------------
(***************************************************************************)
(* The research agent (research/agent.py) under its scheduler               *)
(* (research/scheduler.py).  The minute loop finds a schedule due, reserves *)
(* the only place there is for a round, claims the day's slot in the       *)
(* database and fires a task of its own; the operator may ask for a round  *)
(* at any time.  The round collects causal links while the model talks,    *)
(* commits its report in one transaction and then saves the links one by   *)
(* one, keeping what is left in a list, so that a cancelled or failing     *)
(* round can be completed from where it stopped.                           *)
(*                                                                         *)
(* pc is where the round's task is suspended: "flush" and "close" on the   *)
(* straight path, "reflush" and "reclose" in _complete_interrupted,        *)
(* "report" and "refuse" in _fail.  A link is named by its row.            *)
(***************************************************************************)
EXTENDS Naturals, Sequences, FiniteSets

CONSTANTS
  MaxDays,    \* bound: days with a slot
  MaxRounds,  \* bound: rounds fired
  MaxRows,    \* bound: links in the table and waiting for it
  MaxFaults   \* bound: database operations that fail

ASSUME ResearchRoundAssumption ==
  MaxDays \in Nat \ {0} /\ MaxRounds \in Nat \ {0} /\ MaxRows \in Nat /\ MaxFaults \in Nat

VARIABLES
  up, stopping,  \* the program runs; its shutdown has begun
  llm,           \* a provider is configured
  day, minute,   \* the clock, relative to the schedule's minute of fire
  ticked,        \* the loop has ticked in this minute
  tick,          \* the day whose slot the loop is claiming, or 0
  claims,        \* the rows of research_schedule_runs
  fired,         \* history: rounds fired for each day's slot
  reserved,      \* _run_reserved
  pc, rid,       \* the round's task and the round's number
  known,         \* the task's round_id is set: begin_round has returned
  saved,         \* the task's report_id is set
  closed,        \* audit_closed
  answers,       \* answers that were no valid report
  pend,          \* deps.pending_causal_links: for each, the row it replaces, or 0
  left,          \* remaining_links, as places in pend
  links,         \* the table causal_links
  lost,          \* history: links whose save raised, or was rolled back
  orphans,       \* history: rows marked as replaced by one that was rolled back
  audit,         \* the audit round of each round
  reports,       \* the rows of research_reports
  told,          \* the closing event of each round
  blind,         \* history: rounds whose report could not be looked up
  cut,           \* history: rounds that never ran, crashed, or were cancelled
                 \* while another failure was being dealt with
  cancelled,     \* history: rounds that were cancelled
  faults

clockVars == <<llm, day, minute, ticked>>
loopVars  == <<tick, claims, fired, reserved>>
taskVars  == <<known, saved, closed, answers, pend, left>>
rowVars   == <<links, audit, reports>>
histVars  == <<lost, orphans, blind, cut, cancelled>>
vars == <<up, stopping, clockVars, loopVars, pc, rid, taskVars, rowVars, histVars, told, faults>>

Days   == 1..MaxDays
Rounds == 1..MaxRounds
PCs == {"idle", "reserved", "begin", "chat", "parse", "reask", "persist", "flush", "close",
        "tell", "unwind", "reflush", "reclose", "report", "refuse", "prestart"}

TypeOK ==
  /\ up \in BOOLEAN /\ stopping \in BOOLEAN /\ llm \in BOOLEAN
  /\ day \in Days /\ minute \in {"due", "other"} /\ ticked \in BOOLEAN
  /\ tick \in {0} \cup Days /\ claims \subseteq Days
  /\ fired \in [Days -> Nat] /\ reserved \in BOOLEAN /\ pc \in PCs /\ rid \in 0..MaxRounds
  /\ known \in BOOLEAN /\ saved \in BOOLEAN /\ closed \in BOOLEAN /\ answers \in 0..2
  /\ \A i \in DOMAIN pend : pend[i] \in 0..Len(links)
  /\ \A i \in DOMAIN left : left[i] \in DOMAIN pend
  /\ \A r \in reports : r.round \in Rounds /\ r.ok \in BOOLEAN
  /\ audit \in [Rounds -> {"none", "open", "closed"}]
  /\ told \in [Rounds -> {"", "ok", "failed"}] /\ faults \in 0..MaxFaults

FreshTask ==
  /\ known' = FALSE /\ saved' = FALSE /\ closed' = FALSE
  /\ answers' = 0 /\ pend' = <<>> /\ left' = <<>>

Init ==
  /\ up = TRUE /\ stopping = FALSE /\ llm \in BOOLEAN
  /\ day = 1 /\ minute = "due" /\ ticked = FALSE
  /\ tick = 0 /\ claims = {} /\ fired = [d \in Days |-> 0]
  /\ reserved = FALSE /\ pc = "idle" /\ rid = 0
  /\ known = FALSE /\ saved = FALSE /\ closed = FALSE /\ answers = 0 /\ pend = <<>> /\ left = <<>>
  /\ links = <<[round |-> 0, key |-> 1, sup |-> 0, status |-> "current"]>>
  /\ audit = [r \in Rounds |-> "none"] /\ reports = {}
  /\ lost = {} /\ orphans = {} /\ blind = {} /\ cut = {} /\ cancelled = {}
  /\ told = [r \in Rounds |-> ""] /\ faults = 0

NoFault == UNCHANGED faults
Fault == faults < MaxFaults /\ faults' = faults + 1

-----------------------------------------------------------------------------
(* The clock and the scheduler's loop.  That a schedule is switched on, and *)
(* that the day is a trading day, may change at any time: Tick is taken    *)
(* when they hold, and they are looked at again after the claim.           *)
MinuteTurns ==
  /\ ticked' = FALSE
  /\ \/ minute = "due" /\ minute' = "other" /\ UNCHANGED day
     \/ minute = "other" /\ day < MaxDays /\ minute' = "due" /\ day' = day + 1
  /\ UNCHANGED <<up, stopping, llm, loopVars, pc, rid, taskVars, rowVars, histVars, told, faults>>

IsDue == minute = "due"

(* tick: the place is reserved before the first await.                     *)
Tick ==
  /\ up /\ ~stopping /\ tick = 0 /\ ~ticked /\ IsDue /\ ~reserved
  /\ ticked' = TRUE /\ tick' = day /\ reserved' = TRUE
  /\ UNCHANGED <<up, stopping, llm, day, minute, claims, fired, pc, rid, taskVars,
                 rowVars, histVars, told, faults>>

(* INSERT OR IGNORE: the slot is ours if the row is new.                   *)
Claims(d) == d \notin claims

CanFire == rid < MaxRounds
Fire ==
  /\ rid' = rid + 1 /\ pc' = "reserved" /\ FreshTask

ClaimAndFire ==
  /\ tick # 0 /\ tick' = 0 /\ claims' = claims \cup {tick}
  /\ \E stillDue \in BOOLEAN :
       \/ /\ Claims(tick) /\ stillDue /\ CanFire /\ Fire
          /\ fired' = [fired EXCEPT ![tick] = @ + 1]
          /\ UNCHANGED reserved
       \/ /\ ~(Claims(tick) /\ stillDue) /\ reserved' = FALSE
          /\ UNCHANGED <<fired, pc, rid, taskVars>>
  /\ UNCHANGED <<up, stopping, clockVars, rowVars, histVars, told, faults>>

ClaimFails ==
  /\ tick # 0 /\ Fault
  /\ tick' = 0 /\ reserved' = FALSE
  /\ claims' \in {claims, claims \cup {tick}}
  /\ UNCHANGED <<up, stopping, clockVars, fired, pc, rid, taskVars, rowVars, histVars,
                 told>>

StartNow ==
  /\ up /\ ~stopping /\ llm /\ ~reserved /\ CanFire
  /\ reserved' = TRUE /\ Fire
  /\ UNCHANGED <<up, stopping, clockVars, tick, claims, fired, rowVars, histVars, told,
                 faults>>

-----------------------------------------------------------------------------
(* The round.  Its done callback gives the reservation back.               *)
others == <<up, stopping, clockVars, tick, claims, fired, rid>>
Goto(p) == pc' = p /\ UNCHANGED reserved
Ends ==
  IF stopping THEN pc' = "prestart" /\ UNCHANGED reserved ELSE pc' = "idle" /\ reserved' = FALSE

(* run returns at once without a provider: the slot stays claimed.         *)
TaskStarts ==
  /\ pc = "reserved"
  /\ \/ llm /\ Goto("begin") /\ UNCHANGED cut
     \/ ~llm /\ Ends /\ cut' = cut \cup {rid}
  /\ UNCHANGED <<others, taskVars, rowVars, lost, orphans, blind, cancelled, told,
                 faults>>

Opened == [audit EXCEPT ![rid] = "open"]
Closed == [audit EXCEPT ![rid] = "closed"]
Report(ok) == reports \cup {[round |-> rid, ok |-> ok]}

(* begin_round inserts the audit row; it may raise after its commit.       *)
BeginRound ==
  /\ pc = "begin"
  /\ \/ NoFault /\ known' = TRUE /\ audit' = Opened /\ Goto("chat")
     \/ Fault /\ audit' \in {audit, Opened} /\ Goto("unwind") /\ UNCHANGED known
  /\ UNCHANGED <<others, saved, closed, answers, pend, left, links, reports, histVars, told>>

(* submit_causal_links: a link may replace one that is still current, and  *)
(* that no other link of this round replaces.                              *)
ReplaceableUnchecked(k) == \* mutant: the status of the old link is not looked at
  k \in DOMAIN links /\ \A i \in DOMAIN pend : pend[i] # k
Replaceable(k) ==
  /\ k \in DOMAIN links /\ links[k].status # "superseded"
  /\ \A i \in DOMAIN pend : pend[i] # k

SubmitLink ==
  /\ pc \in {"chat", "reask"} /\ Len(links) + Len(pend) < MaxRows
  /\ \E k \in 0..Len(links) :
       /\ k = 0 \/ Replaceable(k)
       /\ pend' = Append(pend, k)
  /\ UNCHANGED <<others, reserved, pc, known, saved, closed, answers, left, rowVars, histVars,
                 told, faults>>

(* The chat ends with a text, or at max_turns; it may raise, or time out,  *)
(* and so may the questions that follow it.                                *)
ChatEnds ==
  /\ pc = "chat" /\ Goto("parse") /\ answers' = 0
  /\ UNCHANGED <<others, known, saved, closed, pend, left, rowVars, histVars, told, faults>>

ChatRaises ==
  /\ pc \in {"chat", "parse", "reask"} /\ Goto("unwind") /\ answers' = 0
  /\ UNCHANGED <<others, known, saved, closed, pend, left, rowVars, histVars, told, faults>>

(* The text must hold a report on every contract, each of them queried; if *)
(* not, the model is asked again, twice, and may use its tools once more.  *)
Payloads == {"valid", "invalid"}
ParseAnswer ==
  /\ pc = "parse"
  /\ \E payload \in Payloads :
       \/ payload = "valid" /\ Goto("persist") /\ answers' = 0
       \/ payload = "invalid" /\ answers < 2 /\ Goto("reask") /\ answers' = answers + 1
       \/ payload = "invalid" /\ answers = 2 /\ Goto("unwind") /\ answers' = 0
  /\ UNCHANGED <<others, known, saved, closed, pend, left, rowVars, histVars, told, faults>>

Reask ==
  /\ pc = "reask" /\ Goto("parse")
  /\ UNCHANGED <<others, taskVars, rowVars, histVars, told, faults>>

(* The report's transaction is on a connection of its own.                 *)
AllLinks == [i \in DOMAIN pend |-> i]
Persist ==
  /\ pc = "persist"
  /\ \/ NoFault /\ Goto("flush") /\ saved' = TRUE /\ reports' = Report(TRUE) /\ left' = AllLinks
     \/ /\ Fault /\ Goto("unwind") /\ reports' \in {reports, Report(TRUE)}
        /\ UNCHANGED <<saved, left>>
  /\ UNCHANGED <<others, known, closed, answers, pend, links, audit, histVars, told>>

(* save_causal_link: the insertion, the mark on the link it replaces, and  *)
(* one commit.  A failure in between leaves the insertion to whoever       *)
(* commits next on the shared connection; and another task may roll it     *)
(* back before the mark is made (create_rereview_request), which nothing   *)
(* tells the round.                                                        *)
Link(i) == [round |-> rid, key |-> i, sup |-> pend[i], status |-> "current"]
Inserted(i) == Append(links, Link(i))
Saved(i) ==
  [k \in 1..(Len(links) + 1) |->
     IF k = pend[i] THEN [links[k] EXCEPT !.status = "superseded"] ELSE Inserted(i)[k]]
RolledBack(i) == [links EXCEPT ![pend[i]].status = "superseded"]

Flushing == pc \in {"flush", "reflush"} /\ left # <<>>
PopFirst == Tail(left) \* the entry leaves the list after its save
FlushLink ==
  /\ Flushing /\ left' = PopFirst
  /\ \/ NoFault /\ links' = Saved(left[1]) /\ UNCHANGED <<lost, orphans>>
     \/ /\ Fault /\ lost' = lost \cup {<<rid, left[1]>>}
        /\ \/ links' \in {links, Inserted(left[1])} /\ UNCHANGED orphans
           \/ /\ pend[left[1]] # 0 /\ links' = RolledBack(left[1])
              /\ orphans' = orphans \cup {pend[left[1]]}
  /\ UNCHANGED <<others, reserved, pc, known, saved, closed, answers, pend, audit, reports, blind,
                 cut, cancelled, told>>

Flushed ==
  /\ left = <<>>
  /\ \/ pc = "flush" /\ Goto("close")
     \/ pc = "reflush" /\ Goto("reclose")
  /\ UNCHANGED <<others, taskVars, rowVars, histVars, told, faults>>

(* end_round; a failure falls into the same completion as a cancellation.  *)
CloseAudit ==
  /\ pc = "close"
  /\ \/ NoFault /\ Goto("tell") /\ closed' = TRUE /\ audit' = Closed
     \/ Fault /\ Goto("reflush") /\ audit' \in {audit, Closed} /\ UNCHANGED closed
  /\ UNCHANGED <<others, known, saved, answers, pend, left, links, reports, histVars, told>>

Tell(what) == told' = [told EXCEPT ![rid] = what]
TellSuccess ==
  /\ pc = "tell" /\ Ends /\ Tell("ok")
  /\ UNCHANGED <<others, taskVars, rowVars, histVars, faults>>

-----------------------------------------------------------------------------
(* After an exception or a cancellation: the round is claimed by its       *)
(* preallocated identity and its report looked up.                         *)
Claimed == known \/ audit[rid] # "none"
Committed == \E r \in reports : r.round = rid /\ r.ok

NotRetaken == left \* mutant: the list of before the report is used
Retaken == AllLinks

Recover ==
  /\ pc = "unwind"
  /\ \/ /\ NoFault /\ known' = Claimed /\ UNCHANGED blind
        /\ IF saved THEN Goto("reflush") /\ UNCHANGED left
           ELSE IF Claimed /\ Committed THEN Goto("reflush") /\ left' = Retaken
           ELSE Goto("report") /\ UNCHANGED left
     \/ /\ ~saved /\ Fault /\ Goto("report")
        /\ known' \in {known, Claimed} /\ blind' = blind \cup {rid}
        /\ UNCHANGED left
  /\ UNCHANGED <<others, saved, closed, answers, pend, rowVars, lost, orphans, cut,
                 cancelled, told>>

Reclose ==
  /\ pc = "reclose" /\ Ends /\ Tell("ok")
  /\ \/ closed /\ UNCHANGED <<audit, faults>>
     \/ ~closed /\ NoFault /\ audit' = Closed
     \/ ~closed /\ Fault /\ UNCHANGED audit
  /\ UNCHANGED <<others, taskVars, links, reports, histVars>>

(* _fail: the failed report, then the audit round with its error.          *)
SaveFailure ==
  /\ pc = "report" /\ Goto("refuse")
  /\ \/ NoFault /\ reports' = Report(FALSE)
     \/ Fault /\ UNCHANGED reports
  /\ UNCHANGED <<others, taskVars, links, audit, histVars, told>>

CloseFailed ==
  /\ pc = "refuse" /\ Ends
  /\ \/ ~known /\ UNCHANGED <<audit, told, faults>>
     \/ /\ known /\ Tell("failed")
        /\ \/ NoFault /\ audit' = Closed
           \/ Fault /\ UNCHANGED audit
  /\ UNCHANGED <<others, taskVars, links, reports, histVars>>

-----------------------------------------------------------------------------
(* Shutdown cancels the loop and then the round where it is suspended; the *)
(* statement under way may still take effect.  A round that was already in *)
(* an exception handler is not completed.                                  *)
InTry    == {"begin", "chat", "parse", "reask", "persist", "flush", "close"}
Handling == {"unwind", "reflush", "reclose", "report", "refuse"}

Cancel ==
  /\ up /\ ~stopping /\ stopping' = TRUE
  /\ tick' = 0
  /\ claims' \in IF tick # 0 THEN {claims, claims \cup {tick}} ELSE {claims}
  /\ reserved' = (pc # "idle")
  /\ pc' = IF pc \in InTry THEN "unwind" ELSE IF pc = "idle" THEN "idle" ELSE "prestart"
  /\ cancelled' = IF pc = "idle" THEN cancelled ELSE cancelled \cup {rid}
  /\ cut' = IF pc \in Handling THEN cut \cup {rid} ELSE cut
  /\ \E landed \in {"no", "half", "yes"} :
       /\ audit' = CASE landed = "yes" /\ pc = "begin" -> Opened
                     [] landed = "yes" /\ pc \in {"close", "reclose", "refuse"} -> Closed
                     [] OTHER -> audit
       /\ reports' = IF landed = "yes" /\ pc = "persist" THEN Report(TRUE)
                     ELSE IF landed = "yes" /\ pc = "report" THEN Report(FALSE) ELSE reports
       /\ links' = IF ~Flushing \/ landed = "no" THEN links
                   ELSE IF landed = "half" THEN Inserted(left[1]) ELSE Saved(left[1])
  /\ answers' = 0
  /\ UNCHANGED <<up, clockVars, fired, rid, known, saved, closed, pend, left, lost, orphans,
                 blind, told, faults>>

(* shutdown: a round cancelled before it began has left no trace yet.      *)
RecordPrestart ==
  /\ pc = "prestart" /\ pc' = "idle" /\ reserved' = FALSE
  /\ \/ /\ NoFault
        /\ reports' = IF audit[rid] = "none" /\ \A r \in reports : r.round # rid
                      THEN Report(FALSE) ELSE reports
     \/ Fault /\ UNCHANGED reports
  /\ UNCHANGED <<others, taskVars, links, audit, histVars, told>>

Exit ==
  /\ up /\ up' = FALSE
  /\ cut' = IF pc = "idle" THEN cut ELSE cut \cup {rid}
  /\ pc' = "idle" /\ tick' = 0 /\ reserved' = FALSE /\ FreshTask
  /\ UNCHANGED <<stopping, clockVars, claims, fired, rid, rowVars, lost, orphans, blind,
                 cancelled, told, faults>>

(* run_forever ticks at once, even in a minute that has been ticked.       *)
Restart ==
  /\ ~up /\ up' = TRUE /\ stopping' = FALSE /\ ticked' = FALSE
  /\ UNCHANGED <<llm, day, minute, loopVars, pc, rid, taskVars, rowVars, histVars, told, faults>>

-----------------------------------------------------------------------------
RoundStep ==
  \/ TaskStarts \/ BeginRound \/ ChatEnds \/ ChatRaises \/ ParseAnswer \/ Reask \/ Persist
  \/ FlushLink \/ Flushed \/ CloseAudit \/ TellSuccess \/ Recover \/ Reclose
  \/ SaveFailure \/ CloseFailed \/ RecordPrestart

Next ==
  \/ MinuteTurns \/ Tick \/ ClaimAndFire \/ ClaimFails \/ StartNow
  \/ RoundStep \/ SubmitLink \/ Cancel \/ Exit \/ Restart

Spec == Init /\ [][Next]_vars

-----------------------------------------------------------------------------
(* Properties.                                                             *)

(* A round that ends in success has saved every link submitted in it, but  *)
(* for those whose save failed or was rolled back; exactly once, unless it *)
(* was cancelled; and no link belongs to a round without a report.         *)
RowsOf(r, i) == {k \in DOMAIN links : links[k].round = r /\ links[k].key = i}
LinksKept ==
  /\ \A k \in DOMAIN links : links[k].round # 0 =>
       \E r \in reports : r.round = links[k].round /\ r.ok
  /\ rid > 0 /\ pc = "idle" /\ told[rid] = "ok" /\ up =>
       \A i \in DOMAIN pend : <<rid, i>> \notin lost =>
         /\ RowsOf(rid, i) # {}
         /\ rid \notin cancelled => Cardinality(RowsOf(rid, i)) = 1

(* The chains of revisions do not fork, unless the database failed or the  *)
(* program crashed while links were being saved: two links that replace    *)
(* the same one are copies that a cancellation left behind.  And a link    *)
(* that counts as replaced has its successor, unless another task rolled   *)
(* its insertion back.                                                     *)
ChainsHold ==
  /\ faults = 0 =>
       \A j, k \in {m \in DOMAIN links : links[m].round \notin cut} :
         links[j].sup # 0 /\ links[j].sup = links[k].sup =>
           links[j].round = links[k].round /\ links[j].key = links[k].key
  /\ \A k \in DOMAIN links : links[k].status = "superseded" =>
       k \in orphans \/ \E j \in DOMAIN links : links[j].sup = k

(* A day's slot is fired at most once, although the loop ticks again after *)
(* a restart in the same minute, the configuration changes under it and a  *)
(* claim may fail after its commit.                                        *)
SlotOnce == \A d \in Days : fired[d] <= 1

(* A round leaves exactly one verdict and a closed audit round: unless it  *)
(* was cut short, or the database failed.                                  *)
OneVerdict ==
  /\ \A r, s \in reports : r.round = s.round /\ r.round \notin blind => r.ok = s.ok
  /\ rid > 0 /\ pc = "idle" /\ faults = 0 /\ rid \notin cut =>
       /\ audit[rid] # "open"
       /\ \E r \in reports : r.round = rid

(* What a round leaves behind, however it ends: a slot used once, one      *)
(* verdict, and every link.                                                *)
RoundsSettled == SlotOnce /\ OneVerdict /\ LinksKept
=============================================================================
