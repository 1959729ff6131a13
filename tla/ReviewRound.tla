----------------------------- MODULE ReviewRound -----------------------------
(***************************************************************************)
(* The review agent (review/agent.py) and its scheduler (scheduler.py) over *)
(* the version stores.  A round reads the current texts, lets the model    *)
(* draft revisions, commits its report in one transaction and only then    *)
(* applies the drafts; every await may raise, and a shutdown cancels the   *)
(* round wherever it is suspended.  What has been committed is then found  *)
(* out from the database, not from the task's variables.                   *)
(*                                                                         *)
(* pc is where the round's task is suspended.  The drafts are applied in   *)
(* one order of channels by both paths: "apply" after a commit, "again"    *)
(* when the rounding-off has been interrupted.                             *)
(***************************************************************************)
EXTENDS VersionStore

CONSTANTS
  MaxRounds,   \* bound: review rounds
  MaxDrafts    \* bound: drafts submitted in a round

ASSUME ReviewRoundAssumption ==
  MaxRounds \in Nat \ {0} /\ MaxDrafts \in Nat /\ None \notin [ok : BOOLEAN, applied : BOOLEAN]

VARIABLES
  up,        \* the program runs
  stopping,  \* shutdown has cancelled the review tasks
  pc,        \* where the round's task is
  rid,       \* the round's number; its round_id is preallocated if manual
  manual,    \* started by start_now, not by the scheduler
  known,     \* the task knows its round_id (begin_round has returned)
  saved,     \* the task knows its report_id
  closed,    \* audit_closed
  base,      \* deps.base_*_by_channel, or None
  draftIds,  \* deps.*_draft_ids
  named,     \* deps.*_version_id, or 0
  failed,    \* the channels in deps.apply_failed_ids
  todo,      \* drafts still to be applied, as <<channel, identity>>
  audit,     \* the audit round of each round
  reports,   \* the rows of review_reports
  told,      \* what the closing event of each round said, or None
  blind      \* history: the rounds whose lookup of the report failed

taskVars == <<manual, known, saved, closed, base, draftIds, named, failed, todo>>
vars == <<storeVars, up, stopping, pc, rid, taskVars, audit, reports, told, blind>>

Rounds == 1..MaxRounds
Place  == [strategy |-> 1, indicator_config |-> 2, research_prompt |-> 3]

PCs == {"idle", "reserved", "begin", "chat", "save", "apply", "attach", "close",
        "tell", "unwind", "again", "reattach", "reclose", "discard", "report",
        "refuse", "prestart"}

(* A report: auto reports end at today's midnight, manual ones when asked. *)
Report(ok, today) == [round |-> rid, ok |-> ok, today |-> today, named |-> named]

TypeOK ==
  /\ StoreTypeOK
  /\ up \in BOOLEAN /\ stopping \in BOOLEAN /\ pc \in PCs /\ rid \in 0..MaxRounds
  /\ manual \in BOOLEAN /\ known \in BOOLEAN /\ saved \in BOOLEAN /\ closed \in BOOLEAN
  /\ \A c \in Channels :
       /\ base[c] \in [md5 : Texts, id : 0..MaxVersions] \cup {None}
       /\ draftIds[c] \subseteq Rows(c) /\ named[c] \in Rows(c) \cup {0}
  /\ failed \subseteq Channels
  /\ audit \in [Rounds -> {"none", "open", "closed"}]
  /\ \A r \in reports : r.round \in Rounds /\ r.ok \in BOOLEAN
  /\ told \in [Rounds -> [ok : BOOLEAN, applied : BOOLEAN] \cup {None}]

FreshTask ==
  /\ known' = FALSE /\ saved' = FALSE /\ closed' = FALSE /\ failed' = {} /\ todo' = {}
  /\ base' = [c \in Channels |-> None]
  /\ draftIds' = [c \in Channels |-> {}] /\ named' = [c \in Channels |-> 0]

Init ==
  /\ StoreInit
  /\ up = TRUE /\ stopping = FALSE /\ pc = "idle" /\ rid = 0 /\ manual = FALSE
  /\ known = FALSE /\ saved = FALSE /\ closed = FALSE /\ failed = {} /\ todo = {}
  /\ base = [c \in Channels |-> None]
  /\ draftIds = [c \in Channels |-> {}] /\ named = [c \in Channels |-> 0]
  /\ audit = [r \in Rounds |-> "none"] /\ reports = {}
  /\ told = [r \in Rounds |-> None] /\ blind = {}

Goto(p) == pc' = p
ended == <<up, stopping, rid, audit, reports, told, blind>>

-----------------------------------------------------------------------------
(* The scheduler: start_now refuses while a round runs or is reserved.     *)
StartNow ==
  /\ up /\ ~stopping /\ pc = "idle" /\ rid < MaxRounds
  /\ rid' = rid + 1 /\ manual' = TRUE
  /\ FreshTask /\ Goto("reserved")
  /\ UNCHANGED <<storeVars, up, stopping, audit, reports, told, blind>>

TaskStarts ==
  /\ pc = "reserved" /\ Goto("begin")
  /\ UNCHANGED <<storeVars, taskVars, ended>>

(* The minute tick: today's fire time has passed, and no report, failed    *)
(* ones included, covers the interval.                                     *)
Due == \A r \in reports : ~r.today
Tick ==
  /\ up /\ ~stopping /\ pc = "idle" /\ rid < MaxRounds /\ Due
  /\ rid' = rid + 1 /\ manual' = FALSE
  /\ FreshTask /\ Goto("begin")
  /\ UNCHANGED <<storeVars, up, stopping, audit, reports, told, blind>>

-----------------------------------------------------------------------------
(* The briefing quotes the strategy book, read under its store's lock.     *)
StrategyStamped ==
  [c \in Channels |-> IF c = "strategy" THEN CurrentBase(c) ELSE base[c]]

(* begin_round inserts the audit row; a failure may come after the commit. *)
BeginRound ==
  /\ pc = "begin"
  /\ \/ /\ NoFault /\ \A c \in Channels : c = "strategy" => Unlocked(c)
        /\ known' = TRUE
        /\ audit' = [audit EXCEPT ![rid] = "open"]
        /\ Goto("chat")
        /\ base' = StrategyStamped
     \/ /\ Fault /\ Goto("unwind")
        /\ audit' \in {audit, [audit EXCEPT ![rid] = "open"]}
        /\ UNCHANGED <<known, base>>
  /\ UNCHANGED <<file, ver, pending, asked, edits, up, stopping, rid, manual, saved, closed,
                 draftIds, named, failed, todo, reports, told, blind>>

(* The tools that read a channel's current text stamp the base with it.    *)
ReadCurrent(c) ==
  /\ pc = "chat" /\ c # "strategy" /\ Unlocked(c)
  /\ base' = [base EXCEPT ![c] = CurrentBase(c)]
  /\ UNCHANGED <<storeVars, pc, manual, known, saved, closed, draftIds, named, failed,
                 todo, ended>>

DraftsOf(r) ==
  Cardinality({p \in Channels \X Ids :
     p[2] \in Rows(p[1]) /\ ver[p[1]][p[2]].round = r})

(* A submission: the draft is named as the round's version, then the older *)
(* drafts are discarded, and only then does it replace them in the list.   *)
Submit(c, x) ==
  /\ pc = "chat" /\ HasRoom(c) /\ Differs(c, x)
  /\ DraftsOf(rid) < MaxDrafts
  /\ LET v    == Len(ver[c]) + 1
         rows == Inserted(c, Draft(c, x, base[c], rid))
     IN  /\ named' = [named EXCEPT ![c] = v]
         /\ \/ /\ NoFault
               /\ ver' = [rows EXCEPT ![c] = [w \in DOMAIN rows[c] |->
                            IF w \in draftIds[c]
                            THEN [rows[c][w] EXCEPT !.status = "discarded"]
                            ELSE rows[c][w]]]
               /\ draftIds' = [draftIds EXCEPT ![c] = {v}]
            \/ /\ draftIds[c] # {} /\ Fault
               /\ ver' = rows
               /\ UNCHANGED draftIds
  /\ UNCHANGED <<file, pending, asked, edits, pc, manual, known, saved, closed, base, failed,
                 todo, ended>>

(* The shortlist and the prompt may only be revised once read.             *)
SubmitStrategy(x) == "strategy" \in Channels /\ Submit("strategy", x)
SubmitRead(c, x) == c # "strategy" /\ base[c] # None /\ Submit(c, x)

(* The chat loop ends with a text, or at max_turns, or raises.             *)
ChatEnds ==
  /\ pc = "chat" /\ pc' \in {"save", "unwind"}
  /\ UNCHANGED <<storeVars, taskVars, ended>>

-----------------------------------------------------------------------------
AllDrafts == {d \in Channels \X Ids : d[2] \in draftIds[d[1]]}

(* save_review_bundle: one transaction on a connection of its own.  It     *)
(* may fail before its commit, or after.                                   *)
SaveBundle ==
  /\ pc = "save"
  /\ \E today \in {TRUE} \cup {~manual} :
       \/ /\ NoFault /\ Goto("apply") /\ saved' = TRUE
          /\ reports' = reports \cup {Report(TRUE, today)}
          /\ todo' = AllDrafts /\ failed' = {}
       \/ /\ Fault /\ Goto("unwind")
          /\ reports' \in {reports, reports \cup {Report(TRUE, today)}}
          /\ UNCHANGED <<saved, todo, failed>>
  /\ UNCHANGED <<file, ver, pending, asked, edits, up, stopping, rid, manual, known, closed,
                 base, draftIds, named, audit, told, blind>>

(* Draft v of channel c is the next to be applied.                         *)
Applying(c, v) ==
  /\ pc \in {"apply", "again"} /\ <<c, v>> \in todo
  /\ \A d \in todo : Place[c] <= Place[d[1]]
Tried(c, v) == todo' = todo \ {<<c, v>>}
stay == <<asked, edits, pc, manual, known, saved, closed, base, draftIds, named, ended>>

(* apply_version: a replay changes nothing, a stale draft is discarded.    *)
SkipDraft(c, v) ==
  /\ Applying(c, v) /\ Unlocked(c)
  /\ \/ Replaced(c, v) /\ UNCHANGED ver
     \/ /\ ~Replaced(c, v) /\ Stale(c, v)
        /\ ver' = Marked(c, v, "discarded")
  /\ Tried(c, v)
  /\ UNCHANGED <<file, pending, faults, failed, stay>>

(* ... a good one is written to the file, which may fail.                  *)
WriteDraft(c, v) ==
  /\ Applying(c, v) /\ Unlocked(c)
  /\ ~Replaced(c, v) /\ ~Stale(c, v)
  /\ \/ /\ NoFault
        /\ file' = [file EXCEPT ![c] = ver[c][v].content]
        /\ pending' = [pending EXCEPT ![c] = Mark("agent", v)]
        /\ UNCHANGED <<todo, failed>>
     \/ /\ Fault
        /\ failed' = failed \cup {c} /\ Tried(c, v)
        /\ UNCHANGED <<file, pending>>
  /\ UNCHANGED <<ver, stay>>

(* ... and its row is marked, which may fail.                              *)
MarkDraft(c, v) ==
  /\ Applying(c, v) /\ pending[c] = Mark("agent", v)
  /\ \/ NoFault /\ ver' = RecordedRows(c) /\ UNCHANGED failed
     \/ Fault /\ failed' = failed \cup {c} /\ UNCHANGED ver
  /\ pending' = [pending EXCEPT ![c] = None]
  /\ Tried(c, v)
  /\ UNCHANGED <<file, stay>>

(* All drafts tried: a failure raises and starts the whole list again.     *)
Retry == todo' = AllDrafts /\ failed' = {}
DraftsTried ==
  /\ todo = {}
  /\ \/ pc = "apply" /\ failed = {} /\ Goto("attach") /\ UNCHANGED <<todo, failed>>
     \/ pc = "apply" /\ failed # {} /\ Goto("again") /\ Retry
     \/ pc = "again" /\ Goto("reattach") /\ UNCHANGED <<todo, failed>>
  /\ UNCHANGED <<storeVars, manual, known, saved, closed, base, draftIds, named, ended>>

Attached ==
  [c \in Channels |-> IF named[c] = 0 THEN ver[c]
                      ELSE [ver[c] EXCEPT ![named[c]].report = rid]]

(* _finalize_success: the versions are attached and the audit round ends.  *)
Attach ==
  /\ pc = "attach"
  /\ \/ NoFault /\ Goto("close") /\ ver' = Attached /\ UNCHANGED <<todo, failed>>
     \/ Fault /\ Goto("again") /\ Retry /\ UNCHANGED ver
  /\ UNCHANGED <<file, pending, asked, edits, manual, known, saved, closed, base, draftIds,
                 named, ended>>

CloseAudit ==
  /\ pc = "close"
  /\ \/ /\ NoFault /\ Goto("tell") /\ closed' = TRUE
        /\ audit' = [audit EXCEPT ![rid] = "closed"]
        /\ UNCHANGED <<todo, failed>>
     \/ Fault /\ Goto("again") /\ Retry /\ UNCHANGED <<closed, audit>>
  /\ UNCHANGED <<file, ver, pending, asked, edits, up, stopping, rid, manual, known, saved,
                 base, draftIds, named, reports, told, blind>>

SuccessEvent == [ok |-> TRUE, applied |-> failed = {}]
TellSuccess ==
  /\ pc = "tell" /\ Goto("idle")
  /\ told' = [told EXCEPT ![rid] = SuccessEvent]
  /\ UNCHANGED <<storeVars, taskVars, up, stopping, rid, audit, reports, blind>>

-----------------------------------------------------------------------------
(* After an exception or a cancellation: the preallocated round is claimed *)
(* and a committed report looked up; a lookup that fails counts as none.   *)
Claimed == known \/ (manual /\ audit[rid] # "none")
Committed == \E r \in reports : r.round = rid /\ r.ok

RecoverAsSuccess == \* mutant: the drafts are applied whatever was committed
  /\ pc = "unwind" /\ known' = Claimed /\ Goto("again") /\ Retry
  /\ UNCHANGED <<storeVars, up, stopping, rid, manual, saved, closed, base, draftIds,
                 named, audit, reports, told, blind>>

Recover ==
  /\ pc = "unwind"
  /\ \/ /\ NoFault /\ known' = Claimed /\ UNCHANGED blind
        /\ IF saved \/ (Claimed /\ Committed) THEN Goto("again") /\ Retry
           ELSE Goto("discard") /\ UNCHANGED <<todo, failed>>
     \/ /\ Fault /\ ~saved /\ Goto("discard")
        /\ known' \in {known, Claimed} /\ blind' = blind \cup {rid}
        /\ UNCHANGED <<todo, failed>>
  /\ UNCHANGED <<file, ver, pending, asked, edits, up, stopping, rid, manual, saved, closed,
                 base, draftIds, named, audit, reports, told>>

(* _complete_interrupted: each step tries, logs and goes on.               *)
Reattach ==
  /\ pc = "reattach" /\ Goto("reclose")
  /\ \/ NoFault /\ ver' = Attached
     \/ Fault /\ UNCHANGED ver
  /\ UNCHANGED <<file, pending, asked, edits, taskVars, ended>>

Reclose ==
  /\ pc = "reclose" /\ Goto("idle")
  /\ \/ NoFault /\ audit' = [audit EXCEPT ![rid] = "closed"]
     \/ ~closed /\ Fault /\ UNCHANGED audit
  /\ told' = [told EXCEPT ![rid] = SuccessEvent]
  /\ UNCHANGED <<file, ver, pending, asked, edits, taskVars, up, stopping, rid, reports, blind>>

(* _fail: the drafts are discarded, a failed report is saved, the audit    *)
(* round ends with the error; each step tries, logs and goes on.           *)
DiscardDrafts ==
  /\ pc = "discard" /\ Goto("report")
  /\ \E kept \in SUBSET Channels :
       /\ IF kept = {} THEN NoFault ELSE Cardinality(kept) = 1 /\ Fault
       /\ ver' = [c \in Channels |-> [v \in Rows(c) |->
                    IF c \notin kept /\ v \in draftIds[c]
                    THEN [ver[c][v] EXCEPT !.status = "discarded"] ELSE ver[c][v]]]
  /\ UNCHANGED <<file, pending, asked, edits, taskVars, ended>>

SaveFailure ==
  /\ pc = "report" /\ Goto("refuse")
  /\ \/ /\ NoFault
        /\ \E today \in {TRUE} \cup {~manual} :
             reports' = reports \cup {Report(FALSE, today)}
     \/ Fault /\ UNCHANGED reports
  /\ UNCHANGED <<file, ver, pending, asked, edits, taskVars, up, stopping, rid, audit, told, blind>>

CloseFailed ==
  /\ pc = "refuse" /\ Goto("idle")
  /\ \/ ~known /\ UNCHANGED <<faults, audit, told>>
     \/ /\ known /\ told' = [told EXCEPT ![rid] = [ok |-> FALSE, applied |-> FALSE]]
        /\ \/ NoFault /\ audit' = [audit EXCEPT ![rid] = "closed"]
           \/ Fault /\ UNCHANGED audit
  /\ UNCHANGED <<file, ver, pending, asked, edits, taskVars, up, stopping, rid, reports, blind>>

-----------------------------------------------------------------------------
(* Shutdown cancels the round where it is suspended.  A statement under    *)
(* way may still reach the database; a lock held by the round is released. *)
InTry == {"begin", "chat", "save", "apply", "attach", "close"}

Cancel ==
  /\ up /\ ~stopping /\ stopping' = TRUE
  /\ pc' = IF pc \in InTry THEN "unwind" ELSE IF pc = "reserved" THEN "prestart" ELSE "idle"
  /\ \E landed \in BOOLEAN :
       /\ audit' = IF landed /\ pc = "begin" THEN [audit EXCEPT ![rid] = "open"]
                   ELSE IF landed /\ pc = "close" THEN [audit EXCEPT ![rid] = "closed"]
                   ELSE audit
       /\ reports' = IF landed /\ pc = "save" THEN reports \cup {Report(TRUE, TRUE)}
                     ELSE reports
       /\ LET held == {c \in Channels : pending[c] # None /\ pending[c].who = "agent"}
          IN  /\ ver' = [c \in Channels |->
                           IF landed /\ c \in held THEN RecordedRows(c)[c] ELSE ver[c]]
              /\ pending' = [c \in Channels |-> IF c \in held THEN None ELSE pending[c]]
  /\ UNCHANGED <<file, asked, edits, faults, taskVars, up, rid, told, blind>>

(* A manual round that had not begun: no audit row and no report, so the   *)
(* shutdown writes the failed report itself.                               *)
RecordPrestart ==
  /\ pc = "prestart" /\ Goto("idle")
  /\ \/ /\ NoFault
        /\ \E today \in BOOLEAN : reports' = reports \cup {Report(FALSE, today)}
     \/ Fault /\ UNCHANGED reports
  /\ UNCHANGED <<file, ver, pending, asked, edits, taskVars, up, stopping, rid, audit, told, blind>>

(* The process ends, after a shutdown or by a crash, and starts again.     *)
Exit ==
  /\ up /\ up' = FALSE /\ Goto("idle")
  /\ FreshTask /\ manual' = FALSE
  /\ UNCHANGED <<storeVars, stopping, rid, audit, reports, told, blind>>

Restart ==
  /\ ~up /\ up' = TRUE /\ stopping' = FALSE
  /\ Reconcile
  /\ UNCHANGED <<pc, rid, taskVars, audit, reports, told, blind>>

-----------------------------------------------------------------------------
others == <<up, stopping, pc, rid, taskVars, audit, reports, told, blind>>

Operator ==
  /\ up /\ UNCHANGED others
  /\ \E c \in Channels :
       \/ \E x \in Contents : SaveByHuman(c, x) \/ ReviseByHuman(c, x) \/ HotEdit(c, x)
       \/ ApplyRevision(c)
       \/ \E v \in Ids : Rollback(c, v)
       \/ RecordOperator(c)

RoundStep ==
  \/ TaskStarts \/ BeginRound \/ ChatEnds \/ SaveBundle
  \/ \E c \in Channels, v \in Ids : SkipDraft(c, v) \/ WriteDraft(c, v) \/ MarkDraft(c, v)
  \/ DraftsTried \/ Attach \/ CloseAudit
  \/ TellSuccess \/ Recover \/ Reattach \/ Reclose
  \/ DiscardDrafts \/ SaveFailure \/ CloseFailed \/ RecordPrestart

Next ==
  \/ StartNow \/ Tick \/ RoundStep
  \/ \E c \in Channels : ReadCurrent(c)
  \/ \E x \in Contents : SubmitStrategy(x)
  \/ \E c \in Channels, x \in Contents : SubmitRead(c, x)
  \/ Operator \/ Cancel \/ Exit \/ Restart

Spec == Init /\ [][Next]_vars

-----------------------------------------------------------------------------
(* Properties.                                                             *)

(* The stores implement the register: a draft of the agent takes effect    *)
(* only if the version it was written against is still the current one,    *)
(* however the round, the operator, failures and restarts interleave.      *)
Register == INSTANCE VersionRegister WITH
  Ids       <- Ids,
  current   <- [c \in Channels |-> Latest(c)],
  proposals <- [c \in Channels |->
                  {[on |-> ver[c][v].baseId, id |-> v] :
                     v \in {w \in Rows(c) : ver[c][w].by = "agent"}}]

NoLostUpdate == Register!Spec

(* Nothing of a round takes effect before, or without, its report: a       *)
(* round that fails, is cancelled or crashes leaves every text as it was.  *)
ReportedFirst ==
  \A c \in Channels : \A v \in Rows(c) :
    ver[c][v].by = "agent" /\ ver[c][v].status = "applied" =>
      \E r \in reports : r.round = ver[c][v].round /\ r.ok

(* A round has one verdict: success and failure are never both on record   *)
(* (unless the lookup of the report fails), and a round that ran to its    *)
(* end without a storage failure has one.                                  *)
OneVerdict ==
  /\ \A r, s \in reports : r.round = s.round /\ r.round \notin blind => r.ok = s.ok
  /\ faults = 0 =>
       \A n \in Rounds : told[n] # None => \E r \in reports : r.round = n

(* When the closing event says that the revisions were applied, no draft   *)
(* that the round was to apply is still waiting.                           *)
SettledAsTold ==
  up /\ rid > 0 /\ pc = "idle" /\ told[rid] = [ok |-> TRUE, applied |-> TRUE] =>
    \A c \in Channels : \A v \in draftIds[c] : ver[c][v].status # "draft"

(* What a round leaves behind, however it ends.                            *)
RoundsSettled == ReportedFirst /\ OneVerdict /\ SettledAsTold
=============================================================================
