---------------------------- MODULE VersionStore ----------------------------
(***************************************************************************)
(* The three version stores of the review side (review/strategy.py,        *)
(* review/indicator_config.py, research/prompt_store.py): a file that the  *)
(* program reads at run time, and a table of its versions.  A draft leaves *)
(* the file alone; applying it writes the file and then marks the row, two *)
(* steps under the store's lock between which a failure, a cancellation or *)
(* a crash may come.  The three classes differ in who may save directly,   *)
(* in what may be rolled back to and in which drafts need a stamped base.  *)
(*                                                                         *)
(* A text is a member of Contents, its md5 is the text itself, "" is a     *)
(* missing file; a version's identity is its place in the table.           *)
(***************************************************************************)
EXTENDS Naturals, Sequences, FiniteSets

CONSTANTS
  Channels,     \* the stores in use
  Contents,     \* texts that pass the validation of length and of keys
  MaxVersions,  \* bound: rows of a version table
  MaxEdits,     \* bound: interventions of the operator
  MaxFaults,    \* bound: storage operations that fail
  None

ASSUME VersionStoreAssumption ==
  /\ Channels \subseteq {"strategy", "indicator_config", "research_prompt"}
  /\ "" \notin Contents
  /\ None \notin Contents \cup {""} \cup [md5 : Contents \cup {""}, id : Nat]
  /\ None \notin [who : {"human", "agent", "rollback"}, id : Nat]
  /\ MaxVersions \in Nat \ {0} /\ MaxEdits \in Nat /\ MaxFaults \in Nat

VARIABLES
  file,     \* the text each channel's file holds
  ver,      \* each channel's version table
  pending,  \* what the holder of a store's lock has written to the file and
            \* not yet recorded in the table
  asked,    \* drafts of the operator that are still to be applied
  edits,    \* interventions of the operator so far
  faults    \* failed storage operations so far

storeVars == <<file, ver, pending, asked, edits, faults>>

Texts  == Contents \cup {""}
Ids    == 1..MaxVersions
Status == {"draft", "applied", "discarded"}

(* A row: base is the md5 of the text its author had read, or None, and    *)
(* baseId the version then current, or 0; round is the review round that   *)
(* drafted it, or 0, and report the round whose report it is attached to.  *)
Row(x, by, status, base, baseId, round) ==
  [content |-> x, by |-> by, status |-> status, base |-> base, baseId |-> baseId,
   round |-> round, report |-> 0]

(* pending: a row to be marked as applied, or a rollback to be inserted.   *)
Mark(who, v) == [who |-> who, id |-> v]

StoreTypeOK ==
  /\ file \in [Channels -> Texts]
  /\ \A c \in Channels :
       /\ Len(ver[c]) <= MaxVersions
       /\ \A v \in DOMAIN ver[c] :
            /\ ver[c][v].content \in Contents /\ ver[c][v].status \in Status
            /\ ver[c][v].by \in {"human", "agent", "rollback"}
            /\ ver[c][v].base \in Texts \cup {None}
            /\ ver[c][v].baseId \in 0..(v - 1)
       /\ pending[c] # None => pending[c].id \in DOMAIN ver[c]
       /\ asked[c] \subseteq DOMAIN ver[c]
  /\ edits \in 0..MaxEdits /\ faults \in 0..MaxFaults

-----------------------------------------------------------------------------
Rows(c) == DOMAIN ver[c]

(* latest_applied_version: the highest identity among the applied rows.    *)
LatestIn(rows) ==
  LET applied == {v \in DOMAIN rows : rows[v].status = "applied"}
  IN  IF applied = {} THEN 0 ELSE CHOOSE v \in applied : \A w \in applied : w <= v

Latest(c) == LatestIn(ver[c])

HasRoom(c) == Len(ver[c]) < MaxVersions

Inserted(c, row) == [ver EXCEPT ![c] = Append(@, row)]
Marked(c, v, status) == [ver EXCEPT ![c][v].status = status]

Fault == faults < MaxFaults /\ faults' = faults + 1
NoFault == UNCHANGED faults

Unlocked(c) == pending[c] = None

(* sample_current_base: text and identity, read under the lock.            *)
CurrentBase(c) == [md5 |-> file[c], id |-> Latest(c)]

(* _staleness_reason: may draft v no longer be applied?                    *)
StaleByIdOnly(c, v) == Latest(c) > v \* mutant: the base is not compared
Stale(c, v) ==
  LET d == ver[c][v]
      latest == Latest(c)
      interrupted == d.baseId # 0 /\ latest = d.baseId /\ file[c] = d.content
  IN  /\ latest # v
      /\ ~(d.base # None /\ interrupted)
      /\ \/ (d.base = None \/ d.baseId = 0) /\ latest > v
         \/ d.base # None /\ d.baseId # 0 /\ latest # d.baseId
         \/ d.base # None /\ file[c] # d.base

(* The replay guard: v has been applied before and replaced since.         *)
Replaced(c, v) == ver[c][v].status = "applied" /\ Latest(c) \notin {0, v}

(* revise: a draft that differs from the file, which it leaves alone.      *)
Differs(c, x) == x # file[c]
Draft(c, x, base, round) ==
  Row(x, "agent", "draft", base.md5, base.id, round)

-----------------------------------------------------------------------------
Intervene == edits < MaxEdits /\ edits' = edits + 1

(* The operator saves a text.  Strategy book and prompt: draft, file and   *)
(* mark under one lock.                                                    *)
HumanDraft(x) == Row(x, "human", "draft", None, 0, 0)

SaveByHuman(c, x) ==
  /\ c # "indicator_config" /\ Intervene
  /\ Unlocked(c) /\ HasRoom(c) /\ Differs(c, x)
  /\ ver' = Inserted(c, HumanDraft(x))
  /\ file' = [file EXCEPT ![c] = x]
  /\ pending' = [pending EXCEPT ![c] = Mark("human", Len(ver[c]) + 1)]
  /\ UNCHANGED <<asked, faults>>

(* Shortlist: the draft is inserted first, without the lock, and then      *)
(* applied like one of the agent's.                                        *)
ReviseByHuman(c, x) ==
  /\ c = "indicator_config" /\ Intervene /\ HasRoom(c) /\ Differs(c, x)
  /\ ver' = Inserted(c, HumanDraft(x))
  /\ asked' = [asked EXCEPT ![c] = @ \cup {Len(ver[c]) + 1}]
  /\ UNCHANGED <<file, pending, faults>>

ApplyRevision(c) ==
  /\ Unlocked(c)
  /\ \E v \in asked[c] :
       /\ asked' = [asked EXCEPT ![c] = @ \ {v}]
       /\ IF Stale(c, v)
          THEN ver' = Marked(c, v, "discarded") /\ UNCHANGED <<file, pending>>
          ELSE /\ file' = [file EXCEPT ![c] = ver[c][v].content]
               /\ pending' = [pending EXCEPT ![c] = Mark("human", v)]
               /\ UNCHANGED ver
  /\ UNCHANGED <<edits, faults>>

(* rollback: the strategy and shortlist stores take any row, the prompt    *)
(* store an applied one.                                                   *)
MayRollBackTo(c, v) == c = "research_prompt" => ver[c][v].status = "applied"

Rollback(c, v) ==
  /\ Intervene /\ v \in Rows(c) /\ Unlocked(c) /\ HasRoom(c) /\ MayRollBackTo(c, v)
  /\ file' = [file EXCEPT ![c] = ver[c][v].content]
  /\ pending' = [pending EXCEPT ![c] = Mark("rollback", v)]
  /\ UNCHANGED <<ver, asked, faults>>

(* The write to the table that ends a save, a rollback or an application.  *)
RecordedRows(c) ==
  IF pending[c].who = "rollback"
  THEN Inserted(c, Row(ver[c][pending[c].id].content, "rollback", "applied", None, 0, 0))
  ELSE Marked(c, pending[c].id, "applied")

RecordOperator(c) ==
  /\ pending[c] # None /\ pending[c].who # "agent"
  /\ pending[c].who = "rollback" => HasRoom(c)
  /\ \/ ver' = RecordedRows(c) /\ NoFault
     \/ Fault /\ UNCHANGED ver
  /\ pending' = [pending EXCEPT ![c] = None]
  /\ UNCHANGED <<file, asked, edits>>

(* Someone edits the file outside the program.                             *)
HotEdit(c, x) ==
  /\ Intervene /\ x # file[c]
  /\ file' = [file EXCEPT ![c] = x]
  /\ UNCHANGED <<ver, pending, asked, faults>>

-----------------------------------------------------------------------------
(* seed_if_empty, on an empty table: the file becomes version 1, and only  *)
(* the shortlist store writes a default file when there is none.           *)
SeededFile(c, x) == c = "indicator_config" => x # ""
SeededRows(x) ==
  IF x = "" THEN <<>> ELSE <<Row(x, "human", "applied", None, 0, 0)>>

StoreInit ==
  /\ file \in [Channels -> Texts]
  /\ \A c \in Channels : SeededFile(c, file[c])
  /\ ver = [c \in Channels |-> SeededRows(file[c])]
  /\ pending = [c \in Channels |-> None] /\ asked = [c \in Channels |-> {}]
  /\ edits = 0 /\ faults = 0

(* reconcile, at start: no draft survives, and the table decides what the  *)
(* file holds.                                                             *)
Discarded(rows) ==
  [v \in DOMAIN rows |->
     IF rows[v].status = "draft" THEN [rows[v] EXCEPT !.status = "discarded"]
     ELSE rows[v]]

Reconcile ==
  /\ ver' = [c \in Channels |-> Discarded(ver[c])]
  /\ file' = [c \in Channels |->
                IF Latest(c) = 0 THEN file[c] ELSE ver[c][Latest(c)].content]
  /\ pending' = [c \in Channels |-> None] /\ asked' = [c \in Channels |-> {}]
  /\ UNCHANGED <<edits, faults>>
=============================================================================
