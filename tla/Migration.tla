----------------------------- MODULE Migration -----------------------------
(***************************************************************************)
(* Opening the database (memory/db.py, memory/migrate_v3.py): the check of *)
(* the research tables, the creation of missing tables, the addition of    *)
(* missing columns and the two rebuilds of the v3 migration, over a file   *)
(* that an earlier version of the program left, with crashes and failing   *)
(* statements in between.                                                  *)
(*                                                                         *)
(* What matters is what SQLite and the sqlite3 module commit when: a DDL   *)
(* statement outside a transaction is durable at once; a DML statement     *)
(* opens a transaction that lasts until the commit at the end of open(),   *)
(* and what follows it, DDL included, is lost with it; a SAVEPOINT outside *)
(* a transaction makes one that its RELEASE commits.  "disk" is what a     *)
(* crash leaves, "work" what the connection sees.                          *)
(*                                                                         *)
(* Columns that no property tells apart are one member of Columns.  Of the *)
(* rows, the old close orders are one (flagged or not), and the causal     *)
(* links are Links, each with the status and the await_verification of     *)
(* the version that wrote it.                                              *)
(***************************************************************************)
EXTENDS Naturals, Sequences, FiniteSets, Functions

CONSTANTS
  Links,       \* causal links in the file
  Generations  \* the versions whose files are opened: subset of AllGenerations

VARIABLES
  pc,      \* where open() is
  disk,    \* the committed database
  work,    \* the database as the connection sees it
  inTxn,   \* a transaction is open
  table,   \* the table that is rebuilt
  saved,   \* the transaction was begun by the rebuild's SAVEPOINT
  origin   \* history: the links as the earlier version (or its repair) left them

vars == <<pc, disk, work, inTxn, table, saved, origin>>

(* The tables of the research side in the order in which SCHEMA creates    *)
(* them; the tables of the trading side have always existed.               *)
Tables == <<"reports", "assets", "links">>

(* The columns in the order in which open() adds them, after is_close.     *)
Columns == <<"trades", "versions", "topic", "await", "md5", "review", "version_id">>

TableOf(c) ==
  CASE c \in {"trades", "versions"} -> "trading"
    [] c \in {"md5", "review", "version_id"} -> "reports"
    [] c = "verify" -> "assets"
    [] OTHER -> "links"

(* The columns that v3 dropped, and the tables it rebuilds for it.         *)
DroppedOfLinks == [assets |-> "none", links |-> "await"] \* mutant
Dropped == [assets |-> "verify", links |-> "await"]

(* Files of earlier versions: what they have of tables and columns.        *)
HasResearch(g) == g # "v1"
ColumnsOf(g) ==
  CASE g = "v1" -> {}
    [] g = "unversioned" -> {"trades", "verify"}
    [] g = "v2" -> {"is_close", "trades", "versions", "topic", "await", "verify"}
    [] g = "v3" -> {"is_close", "trades", "versions", "topic", "md5"}
    [] g = "r5" -> {"is_close"} \cup (Range(Columns) \ {"await"})
Old(g) == g \in {"unversioned", "v2"}

OldRows == [status : {"pending", "superseded", "odd"}, awaited : BOOLEAN]

(* The three states of v3 from the two fields of v2.                       *)
V3Status(row) ==
  IF row.status = "superseded" THEN "superseded"
  ELSE IF row.awaited THEN "tracking" ELSE "concluded"

File(g, rows) ==
  [tables  |-> IF HasResearch(g) THEN Range(Tables) ELSE {},
   columns |-> ColumnsOf(g),
   flagged |-> "is_close" \in ColumnsOf(g),      \* by the version that added it
   form    |-> IF Old(g) THEN "old" ELSE "v3",
   rows    |-> rows]

NoRows == [l \in {} |-> "tracking"]

(* A link is an old row, or in v3 a status.  The file of a version without *)
(* await_verification reads as one that awaits every link (DEFAULT 1).     *)
Init ==
  /\ pc = "closed" /\ inTxn = FALSE /\ saved = FALSE /\ table = "assets"
  /\ \E g \in Generations :
       /\ origin \in [IF HasResearch(g) THEN Links ELSE {} -> OldRows]
       /\ Old(g) \/ \A l \in DOMAIN origin : origin[l].status # "odd"
       /\ "await" \notin ColumnsOf(g) => \A l \in DOMAIN origin : origin[l].awaited
       /\ disk = File(g, IF Old(g) THEN origin
                         ELSE [l \in DOMAIN origin |-> V3Status(origin[l])])
  /\ work = disk

-----------------------------------------------------------------------------
(* A DDL statement: durable at once unless a transaction is open.          *)
Ddl(db) ==
  /\ work' = db
  /\ disk' = IF inTxn THEN disk ELSE db
  /\ UNCHANGED <<inTxn, saved, origin>>

Has(c) == c \in work.columns

(* The columns of reports that _validate_research_schema accepts.          *)
Accepts(db) ==
  "reports" \in db.tables =>
    /\ "assets" \in db.tables
    /\ "version_id" \in db.columns => "md5" \in db.columns

Raise ==
  /\ pc' = "closed" /\ work' = disk /\ inTxn' = FALSE /\ saved' = FALSE
  /\ table' = "assets"
  /\ UNCHANGED <<disk, origin>>

Open ==
  /\ pc = "closed"
  /\ pc' = "validate" /\ work' = disk
  /\ UNCHANGED <<disk, inTxn, table, saved, origin>>

Validate ==
  /\ pc = "validate"
  /\ \/ /\ Accepts(work)
        /\ pc' = "create"
        /\ UNCHANGED <<disk, work, inTxn, table, saved, origin>>
     \/ ~Accepts(work) /\ Raise

(* executescript(SCHEMA), one CREATE TABLE IF NOT EXISTS after the other:  *)
(* a new table has the columns of the current version.                     *)
CreateTable ==
  /\ pc = "create"
  /\ \E i \in 1..Len(Tables) :
       /\ Tables[i] \notin work.tables
       /\ \A j \in 1..(i - 1) : Tables[j] \in work.tables
       /\ Ddl([work EXCEPT
                 !.tables = @ \cup {Tables[i]},
                 !.columns = @ \cup
                   {c \in Range(Columns) : TableOf(c) = Tables[i] /\ c # "await"},
                 !.form = IF Tables[i] = "links" THEN "v3" ELSE @,
                 !.rows = IF Tables[i] = "links" THEN NoRows ELSE @])
  /\ UNCHANGED <<pc, table>>

TablesCreated ==
  /\ pc = "create" /\ Range(Tables) \subseteq work.tables
  /\ pc' = "is_close"
  /\ UNCHANGED <<disk, work, inTxn, table, saved, origin>>

(* orders.is_close, and the UPDATE that flags the old close orders.        *)
AddIsClose ==
  /\ pc = "is_close"
  /\ \/ /\ ~Has("is_close")
        /\ Ddl([work EXCEPT !.columns = @ \cup {"is_close"}])
        /\ pc' = "flag" /\ UNCHANGED table
     \/ /\ Has("is_close")
        /\ pc' = "columns"
        /\ UNCHANGED <<disk, work, inTxn, table, saved, origin>>

FlagCloseOrders ==
  /\ pc = "flag" /\ pc' = "columns"
  /\ work' = [work EXCEPT !.flagged = TRUE]
  /\ inTxn' = TRUE
  /\ UNCHANGED <<disk, table, saved, origin>>

(* The first missing column is added; await_verification only to links     *)
(* that are not yet of v3 (they have broken_at).                           *)
Wants(c) == c = "await" => work.form = "old"
Missing == {i \in 1..Len(Columns) : ~Has(Columns[i]) /\ Wants(Columns[i])}
Before(i) == Columns[i] \in {"trades", "versions", "topic", "await", "md5"}

AddColumn ==
  /\ pc \in {"columns", "last"}
  /\ \E i \in Missing :
       /\ \A j \in Missing : i <= j
       /\ pc = "columns" => Before(i)
       /\ Ddl([work EXCEPT !.columns = @ \cup {Columns[i]}])
  /\ UNCHANGED <<pc, table>>

ColumnsAdded ==
  /\ pc = "columns" /\ \A i \in Missing : ~Before(i)
  /\ pc' = "check"
  /\ UNCHANGED <<disk, work, inTxn, table, saved, origin>>

-----------------------------------------------------------------------------
(* _rebuild_asset_views, then _rebuild_causal_links: unknown values refuse *)
(* the start; otherwise the table is copied, dropped and replaced under a  *)
(* SAVEPOINT.  (Assets with a verify_result are refused too: FailOrCrash.) *)
CheckTable ==
  /\ pc = "check"
  /\ \/ /\ ~Has(Dropped[table])
        /\ \/ table = "assets" /\ table' = "links" /\ UNCHANGED pc
           \/ table = "links" /\ pc' = "last" /\ UNCHANGED table
        /\ UNCHANGED <<disk, work, inTxn, saved, origin>>
     \/ /\ Has(Dropped[table]) /\ table = "links"
        /\ \E l \in DOMAIN work.rows : work.rows[l].status = "odd"
        /\ Raise
     \/ /\ Has(Dropped[table])
        /\ table = "links" => \A l \in DOMAIN work.rows : work.rows[l].status # "odd"
        /\ pc' = "savepoint"
        /\ UNCHANGED <<disk, work, inTxn, table, saved, origin>>

NoSavepoint == UNCHANGED <<inTxn, saved>> \* mutant: the rebuild is not wrapped
Savepoint == inTxn' = TRUE /\ saved' = ~inTxn

BeginRebuild ==
  /\ pc = "savepoint" /\ pc' = "copy"
  /\ Savepoint
  /\ UNCHANGED <<disk, work, table, origin>>

CopyTable == \* CREATE the _v3 table, copy into it, DROP the old one
  /\ pc = "copy" /\ pc' = "rename"
  /\ Ddl([work EXCEPT !.tables = @ \ {table}])
  /\ UNCHANGED table

RenameTable ==
  /\ pc = "rename" /\ pc' = "release"
  /\ Ddl([work EXCEPT
             !.tables = @ \cup {table},
             !.columns = @ \ {Dropped[table]},
             !.form = IF table = "links" THEN "v3" ELSE @,
             !.rows = IF table = "links"
                      THEN [l \in DOMAIN @ |-> V3Status(@[l])] ELSE @])
  /\ UNCHANGED table

ReleaseRebuild ==
  /\ pc = "release" /\ pc' = "check"
  /\ IF saved THEN disk' = work /\ inTxn' = FALSE ELSE UNCHANGED <<disk, inTxn>>
  /\ saved' = FALSE
  /\ UNCHANGED <<work, table, origin>>

Commit ==
  /\ pc = "last" /\ Missing = {}
  /\ pc' = "open"
  /\ disk' = work /\ inTxn' = FALSE
  /\ UNCHANGED <<work, table, saved, origin>>

-----------------------------------------------------------------------------
(* A statement raises, or the process dies: open transactions are lost.    *)
FailOrCrash == pc # "closed" /\ Raise

(* The operator follows the message of a refused start.                    *)
RepairRows ==
  /\ pc = "closed" /\ disk.form = "old"
  /\ \E l \in DOMAIN origin : disk.rows[l].status = "odd"
  /\ origin' = [l \in DOMAIN origin |-> IF origin[l].status = "odd"
                                THEN [origin[l] EXCEPT !.status = "pending"]
                                ELSE origin[l]]
  /\ disk' = [disk EXCEPT !.rows = origin'] /\ work' = disk'
  /\ UNCHANGED <<pc, inTxn, table, saved>>

Next ==
  \/ Open
  \/ Validate
  \/ CreateTable
  \/ TablesCreated
  \/ AddIsClose
  \/ FlagCloseOrders
  \/ AddColumn
  \/ ColumnsAdded
  \/ CheckTable
  \/ BeginRebuild
  \/ CopyTable
  \/ RenameTable
  \/ ReleaseRebuild
  \/ Commit
  \/ FailOrCrash
  \/ RepairRows

Spec == Init /\ [][Next]_vars

-----------------------------------------------------------------------------
(* Properties.                                                             *)

(* Whatever statement the start stops at, the file keeps every link, in    *)
(* its old form or mapped once, and the next start finds a table to read   *)
(* (the SAVEPOINT of migrate_v3).                                          *)
LinksWhole ==
  IF "links" \notin disk.tables THEN DOMAIN origin = {}
  ELSE IF disk.form = "old" THEN disk.rows = origin
  ELSE disk.rows = [l \in DOMAIN origin |-> V3Status(origin[l])]

(* However often the start was cut short, an open database has the current *)
(* structure: every column, and none that v3 dropped.                      *)
OpensCurrent ==
  pc = "open" =>
    /\ disk.columns = {"is_close"} \cup (Range(Columns) \ {"await"})
    /\ disk.form = "v3" /\ Range(Tables) \subseteq disk.tables
=============================================================================
