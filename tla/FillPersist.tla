---------------------------- MODULE FillPersist ----------------------------
(***************************************************************************)
(* From a simulated fill to its row in the trades table:                   *)
(* agent/fill_persist.py, agent/manual_close.py, and the fill buffer of    *)
(* paper/account.py.                                                       *)
(*                                                                         *)
(* Matching appends fills to the account's buffer.  Three kinds of tasks   *)
(* empty it under one asyncio.Lock: the drain that on_ticker schedules and *)
(* the one at the end of a round (Drainers), and the operator's manual     *)
(* close (Closers), which holds the lock from before its order until its   *)
(* own fill has been written.  A write that raises leaves its fill in a    *)
(* retry queue; the row's idempotency key is unique in the table.          *)
(*                                                                         *)
(* A fill is a number; kind and seq give the parts of it that matter.  The *)
(* order inside the buffer and the queues is left out, no property needs   *)
(* it.                                                                     *)
(***************************************************************************)
EXTENDS Naturals

CONSTANTS
  MaxFills,        \* bound on the fills of a behaviour
  Drainers,        \* drain_persist calls that can be pending at once
  Closers,         \* manual_close calls that can be pending at once
  EngineKinds,     \* what the engine makes fills of, besides manual closes
  Resets,          \* may the paper account be reset (or the process restart)?
  AmbiguousCommit, \* may a write raise and be committed all the same?
  None

ASSUME FillPersistAssumption ==
  /\ MaxFills \in Nat
  /\ EngineKinds \subseteq {"order", "tpsl", "liquidation"}
  /\ Drainers \cap Closers = {} /\ None \notin Drainers \cup Closers
  /\ Resets \in BOOLEAN /\ AmbiguousCommit \in BOOLEAN

VARIABLES
  nextFill, \* fills made so far
  kind,     \* what made the fill: order, tpsl, liquidation, or a manual close
  seq,      \* account.fill_seq when it was made
  fillSeq,  \* account.fill_seq
  buffer,   \* account.fills
  pending,  \* FillPersister._pending
  copies,   \* the number of trades rows written for a fill
  rows,     \* the sources of the trades rows written for a fill
  holder,   \* the task that holds FillPersister._lock
  pc,       \* where each task is
  work,     \* fills a task has yet to write in its persist_locked call
  mine,     \* a manual close's own fills: drained, not yet passed on
  failed,   \* has a write raised in the task's persist_locked call?
  warned,   \* the manual close's last answer carried the warning
  lost,     \* history: fills a reset threw away
  raised,   \* history: fills whose write has raised
  ownFill   \* history: the fills the current manual close has made

vars == <<nextFill, kind, seq, fillSeq, buffer, pending, copies, rows, holder, pc, work,
          mine, failed, warned, lost, raised, ownFill>>

taskVars == <<holder, pc, work, mine, failed, warned, ownFill>>
fillVars == <<nextFill, kind, seq, fillSeq>>
tableVars == <<copies, rows>>

Fills == 1..MaxFills
Made == 1..nextFill
Tasks == Drainers \cup Closers
Kinds == EngineKinds \cup {"order", "close"}
Sources == {"llm", "tpsl_close", "liquidation", "llm_close", "user_close"}
PCs == {"idle", "waiting", "placed", "work", "others", "mine"}

TypeOK ==
  /\ nextFill \in 0..MaxFills /\ fillSeq \in Nat
  /\ kind \in [Fills -> Kinds] /\ seq \in [Fills -> Nat]
  /\ buffer \subseteq Fills /\ pending \subseteq Fills
  /\ copies \in [Fills -> Nat] /\ rows \in [Fills -> SUBSET Sources]
  /\ holder \in Tasks \cup {None}
  /\ pc \in [Tasks -> PCs]
  /\ work \in [Tasks -> SUBSET Fills] /\ failed \in [Tasks -> BOOLEAN]
  /\ mine \in [Closers -> SUBSET Fills] /\ ownFill \in [Closers -> SUBSET Fills]
  /\ warned \in [Closers -> BOOLEAN]
  /\ lost \subseteq Fills /\ raised \subseteq Fills

Init ==
  /\ nextFill = 0 /\ fillSeq = 0
  /\ kind = [f \in Fills |-> "order"] /\ seq = [f \in Fills |-> 0]
  /\ buffer = {} /\ pending = {}
  /\ copies = [f \in Fills |-> 0] /\ rows = [f \in Fills |-> {}]
  /\ holder = None /\ pc = [t \in Tasks |-> "idle"]
  /\ work = [t \in Tasks |-> {}] /\ failed = [t \in Tasks |-> FALSE]
  /\ mine = [t \in Closers |-> {}] /\ ownFill = [t \in Closers |-> {}]
  /\ warned = [t \in Closers |-> FALSE]
  /\ lost = {} /\ raised = {}

-----------------------------------------------------------------------------
(* trade_id: orders and tpsl orders have a uuid of their own, all the      *)
(* liquidations share the order id "liquidation", here 0.                  *)
TradeId(f) == <<IF kind[f] = "liquidation" THEN 0 ELSE f, seq[f]>>

StoredUnindexed == {} \* mutant: the unique index is missing
Stored == {TradeId(g) : g \in {g \in Made : rows[g] # {}}}

(* trade_source_of                                                         *)
TradeSource(f) ==
  CASE kind[f] = "liquidation" -> "liquidation"
    [] kind[f] = "tpsl"        -> "tpsl_close"
    [] kind[f] = "close"       -> "llm_close"
    [] OTHER                   -> "llm"

(* The source a write of f records: only the manual close's own call       *)
(* overrides it, and only for its new fills.                               *)
SourceFor(t, f) ==
  IF pc[t] = "mine" /\ f \in mine[t] THEN "user_close" ELSE TradeSource(f)

NewFill(k) ==
  /\ nextFill < MaxFills
  /\ nextFill' = nextFill + 1
  /\ fillSeq' = fillSeq + 1
  /\ kind' = [kind EXCEPT ![nextFill + 1] = k]
  /\ seq' = [seq EXCEPT ![nextFill + 1] = fillSeq + 1]
  /\ buffer' = buffer \cup {nextFill + 1}

(* The matching engine: an order of the model, a stop, a liquidation.      *)
EngineFill(k) ==
  /\ NewFill(k)
  /\ UNCHANGED <<pending, tableVars, lost, raised, taskVars>>

(* reset_account installs a new PaperAccount, its buffer empty and its     *)
(* sequence back at zero.                                                  *)
ResetAccount ==
  /\ Resets
  /\ lost' = lost \cup buffer
  /\ buffer' = {} /\ fillSeq' = 0
  /\ UNCHANGED <<nextFill, kind, seq, pending, tableVars, raised, taskVars>>

-----------------------------------------------------------------------------
(* Drains.                                                                 *)
Called(t) ==
  /\ pc[t] = "idle"
  /\ pc' = [pc EXCEPT ![t] = "waiting"]
  /\ warned' = [c \in Closers |-> c # t /\ warned[c]]
  /\ UNCHANGED <<fillVars, buffer, pending, tableVars, holder, work, mine, failed, lost,
                 raised, ownFill>>

LockIgnored == TRUE \* mutant: the drain does not take the lock
LockFree == holder = None

(* The lock is acquired, the buffer drained and the retry queue taken over *)
(* without a suspension in between.                                        *)
DrainBegins(t) ==
  /\ t \in Drainers /\ pc[t] = "waiting" /\ LockFree
  /\ holder' = t
  /\ pc' = [pc EXCEPT ![t] = "work"]
  /\ work' = [work EXCEPT ![t] = pending \cup buffer]
  /\ failed' = [failed EXCEPT ![t] = FALSE]
  /\ pending' = {} /\ buffer' = {}
  /\ UNCHANGED <<fillVars, tableVars, mine, warned, lost, raised, ownFill>>

(* One turn of persist_locked.  The insert raises on a key that is already *)
(* there, and whenever the database fails.                                 *)
Insert(t, f) ==
  /\ copies' = [copies EXCEPT ![f] = @ + 1]
  /\ rows' = [rows EXCEPT ![f] = @ \cup {SourceFor(t, f)}]

RequeuedNot(f) == pending \* mutant: the failed fill is only logged
Requeued(f) == pending \cup {f}

Writing(t, f) == pc[t] \in {"work", "others", "mine"} /\ f \in work[t]

WriteSucceeds(t, f) ==
  /\ Writing(t, f) /\ TradeId(f) \notin Stored
  /\ Insert(t, f)
  /\ work' = [work EXCEPT ![t] = @ \ {f}]
  /\ mine' = [c \in Closers |-> IF c = t THEN mine[c] \ {f} ELSE mine[c]]
  /\ UNCHANGED <<fillVars, buffer, pending, holder, pc, failed, warned, lost, raised,
                 ownFill>>

WriteRaises(t, f) ==
  /\ Writing(t, f)
  /\ \/ UNCHANGED tableVars
     \/ /\ AmbiguousCommit /\ TradeId(f) \notin Stored
        /\ Insert(t, f)
  /\ pending' = Requeued(f)
  /\ work' = [work EXCEPT ![t] = @ \ {f}]
  /\ mine' = [c \in Closers |-> IF c = t THEN mine[c] \ {f} ELSE mine[c]]
  /\ failed' = [failed EXCEPT ![t] = TRUE]
  /\ raised' = raised \cup {f}
  /\ UNCHANGED <<fillVars, buffer, holder, pc, warned, lost, ownFill>>

DrainReturns(t) ==
  /\ pc[t] = "work" /\ work[t] = {}
  /\ pc' = [pc EXCEPT ![t] = "idle"]
  /\ holder' = None
  /\ failed' = [failed EXCEPT ![t] = FALSE]
  /\ UNCHANGED <<fillVars, buffer, pending, tableVars, work, mine, warned, lost,
                 raised, ownFill>>

-----------------------------------------------------------------------------
(* The manual close.                                                       *)

(* The lock is acquired and the risk check passes: the order is placed.    *)
(* There is a fill only if there is a position.                            *)
CloseOrders(t) ==
  /\ t \in Closers /\ pc[t] = "waiting" /\ holder = None
  /\ holder' = t
  /\ pc' = [pc EXCEPT ![t] = "placed"]
  /\ \/ NewFill("close") /\ ownFill' = [ownFill EXCEPT ![t] = {nextFill + 1}]
     \/ UNCHANGED <<fillVars, buffer>> /\ ownFill' = [ownFill EXCEPT ![t] = {}]
  /\ UNCHANGED <<pending, tableVars, work, mine, failed, warned, lost, raised>>

(* Refused by the risk check, or the gateway raised.                       *)
CloseRefused(t) ==
  /\ t \in Closers /\ pc[t] = "waiting" /\ holder = None
  /\ pc' = [pc EXCEPT ![t] = "idle"]
  /\ UNCHANGED <<fillVars, buffer, pending, tableVars, holder, work, mine, failed, warned,
                 lost, raised, ownFill>>

(* The order's row is saved; the buffer is drained and split, and the      *)
(* fills that are not the close's own are written first.                   *)
CloseDrains(t) ==
  /\ pc[t] = "placed"
  /\ pc' = [pc EXCEPT ![t] = "others"]
  /\ mine' = [mine EXCEPT ![t] = buffer \cap ownFill[t]]
  /\ work' = [work EXCEPT ![t] = pending \cup (buffer \ ownFill[t])]
  /\ failed' = [failed EXCEPT ![t] = FALSE]
  /\ buffer' = {} /\ pending' = {}
  /\ UNCHANGED <<fillVars, tableVars, holder, warned, lost, raised, ownFill>>

(* The second persist_locked call: it retries the queue too.               *)
CloseWritesOwn(t) ==
  /\ pc[t] = "others" /\ work[t] = {}
  /\ pc' = [pc EXCEPT ![t] = "mine"]
  /\ work' = [work EXCEPT ![t] = pending \cup mine[t]]
  /\ pending' = {}
  /\ failed' = [failed EXCEPT ![t] = FALSE]
  /\ UNCHANGED <<fillVars, buffer, tableVars, holder, mine, warned, lost, raised,
                 ownFill>>

WarningFromOthers(t) == FALSE \* mutant: the result of the second call is dropped
Warning(t) == failed[t]

CloseReturns(t) ==
  /\ pc[t] = "mine" /\ work[t] = {}
  /\ pc' = [pc EXCEPT ![t] = "idle"]
  /\ holder' = None
  /\ warned' = [warned EXCEPT ![t] = Warning(t)]
  /\ failed' = [failed EXCEPT ![t] = FALSE]
  /\ ownFill' = [ownFill EXCEPT ![t] = {}]
  /\ UNCHANGED <<fillVars, buffer, pending, tableVars, work, mine, lost, raised>>

-----------------------------------------------------------------------------
Next ==
  \/ \E k \in EngineKinds : EngineFill(k)
  \/ ResetAccount
  \/ \E t \in Tasks : Called(t)
  \/ \E t \in Drainers : DrainBegins(t)
  \/ \E t \in Tasks, f \in Fills : WriteSucceeds(t, f)
  \/ \E t \in Tasks, f \in Fills : WriteRaises(t, f)
  \/ \E t \in Drainers : DrainReturns(t)
  \/ \E t \in Closers : CloseOrders(t)
  \/ \E t \in Closers : CloseRefused(t)
  \/ \E t \in Closers : CloseDrains(t)
  \/ \E t \in Closers : CloseWritesOwn(t)
  \/ \E t \in Closers : CloseReturns(t)

Spec == Init /\ [][Next]_vars

-----------------------------------------------------------------------------
(* Properties.                                                             *)

(* A fill is never dropped on its way: at every moment it is in the        *)
(* buffer, in the retry queue, in the hands of the task that writes it,    *)
(* written, or thrown away with its account by a reset.                    *)
InHand(f) ==
  \/ \E t \in Tasks : f \in work[t]
  \/ \E t \in Closers : f \in mine[t]
NoFillLost ==
  \A f \in Made : InHand(f) \/ f \in buffer \cup pending \cup lost \/ rows[f] # {}

(* No fill is booked twice, however often its write raised, was committed  *)
(* all the same and is retried.                                            *)
RecordedOnce == \A f \in Fills : copies[f] <= 1

(* The lock is what keeps the drain that a price tick schedules from       *)
(* taking the fill of a manual close: it is written as user_close, unless  *)
(* its first write raised.                                                 *)
UserCloseUnlessRetried ==
  \A f \in Made : kind[f] = "close" /\ f \notin lost /\ f \notin raised =>
    rows[f] \subseteq {"user_close"}

(* The operator is told whenever the fill of his close was not written.    *)
OwnFailureWarned ==
  [][\A t \in Closers :
        pc[t] = "mine" /\ pc'[t] = "idle" /\ ownFill[t] \cap pending' # {} => warned'[t]]_vars
=============================================================================
