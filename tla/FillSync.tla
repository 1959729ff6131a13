------------------------------ MODULE FillSync ------------------------------
(***************************************************************************)
(* How the trades made at the exchange reach the trades table in testnet   *)
(* and live mode (agent/fill_sync.py, memory/fills_repo.py): pushes of the *)
(* private WebSocket, each handled by a task of its own, catch-ups over    *)
(* REST, and the tasks that fetch the profit of a close.                   *)
(*                                                                         *)
(* One action per segment between two awaits.  A statement takes effect    *)
(* when it is handed to the database: there is one connection, and it      *)
(* serves its callers in turn; one that raises may have taken effect.  All *)
(* trades are of one contract, and a trade that closes has one record at   *)
(* the exchange, of its own second.                                        *)
(***************************************************************************)
EXTENDS Integers, Sequences, FiniteSetsExt

CONSTANTS
  Orders,       \* orders at the exchange
  Own,          \* those of this program, with the source their row implies
  AutoOrders, Liquidations, \* those of a stop or target, and of a liquidation
  Catchers,     \* tasks that call catch_up: the safety net, the reconnection
  Starter,      \* the one that makes the call at the start, then run_safety_net
  Overlap, Lookback, Limit,  \* of catch_up: 60 s, 600 s, 100 trades
  Before, After,             \* of _match_position_close: 5 s and 2 s
  Cap,          \* _ORDER_SET_CAP
  MaxTrades, MaxTime, MaxRestarts, \* bounds
  None

Triggered == AutoOrders \cup Liquidations
Closes == {"user_close", "llm_close", "tpsl_close", "liquidation"}
Sources == Closes \cup {"llm_open", "unknown"}
Trades == 1..MaxTrades
Row == [source : Sources, pnl : {None} \cup Trades]

ASSUME FillSyncAssumption ==
  /\ DOMAIN Own \subseteq Orders /\ Triggered \subseteq Orders
  /\ \A o \in DOMAIN Own : Own[o] \in {"llm_open", "llm_close", "user_close"}
  /\ AutoOrders \cap Liquidations = {} /\ DOMAIN Own \cap Triggered = {}
  /\ Starter \in Catchers /\ None \notin Catchers
  /\ Overlap \in Nat /\ Lookback \in Nat /\ Limit \in Nat \ {0} /\ Cap \in Nat \ {0}
  /\ Before \in Nat /\ After \in Nat
  /\ MaxTrades \in Nat /\ MaxTime \in Nat /\ MaxRestarts \in Nat
  /\ Orders \cap Trades = {} /\ None \notin Trades /\ None \notin Row

VARIABLES
  now, trades,  \* at the exchange: the clock, the trades in their order
  wire,         \* pushes under way: numbers of trades, triggered orders
  own,          \* of own orders: "sent", "saved" (its row is there), "lost"
  rows,         \* of a trade: its row (source and whose record is its pnl)
  remembered,   \* _auto_order_ids and _liquidation_order_ids
  pc, todo,     \* of a task that persists: where it is, trades it has yet to do
  found,        \* ... what its last statement returned
  fixing,       \* of a triggered order: what _reattribute has yet to do
  backfill,     \* of a trade: the tries its _backfill_pnl still has
  consumed,     \* _pnl_consumed
  scheduled,    \* history: backfills scheduled for a trade
  booked,       \* history: of a row with a pnl, the process that wrote it
  lapsed,       \* history: rows whose _reattribute raised since the start
  restarts

exchange == <<now, trades, own>>
tasks == <<pc, todo, found>>
profit == <<backfill, consumed, booked>>
past == <<scheduled, lapsed, restarts>>
vars == <<exchange, wire, rows, remembered, tasks, fixing, profit, past>>

\* A trade is persisted by the task of its push and by those that catch up.
Persisters == Trades \cup Catchers
OrderOf(k) == trades[k].order
TimeOf(k) == trades[k].time
Executed == DOMAIN trades
Stored == {k \in Executed : rows[k] # None}

\* A task is "dead" when an exception has ended its loop.
Phases == {"idle", "fetch", "fetched", "mark", "select", "insert", "dead"}
Idle == [on |-> FALSE, rows |-> {}, last |-> None]

TypeOK ==
  /\ now \in 0..MaxTime /\ trades \in Seq([order : Orders, time : 0..MaxTime])
  /\ Len(trades) <= MaxTrades
  /\ wire \subseteq Executed \cup Triggered
  /\ own \in [DOMAIN Own -> {"sent", "saved", "lost"}]
  /\ rows \in [Trades -> Row \cup {None}]
  /\ remembered \in [{"auto", "liquidation"} -> SUBSET Triggered]
  /\ \A s \in DOMAIN remembered : Cardinality(remembered[s]) <= Cap
  /\ pc \in [Persisters -> Phases]
  /\ todo \in [Persisters -> SUBSET Trades] /\ found \in [Persisters -> Int]
  /\ fixing \in [Triggered -> [on : BOOLEAN, rows : SUBSET Trades, last : Trades \cup {None}]]
  /\ backfill \in [Trades -> 0..2]
  /\ consumed \subseteq 0..MaxTime /\ scheduled \in [Trades -> Nat]
  /\ booked \in [Trades -> 0..MaxRestarts] /\ lapsed \subseteq Trades
  /\ restarts \in 0..MaxRestarts

Init ==
  /\ now = 0 /\ trades = <<>> /\ wire = {}
  /\ own = [o \in DOMAIN Own |-> "sent"] /\ rows = [k \in Trades |-> None]
  /\ remembered = [s \in {"auto", "liquidation"} |-> {}]
  /\ pc = [t \in Persisters |-> IF t = Starter THEN "fetch" ELSE "idle"]
  /\ todo = [t \in Persisters |-> {}] /\ found = [t \in Persisters |-> 0]
  /\ fixing = [o \in Triggered |-> Idle] /\ backfill = [k \in Trades |-> 0]
  /\ consumed = {} /\ booked = [k \in Trades |-> 0] /\ scheduled = [k \in Trades |-> 0]
  /\ lapsed = {} /\ restarts = 0

---------------------------------------------------------------------------
(* The exchange: orders are executed, time passes, records appear.         *)

\* _record_order: the answer of the exchange is there, the row is written.
SaveOrder(o) ==
  /\ own[o] = "sent"
  /\ own' = [own EXCEPT ![o] = "saved"]
  /\ UNCHANGED <<now, trades, wire, rows, remembered, tasks, fixing, profit, past>>

Happened(o) == \E k \in Executed : OrderOf(k) = o

\* An order is filled, in part or in full: its trade is pushed, and so is the
\* first time that a stop, a target or a liquidation was triggered.
Trade(o) ==
  /\ Len(trades) < MaxTrades
  /\ trades' = Append(trades, [order |-> o, time |-> now])
  /\ wire' = wire \cup {Len(trades) + 1} \cup
             (IF o \in Triggered /\ ~Happened(o) THEN {o} ELSE {})
  /\ UNCHANGED <<now, own, rows, remembered, tasks, fixing, profit, past>>

Tick ==
  /\ now < MaxTime
  /\ now' = now + 1
  /\ UNCHANGED <<trades, own, wire, rows, remembered, tasks, fixing, profit, past>>

\* gate_ws reconnects without a word, and what was pushed meanwhile is gone.
Lose(m) ==
  /\ m \in wire
  /\ wire' = wire \ {m}
  /\ UNCHANGED <<exchange, rows, remembered, tasks, fixing, profit, past>>

---------------------------------------------------------------------------
(* _persist, in the task of a push or of a catch-up.                       *)

\* The trades of a task are persisted in the order of their time.
First(ks, k) == k \in ks /\ \A j \in ks : k <= j

\* order_attribution for the first of them: what its SELECT returns is settled
\* as it is asked.
Known(k) == OrderOf(k) \in DOMAIN Own /\ own[OrderOf(k)] = "saved"
Asked(t, ks) ==
  /\ todo' = [todo EXCEPT ![t] = ks]
  /\ pc' = [pc EXCEPT ![t] = IF ks = {} THEN "idle" ELSE "select"]
  /\ found' = [found EXCEPT ![t] = IF \E k \in ks : First(ks, k) /\ Known(k) THEN 1 ELSE 0]

\* handle_user_trade
DeliverTrade(k) ==
  /\ k \in wire
  /\ wire' = wire \ {k}
  /\ Asked(k, {k})
  /\ UNCHANGED <<exchange, rows, remembered, fixing, profit, past>>

\* The rest of _classify: the row of the order first, then the two sets.
SourceOf(k, known) ==
  LET o == OrderOf(k)
  IN CASE known = 1 -> Own[o]
       [] known = 0 /\ o \in remembered["liquidation"] -> "liquidation"
       [] known = 0 /\ o \in remembered["auto"] \ remembered["liquidation"] -> "tpsl_close"
       [] OTHER -> "unknown"

\* save_exchange_trade: ON CONFLICT(exchange_trade_id) DO NOTHING
Insert(t) ==
  /\ pc[t] = "select"
  /\ \E k \in todo[t] :
       /\ First(todo[t], k)
       /\ \/ /\ rows[k] = None
             /\ rows' = [rows EXCEPT ![k] = [source |-> SourceOf(k, found[t]), pnl |-> None]]
             /\ found' = [found EXCEPT ![t] = IF SourceOf(k, found[t]) \in Closes THEN 1 ELSE 0]
          \/ /\ rows[k] # None
             /\ found' = [found EXCEPT ![t] = 0]
             /\ UNCHANGED rows
  /\ pc' = [pc EXCEPT ![t] = "insert"]
  /\ UNCHANGED <<exchange, wire, remembered, todo, fixing, profit, past>>

\* _schedule_pnl_backfill, for the row of trade k
Schedule(k) ==
  /\ backfill' = [backfill EXCEPT ![k] = 2]
  /\ scheduled' = [scheduled EXCEPT ![k] = @ + 1]

\* The row is written: a new row that closes schedules its backfill.
Finish(t) ==
  /\ pc[t] = "insert"
  /\ \E k \in todo[t] :
       /\ First(todo[t], k)
       /\ IF found[t] = 1 THEN Schedule(k) ELSE UNCHANGED <<backfill, scheduled>>
       /\ Asked(t, todo[t] \ {k})
  /\ UNCHANGED <<exchange, wire, rows, remembered, fixing, consumed, booked, lapsed, restarts>>

\* A statement of a task raises: its SELECT, or its INSERT with or without
\* effect.  Nobody catches it: the task of a push ends, and so does
\* run_safety_net, which nothing starts again.
DatabaseFails(t) ==
  /\ pc[t] \in {"mark", "select", "insert"}
  /\ pc' = [pc EXCEPT ![t] = IF t = Starter THEN "dead" ELSE "idle"]
  /\ todo' = [todo EXCEPT ![t] = {}] /\ found' = [found EXCEPT ![t] = 0]
  /\ UNCHANGED <<exchange, wire, rows, remembered, fixing, profit, past>>

---------------------------------------------------------------------------
(* handle_auto_order and handle_liquidation.                               *)

\* _remember: a full set is emptied first.
Remember(s, o) ==
  remembered' = [remembered EXCEPT ![s] =
                   (IF Cardinality(@) >= Cap THEN {} ELSE @) \cup {o}]

SetOf(o) == IF o \in AutoOrders THEN "auto" ELSE "liquidation"
ClosedBy(o) == IF o \in AutoOrders THEN "tpsl_close" ELSE "liquidation"

\* Mutant of Unattributed: the query returns one row.
UnattributedOne(o) ==
  LET ks == {k \in Stored : OrderOf(k) = o /\ rows[k].source = "unknown"}
  IN {k \in ks : \A j \in ks : k <= j}

\* The rows of the order that no source was found for
Unattributed(o) == {k \in Stored : OrderOf(k) = o /\ rows[k].source = "unknown"}

\* The order is remembered, and find_by_exchange_order_id asked for its rows.
DeliverTrigger(o) ==
  /\ o \in wire
  /\ wire' = wire \ {o}
  /\ Remember(SetOf(o), o)
  /\ fixing' = [fixing EXCEPT ![o] = [on |-> TRUE, rows |-> Unattributed(o), last |-> None]]
  /\ UNCHANGED <<exchange, rows, tasks, profit, past>>

\* _reattribute, a row at a time: the backfill of the row just updated is
\* scheduled, and the next row is updated.
FixStep(o) ==
  /\ fixing[o].on
  /\ IF fixing[o].last = None THEN UNCHANGED <<backfill, scheduled>> ELSE Schedule(fixing[o].last)
  /\ \/ /\ fixing[o].rows = {}
        /\ fixing' = [fixing EXCEPT ![o] = Idle]
        /\ UNCHANGED rows
     \/ \E k \in fixing[o].rows :
          /\ rows' = [rows EXCEPT ![k].source = ClosedBy(o)]
          /\ fixing' = [fixing EXCEPT ![o] = [on |-> TRUE, rows |-> @.rows \ {k}, last |-> k]]
  /\ UNCHANGED <<exchange, wire, remembered, tasks, consumed, booked, lapsed, restarts>>

\* One of its statements raises: the UPDATE of the last row, when it had taken
\* effect, or what follows.  The rows that were left have nobody now.
FixFails(o) ==
  /\ fixing[o].on
  /\ \/ UNCHANGED <<backfill, scheduled>>
     \/ fixing[o].last # None /\ Schedule(fixing[o].last)
  /\ fixing' = [fixing EXCEPT ![o] = Idle]
  /\ lapsed' = lapsed \cup fixing[o].rows
  /\ UNCHANGED <<exchange, wire, rows, remembered, tasks, consumed, booked, restarts>>

---------------------------------------------------------------------------
(* catch_up, at the start, after a reconnection and from run_safety_net.   *)

CatchUp(t) ==
  /\ pc[t] = "idle"
  /\ pc' = [pc EXCEPT ![t] = "fetch"]
  /\ UNCHANGED <<exchange, wire, rows, remembered, todo, found, fixing, profit, past>>

\* list_my_trades: the newest Limit trades
Fetched(t) ==
  /\ pc[t] = "fetch"
  /\ todo' = [todo EXCEPT ![t] = {k \in Executed : k > Len(trades) - Limit}]
  /\ pc' = [pc EXCEPT ![t] = "fetched"]
  /\ UNCHANGED <<exchange, wire, rows, remembered, found, fixing, profit, past>>

FetchFails(t) ==
  /\ pc[t] = "fetch"
  /\ pc' = [pc EXCEPT ![t] = "idle"]
  /\ UNCHANGED <<exchange, wire, rows, remembered, todo, found, fixing, profit, past>>

\* latest_exchange_ts: the time of the newest row, -1 when there is none
Watermark == Max({-1} \cup {TimeOf(k) : k \in Stored})
Mark(t) ==
  /\ pc[t] = "fetched"
  /\ pc' = [pc EXCEPT ![t] = IF todo[t] = {} THEN "idle" ELSE "mark"]
  /\ found' = [found EXCEPT ![t] = IF todo[t] = {} THEN 0 ELSE Watermark]
  /\ UNCHANGED <<exchange, wire, rows, remembered, todo, fixing, profit, past>>

\* Mutant of Since: no overlap with what the watermark covers.
SinceWatermark(watermark, ks) ==
  IF watermark # -1 THEN watermark ELSE Max({TimeOf(k) : k \in ks}) - Lookback

Since(watermark, ks) ==
  IF watermark # -1 THEN watermark - Overlap ELSE Max({TimeOf(k) : k \in ks}) - Lookback

\* The trades after that time are persisted one after the other.
Filter(t) ==
  /\ pc[t] = "mark"
  /\ Asked(t, {k \in todo[t] : TimeOf(k) > Since(found[t], todo[t])})
  /\ UNCHANGED <<exchange, wire, rows, remembered, fixing, profit, past>>

---------------------------------------------------------------------------
(* _backfill_pnl                                                           *)

\* _match_position_close: records in the window that no row was given yet
Candidates(k, seen) ==
  {r \in seen : /\ TimeOf(r) \in (TimeOf(k) - Before)..(TimeOf(k) + After)
                /\ TimeOf(r) \notin consumed}
Distance(k, r) == IF TimeOf(r) < TimeOf(k) THEN TimeOf(k) - TimeOf(r) ELSE TimeOf(r) - TimeOf(k)
Nearest(k, rs) == {r \in rs : \A q \in rs : Distance(k, r) <= Distance(k, q)}

\* Mutant of Consume: a record may be given to several rows.
ConsumeNot(r) == UNCHANGED consumed
Consume(r) == consumed' = consumed \cup {TimeOf(r)}

\* Trades that close, in whole or in part, have a record in the end.
Closing(k) == OrderOf(k) \in DOMAIN Own => Own[OrderOf(k)] \in Closes

\* After a delay list_position_close has answered, with the records that can be
\* read by then, or it has failed (none); the row found is updated, or the
\* UPDATE raises: then the record is consumed and nobody has it.
Backfill(k) ==
  /\ backfill[k] > 0
  /\ \E seen \in SUBSET {r \in Executed : Closing(r)} :
       LET rs == Candidates(k, seen)
       IN \/ /\ rs = {}
             /\ backfill' = [backfill EXCEPT ![k] = @ - 1]
             /\ UNCHANGED <<rows, consumed, booked>>
          \/ \E r \in Nearest(k, rs) :
               /\ Consume(r)
               /\ \/ rows' = [rows EXCEPT ![k].pnl = r] /\ booked' = [booked EXCEPT ![k] = restarts]
                  \/ UNCHANGED <<rows, booked>>
               /\ backfill' = [backfill EXCEPT ![k] = 0]
  /\ UNCHANGED <<exchange, wire, remembered, tasks, fixing, past>>

---------------------------------------------------------------------------
\* The process ends and is started again: what was in memory or on its way is
\* gone, the rows are kept, and bootstrap calls catch_up.
Restart ==
  /\ restarts < MaxRestarts
  /\ restarts' = restarts + 1
  /\ own' = [o \in DOMAIN Own |-> IF own[o] = "sent" /\ Happened(o) THEN "lost" ELSE own[o]]
  /\ wire' = {} /\ remembered' = [s \in DOMAIN remembered |-> {}]
  /\ pc' = [t \in Persisters |-> IF t = Starter THEN "fetch" ELSE "idle"]
  /\ todo' = [t \in Persisters |-> {}] /\ found' = [t \in Persisters |-> 0]
  /\ fixing' = [o \in Triggered |-> Idle] /\ backfill' = [k \in Trades |-> 0]
  /\ consumed' = {} /\ lapsed' = {}
  /\ UNCHANGED <<now, trades, rows, booked, scheduled>>

Steps(t) == Fetched(t) \/ Mark(t) \/ Filter(t) \/ Insert(t) \/ Finish(t)

Next ==
  \/ \E o \in DOMAIN Own : SaveOrder(o)
  \/ \E o \in Orders : Trade(o)
  \/ Tick \/ Restart
  \/ \E k \in Trades : DeliverTrade(k) \/ Backfill(k)
  \/ \E m \in wire : Lose(m)
  \/ \E o \in Triggered : DeliverTrigger(o) \/ FixStep(o) \/ FixFails(o)
  \/ \E t \in Catchers : CatchUp(t) \/ FetchFails(t)
  \/ \E t \in Persisters : Steps(t) \/ DatabaseFails(t)

Spec == Init /\ [][Next]_vars

\* The event loop runs a catch-up that can go on, run_safety_net calls it again
\* and again while it lives, and list_my_trades does not fail for ever.
FairSpec ==
  /\ Spec
  /\ \A t \in Catchers : WF_vars(Steps(t) \/ CatchUp(t)) /\ SF_vars(Fetched(t))

---------------------------------------------------------------------------
(* Properties                                                              *)

\* handle_auto_order and handle_liquidation against _persist: whichever push
\* comes first, a row of a remembered order has its source, or the task that
\* sets it has seen the row, unless the database failed that task.  A row that
\* fell between the two would stay unattributed, and its loss would not count
\* for the risk rules.
AttributionKept ==
  \A k \in Stored : OrderOf(k) \in remembered["auto"] \cup remembered["liquidation"] =>
    rows[k].source # "unknown" \/ k \in fixing[OrderOf(k)].rows \/ k \in lapsed

\* _schedule_pnl_backfill and _match_position_close: one backfill at most is
\* scheduled for a row, whatever restarts there are, and no two rows are given
\* one record by one process.  The same loss counted twice would trip the daily
\* limit early.  (_pnl_consumed is in memory: a record that was used before a
\* restart may be given to another row after it.)
PnlBookedOnce ==
  /\ \A k \in Trades : scheduled[k] <= 1
  /\ \A j, k \in Stored :
       j # k /\ rows[k].pnl # None /\ rows[j].pnl = rows[k].pnl => booked[j] # booked[k]

\* What catch_up leaves behind: the watermark or the newest 100 trades have
\* passed trade k.
Overtaken(k) ==
  \/ \E j \in Stored : TimeOf(j) - Overlap >= TimeOf(k)
  \/ Len(trades) - k >= Limit
  \/ \E j \in Executed : TimeOf(j) - Lookback >= TimeOf(k)

\* catch_up and run_safety_net: a trade whose push was lost is recorded in
\* the end, unless the watermark, the page or the first look back passes it, or
\* a failure of the database has ended the safety net for good.
RecordedUnlessOvertaken ==
  \A k \in Trades :
    k \in Executed ~>
      (k \in Stored \/ pc[Starter] = "dead" \/ (k \in Executed /\ Overtaken(k)))

\* What the comment in _record_order says: the row of an order is there
\* before anyone asks whose a trade is, so its own trades are attributed.
OwnOrdersKnown ==
  \A k \in Stored : OrderOf(k) \in DOMAIN Own => rows[k].source = Own[OrderOf(k)]
=============================================================================
