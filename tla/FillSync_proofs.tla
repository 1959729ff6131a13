--------------------------- MODULE FillSync_proofs ---------------------------
(***************************************************************************)
(* No row of a remembered order is left without a source but by a failure  *)
(* of the database, and no profit is booked twice by one process, whatever *)
(* orders there are, however many trades are pushed, tasks catch up and    *)
(* statements fail, and however often the process starts again.            *)
(*                                                                         *)
(* The invariant says which task has a row in its hands.  A row that was   *)
(* just inserted with a source that closes is owed its backfill by the     *)
(* task that inserted it (Owed), a row that was just given its source by   *)
(* the _reattribute of its order; a row is in one of the two conditions    *)
(* at most, is scheduled when it leaves it, if no failure lets it slip,    *)
(* and never comes back.  Of the records, what is consumed are those that  *)
(* this process has given to a row; a row that an earlier process booked   *)
(* says nothing of what is consumed now.                                   *)
(***************************************************************************)
EXTENDS FillSync, TLAPS

Typed ==
  /\ now \in 0..MaxTime
  /\ trades \in Seq([order : Orders, time : 0..MaxTime]) /\ Len(trades) <= MaxTrades
  /\ wire \subseteq Executed \cup Triggered
  /\ own \in [DOMAIN Own -> {"sent", "saved", "lost"}]
  /\ rows \in [Trades -> Row \cup {None}]
  /\ remembered \in [{"auto", "liquidation"} -> SUBSET Triggered]
  /\ pc \in [Persisters -> Phases]
  /\ todo \in [Persisters -> SUBSET Executed] /\ DOMAIN found = Persisters
  /\ fixing \in [Triggered -> [on : BOOLEAN, rows : SUBSET Trades, last : Trades \cup {None}]]
  /\ backfill \in [Trades -> 0..2] /\ scheduled \in [Trades -> {0, 1}]
  /\ restarts \in Nat /\ booked \in [Trades -> 0..restarts]

(* What is recorded was executed, and what is to be updated is recorded.   *)
Recorded ==
  /\ \A k \in Trades : rows[k] # None => k \in Executed
  /\ \A k \in Trades : backfill[k] > 0 => rows[k] \in Row

(* A task that has asked for the source of a trade knows the answer.       *)
Answered ==
  \A t \in Persisters : pc[t] = "select" =>
    /\ found[t] \in {0, 1}
    /\ \A k \in Trades : First(todo[t], k) /\ found[t] = 1 => OrderOf(k) \in DOMAIN Own

(* A row may be scheduled when it has a source only.                       *)
Unscheduled ==
  \A k \in Trades : rows[k] = None \/ rows[k].source = "unknown" => scheduled[k] = 0

(* Task t has inserted trade k and has yet to schedule its backfill.       *)
Owed(t, k) == pc[t] = "insert" /\ found[t] = 1 /\ First(todo[t], k)

OwedOnce ==
  \A t \in Persisters, k \in Trades : Owed(t, k) =>
    /\ rows[k] \in Row /\ rows[k].source \in Closes /\ scheduled[k] = 0
    /\ \A u \in Persisters : Owed(u, k) => u = t
    /\ \A o \in Triggered : fixing[o].last # k

(* What _reattribute has in its hands are rows of its order: those it has  *)
(* yet to update, without a source, and the one it has just updated.       *)
FixedOnce ==
  \A o \in Triggered :
    /\ \A k \in fixing[o].rows :
         k \in Executed /\ rows[k] \in Row /\ rows[k].source = "unknown" /\ OrderOf(k) = o
    /\ \A k \in Trades : fixing[o].last = k =>
         /\ k \in Executed /\ rows[k] \in Row /\ rows[k].source # "unknown"
         /\ OrderOf(k) = o /\ scheduled[k] = 0

(* The record of a row that this process has booked is consumed.           *)
Profit(k) == rows[k] \in Row /\ rows[k].pnl # None

Books ==
  /\ \A k \in Trades : Profit(k) =>
       /\ rows[k].pnl \in Executed
       /\ booked[k] = restarts => TimeOf(rows[k].pnl) \in consumed
  /\ \A j, k \in Trades :
       j # k /\ Profit(j) /\ Profit(k) /\ rows[j].pnl = rows[k].pnl => booked[j] # booked[k]

IInv ==
  /\ Typed /\ Recorded /\ Answered /\ AttributionKept
  /\ Unscheduled /\ OwedOnce /\ FixedOnce /\ Books

-----------------------------------------------------------------------------
LEMMA Shape ==
  ASSUME Typed
  PROVE  /\ Executed = 1..Len(trades) /\ Executed \subseteq Trades
         /\ \A k \in Executed : OrderOf(k) \in Orders /\ TimeOf(k) \in 0..MaxTime
         /\ Triggered \subseteq Orders /\ Triggered \cap Trades = {}
         /\ Triggered \cap DOMAIN Own = {}
<1>1. Executed = 1..Len(trades) /\ Len(trades) \in Nat
  BY DEF Typed, Executed
<1>2. Executed \subseteq Trades
  BY <1>1, FillSyncAssumption DEF Typed, Trades
<1>3. ASSUME NEW k \in Executed
      PROVE  OrderOf(k) \in Orders /\ TimeOf(k) \in 0..MaxTime
  <2> DEFINE T == [order : Orders, time : 0..MaxTime]
  <2>1. trades \in Seq(T) /\ k \in 1..Len(trades)
    BY <1>3, <1>1 DEF Typed
  <2>2. trades[k] \in T
    <3> HIDE DEF T
    <3> QED
      BY <2>1
  <2> QED
    BY <2>2 DEF OrderOf, TimeOf
<1>4. Triggered \subseteq Orders
  BY FillSyncAssumption DEF Triggered
<1>5. Triggered \cap Trades = {} /\ Triggered \cap DOMAIN Own = {}
  BY <1>4, FillSyncAssumption
<1> QED
  BY <1>1, <1>2, <1>3, <1>4, <1>5

LEMMA FirstOne ==
  ASSUME NEW ks \in SUBSET Trades, NEW j, NEW k, First(ks, j), First(ks, k)
  PROVE  j = k
  BY DEF First, Trades

LEMMA Started == Init => IInv
<1> SUFFICES ASSUME Init PROVE IInv
  OBVIOUS
<1> USE FillSyncAssumption
<1>1. Executed = {} /\ Stored = {}
  BY DEF Init, Executed, Stored
<1>2. Typed
  BY <1>1 DEF Init, Typed, Idle, Trades, Phases
<1>3. Recorded /\ Answered /\ AttributionKept /\ Unscheduled
  BY <1>1 DEF Init, Recorded, Answered, AttributionKept, Unscheduled
<1>4. OwedOnce /\ FixedOnce /\ Books
  BY DEF Init, OwedOnce, Owed, FixedOnce, Books, Profit, Idle
<1> QED
  BY <1>2, <1>3, <1>4 DEF IInv

-----------------------------------------------------------------------------
(* What a step of task t leaves of the others, when it does not end with a *)
(* row in its hands.                                                       *)
LEMMA TaskStep ==
  ASSUME IInv, NEW t \in Persisters,
         \A u \in Persisters \ {t} :
           pc'[u] = pc[u] /\ todo'[u] = todo[u] /\ found'[u] = found[u],
         pc'[t] # "insert",
         pc'[t] = "select" =>
           /\ found'[t] \in {0, 1}
           /\ \A k \in Trades :
                First(todo'[t], k) /\ found'[t] = 1 => OrderOf(k) \in DOMAIN Own,
         \A k \in Trades : scheduled'[k] = scheduled[k] \/ Owed(t, k),
         UNCHANGED <<trades, rows, fixing>>
  PROVE  Answered' /\ OwedOnce'
<1>1. Answered'
  BY DEF IInv, Answered, First, OrderOf
<1>2. ASSUME NEW u \in Persisters, NEW k \in Trades, Owed(u, k)'
      PROVE  u # t /\ Owed(u, k) /\ scheduled'[k] = scheduled[k]
  <2>1. u # t
    BY <1>2 DEF Owed
  <2>2. Owed(u, k)
    BY <1>2, <2>1 DEF Owed, First
  <2>3. ~Owed(t, k)
    BY <2>1, <2>2 DEF IInv, OwedOnce
  <2> QED
    BY <2>1, <2>2, <2>3
<1>3. OwedOnce'
  BY <1>2 DEF IInv, OwedOnce
<1> QED
  BY <1>1, <1>3

(* Asked settles the answer as the code hands the query to the database.   *)
LEMMA AskedStep ==
  ASSUME Typed, NEW t \in Persisters, NEW ks \in SUBSET Executed, Asked(t, ks)
  PROVE  /\ pc' \in [Persisters -> Phases]
         /\ todo' \in [Persisters -> SUBSET Executed] /\ DOMAIN found' = Persisters
         /\ \A u \in Persisters \ {t} :
              pc'[u] = pc[u] /\ todo'[u] = todo[u] /\ found'[u] = found[u]
         /\ pc'[t] # "insert"
         /\ found'[t] \in {0, 1}
         /\ \A k \in Trades :
              First(todo'[t], k) /\ found'[t] = 1 => OrderOf(k) \in DOMAIN Own
<1>1. /\ pc' \in [Persisters -> Phases]
      /\ todo' \in [Persisters -> SUBSET Executed] /\ DOMAIN found' = Persisters
  BY DEF Asked, Typed, Phases
<1>2. \A u \in Persisters \ {t} :
        pc'[u] = pc[u] /\ todo'[u] = todo[u] /\ found'[u] = found[u]
  BY DEF Asked, Typed
<1>3. /\ pc'[t] # "insert" /\ todo'[t] = ks
      /\ found'[t] = IF \E k \in ks : First(ks, k) /\ Known(k) THEN 1 ELSE 0
  BY DEF Asked, Typed
<1>4. ASSUME NEW k \in Trades, First(todo'[t], k), found'[t] = 1
      PROVE  OrderOf(k) \in DOMAIN Own
  <2>1. PICK j \in ks : First(ks, j) /\ Known(j)
    BY <1>3, <1>4
  <2>2. j = k
    BY <2>1, <1>3, <1>4, Shape, FirstOne
  <2> QED
    BY <2>1, <2>2 DEF Known
<1> QED
  BY <1>1, <1>2, <1>3, <1>4

(* An action of the exchange that executes nothing, or of a task that is   *)
(* not persisting a row, leaves the rest of the invariant as it is.        *)
LEMMA BooksFrame ==
  ASSUME Recorded, AttributionKept, Unscheduled, FixedOnce, Books,
         UNCHANGED <<trades, rows, remembered, fixing, profit, past>>
  PROVE  Recorded' /\ AttributionKept' /\ Unscheduled' /\ FixedOnce' /\ Books'
<1>1. Executed' = Executed /\ Stored' = Stored
  BY DEF Executed, Stored
<1>2. Recorded' /\ AttributionKept' /\ Unscheduled'
  BY <1>1 DEF Recorded, AttributionKept, Unscheduled, OrderOf, profit, past
<1>3. FixedOnce' /\ Books'
  BY <1>1 DEF FixedOnce, Books, Profit, OrderOf, TimeOf, profit, past
<1> QED
  BY <1>2, <1>3

LEMMA TasksFrame ==
  ASSUME Answered, OwedOnce, UNCHANGED <<trades, rows, tasks, fixing, scheduled>>
  PROVE  Answered' /\ OwedOnce'
<1>1. Answered'
  BY DEF Answered, First, OrderOf, tasks
<1>2. OwedOnce'
  BY DEF OwedOnce, Owed, First, tasks
<1> QED
  BY <1>1, <1>2

LEMMA Quiet ==
  ASSUME IInv,
         \/ \E o \in DOMAIN Own : SaveOrder(o)
         \/ Tick
         \/ \E m \in wire : Lose(m)
         \/ UNCHANGED vars
  PROVE  IInv'
<1>0. /\ wire \subseteq wire /\ now \in 0..MaxTime
      /\ own \in [DOMAIN Own -> {"sent", "saved", "lost"}]
  BY DEF IInv, Typed
<1>1. UNCHANGED <<trades, rows, remembered, tasks, fixing, profit, past>>
  BY DEF SaveOrder, Tick, Lose, vars, exchange
<1>2. /\ wire' \subseteq wire /\ own' \in [DOMAIN Own -> {"sent", "saved", "lost"}]
      /\ now' \in 0..MaxTime
  <2>1. CASE \E o \in DOMAIN Own : SaveOrder(o)
    BY <2>1, <1>0 DEF SaveOrder
  <2>2. CASE Tick
    BY <2>2, <1>0, FillSyncAssumption DEF Tick
  <2>3. CASE \E m \in wire : Lose(m)
    BY <2>3, <1>0 DEF Lose, exchange
  <2>4. CASE UNCHANGED vars
    BY <2>4, <1>0 DEF vars, exchange
  <2> QED
    BY <2>1, <2>2, <2>3, <2>4
<1>3. Typed'
  BY <1>1, <1>2 DEF IInv, Typed, Executed, tasks, profit, past
<1> QED
  BY <1>1, <1>3, BooksFrame, TasksFrame DEF IInv, past

LEMMA Catching ==
  ASSUME IInv, NEW t \in Persisters,
         \/ CatchUp(t) \/ FetchFails(t) \/ Fetched(t) \/ Mark(t) \/ Filter(t)
         \/ DatabaseFails(t)
  PROVE  IInv'
<1>1. UNCHANGED <<now, trades, own, wire, rows, remembered, fixing, profit, past>>
  BY DEF CatchUp, FetchFails, Fetched, Mark, Filter, DatabaseFails, exchange
<1>2. CASE ~Filter(t)
  <2>1. /\ pc' \in [Persisters -> Phases]
        /\ todo' \in [Persisters -> SUBSET Executed] /\ DOMAIN found' = Persisters
    BY <1>2 DEF CatchUp, FetchFails, Fetched, Mark, DatabaseFails, IInv, Typed, Phases
  <2>2. /\ \A u \in Persisters \ {t} :
             pc'[u] = pc[u] /\ todo'[u] = todo[u] /\ found'[u] = found[u]
        /\ pc'[t] \notin {"insert", "select"}
    BY <1>2 DEF CatchUp, FetchFails, Fetched, Mark, DatabaseFails, IInv, Typed
  <2>3. Answered' /\ OwedOnce'
    BY <1>1, <2>2, TaskStep DEF past
  <2>4. Typed'
    BY <1>1, <2>1 DEF IInv, Typed, Executed, profit, past
  <2> QED
    BY <1>1, <2>3, <2>4, BooksFrame DEF IInv
<1>3. CASE Filter(t)
  <2> DEFINE ks == {k \in todo[t] : TimeOf(k) > Since(found[t], todo[t])}
  <2>1. ks \in SUBSET Executed /\ Asked(t, ks)
    BY <1>3 DEF Filter, IInv, Typed
  <2> HIDE DEF ks
  <2>2. Answered' /\ OwedOnce'
    BY <1>1, <2>1, AskedStep, TaskStep DEF IInv, past
  <2>3. Typed'
    BY <1>1, <2>1, AskedStep DEF IInv, Typed, Executed, profit, past
  <2> QED
    BY <1>1, <2>2, <2>3, BooksFrame DEF IInv
<1> QED
  BY <1>2, <1>3

-----------------------------------------------------------------------------
LEMMA Appended ==
  ASSUME NEW T, NEW s \in Seq(T), NEW e \in T
  PROVE  /\ Append(s, e) \in Seq(T) /\ Len(s) \in Nat /\ Len(Append(s, e)) = Len(s) + 1
         /\ DOMAIN s = 1..Len(s) /\ DOMAIN Append(s, e) = 1..(Len(s) + 1)
         /\ \A k \in 1..Len(s) : Append(s, e)[k] = s[k]
  OBVIOUS

(* The exchange executes an order: a trade no row speaks of yet.           *)
LEMMA Traded ==
  ASSUME IInv, NEW o \in Orders, Trade(o)
  PROVE  IInv'
<1> DEFINE T == [order : Orders, time : 0..MaxTime]
           e == [order |-> o, time |-> now]
<1>1. trades \in Seq(T) /\ trades' = Append(trades, e) /\ Len(trades) < MaxTrades
  BY DEF IInv, Typed, Trade
<1>2. e \in T
  BY DEF IInv, Typed
<1> HIDE DEF T, e
<1>3. /\ Executed = 1..Len(trades) /\ Executed' = 1..(Len(trades) + 1)
      /\ trades' \in Seq(T) /\ Len(trades) \in Nat /\ Len(trades') = Len(trades) + 1
      /\ \A k \in Executed : trades'[k] = trades[k]
  BY <1>1, <1>2, Appended DEF Executed
<1>4. Executed \subseteq Executed' /\ Len(trades) + 1 \in Executed'
  BY <1>3
<1>5. UNCHANGED <<now, own, rows, remembered, tasks, fixing, profit, past>>
  BY DEF Trade
<1>6. \A k \in Executed : OrderOf(k)' = OrderOf(k) /\ TimeOf(k)' = TimeOf(k)
  BY <1>3 DEF OrderOf, TimeOf
<1>7. wire' \subseteq Executed' \cup Triggered
  BY <1>4 DEF IInv, Typed, Trade
<1>8. Typed'
  <2>1. trades' \in Seq([order : Orders, time : 0..MaxTime]) /\ Len(trades') <= MaxTrades
    BY <1>1, <1>3, FillSyncAssumption DEF T
  <2>2. todo' \in [Persisters -> SUBSET Executed']
    BY <1>4, <1>5 DEF IInv, Typed, tasks
  <2> QED
    BY <1>5, <1>7, <2>1, <2>2 DEF IInv, Typed, tasks, profit, past
<1>9. Stored' = Stored
  <2>1. Executed' \subseteq Trades
    BY <1>1, <1>3, FillSyncAssumption DEF Trades
  <2>2. \A k \in Executed' : rows[k] # None => k \in Executed
    BY <2>1 DEF IInv, Recorded
  <2> QED
    BY <1>4, <1>5, <2>2 DEF Stored
<1>10. Recorded' /\ AttributionKept' /\ Unscheduled'
  BY <1>4, <1>5, <1>6, <1>9
     DEF IInv, Recorded, AttributionKept, Unscheduled, Stored, profit, past
<1>11. Answered'
  <2> SUFFICES ASSUME NEW t \in Persisters, pc[t] = "select",
                      NEW k \in Trades, First(todo[t], k), found[t] = 1
               PROVE  OrderOf(k)' \in DOMAIN Own
    BY <1>5 DEF IInv, Answered, tasks, First
  <2>1. k \in Executed
    BY DEF IInv, Typed, First
  <2> QED
    BY <1>6, <2>1 DEF IInv, Answered
<1>12. OwedOnce'
  BY <1>5 DEF IInv, OwedOnce, Owed, First, tasks, past
<1>13. FixedOnce' /\ Books'
  BY <1>4, <1>5, <1>6 DEF IInv, FixedOnce, Books, Profit, profit, past
<1> QED
  BY <1>8, <1>10, <1>11, <1>12, <1>13 DEF IInv

-----------------------------------------------------------------------------
LEMMA Delivered ==
  ASSUME IInv, NEW k \in Trades, DeliverTrade(k)
  PROVE  IInv'
<1>1. UNCHANGED <<now, trades, own, rows, remembered, fixing, profit, past>>
  BY DEF DeliverTrade, exchange
<1>2. k \in Persisters /\ {k} \in SUBSET Executed /\ wire' \subseteq wire /\ Asked(k, {k})
  BY Shape DEF DeliverTrade, Persisters, IInv, Typed
<1>3. Answered' /\ OwedOnce'
  BY <1>1, <1>2, AskedStep, TaskStep DEF IInv, past
<1>4. Typed'
  BY <1>1, <1>2, AskedStep DEF IInv, Typed, Executed, profit, past
<1> QED
  BY <1>1, <1>3, <1>4, BooksFrame DEF IInv

LEMMA Scheduled ==
  ASSUME Typed, Recorded, NEW k \in Trades, Schedule(k), rows[k] \in Row, scheduled[k] = 0
  PROVE  /\ scheduled' \in [Trades -> {0, 1}] /\ backfill' \in [Trades -> 0..2]
         /\ \A j \in Trades : backfill'[j] > 0 => rows[j] \in Row
         /\ \A j \in Trades \ {k} : scheduled'[j] = scheduled[j]
<1>1. scheduled \in [Trades -> {0, 1}] /\ scheduled' = [scheduled EXCEPT ![k] = 0 + 1]
  BY DEF Typed, Schedule
<1>2. backfill \in [Trades -> 0..2] /\ backfill' = [backfill EXCEPT ![k] = 2]
  BY DEF Typed, Schedule
<1>3. \A j \in Trades : j # k => backfill'[j] = backfill[j]
  BY <1>2
<1>4. \A j \in Trades : backfill'[j] > 0 => rows[j] \in Row
  BY <1>3 DEF Recorded
<1> QED
  BY <1>1, <1>2, <1>4

(* The row of the trade that is due is scheduled by the task it is owed by. *)
LEMMA Finished ==
  ASSUME IInv, NEW t \in Persisters, Finish(t)
  PROVE  IInv'
<1>1. PICK k \in todo[t] :
        /\ First(todo[t], k)
        /\ IF found[t] = 1 THEN Schedule(k) ELSE UNCHANGED <<backfill, scheduled>>
        /\ Asked(t, todo[t] \ {k})
  BY DEF Finish
<1>2. /\ UNCHANGED <<now, trades, own, wire, rows, remembered, fixing, consumed, booked>>
      /\ UNCHANGED <<lapsed, restarts>> /\ pc[t] = "insert"
  BY DEF Finish, exchange
<1>3. k \in Executed /\ k \in Trades /\ todo[t] \ {k} \in SUBSET Executed
  BY Shape DEF IInv, Typed
<1>4. \A j \in Trades : scheduled'[j] = scheduled[j] \/ (j = k /\ Owed(t, k))
  BY <1>1, <1>2, <1>3 DEF Schedule, Owed, IInv, Typed
<1>5. Answered' /\ OwedOnce'
  BY <1>1, <1>2, <1>3, <1>4, AskedStep, TaskStep DEF IInv
<1>6. Owed(t, k) => /\ rows[k] \in Row /\ rows[k].source \in Closes /\ scheduled[k] = 0
                    /\ \A o \in Triggered : fixing[o].last # k
  BY <1>3 DEF IInv, OwedOnce
<1>7. /\ scheduled' \in [Trades -> {0, 1}] /\ backfill' \in [Trades -> 0..2]
      /\ \A j \in Trades : backfill'[j] > 0 => rows[j] \in Row
  <2>1. CASE found[t] = 1
    BY <2>1, <1>1, <1>2, <1>3, <1>6, Scheduled DEF Owed, IInv
  <2>2. CASE found[t] # 1
    BY <2>2, <1>1 DEF IInv, Typed, Recorded
  <2> QED
    BY <2>1, <2>2
<1>8. Typed'
  BY <1>1, <1>2, <1>3, <1>7, AskedStep DEF IInv, Typed, Executed
<1>9. Executed' = Executed /\ Stored' = Stored
  BY <1>2 DEF Executed, Stored
<1>10. Recorded' /\ AttributionKept' /\ Books'
  BY <1>2, <1>7, <1>9 DEF IInv, Recorded, AttributionKept, Books, Profit, OrderOf, TimeOf
<1>11. Unscheduled'
  BY <1>2, <1>4, <1>6, FillSyncAssumption DEF IInv, Unscheduled, Closes
<1>12. FixedOnce'
  BY <1>2, <1>4, <1>6, <1>9 DEF IInv, FixedOnce, OrderOf
<1> QED
  BY <1>5, <1>8, <1>10, <1>11, <1>12 DEF IInv

-----------------------------------------------------------------------------
(* The only step that inserts: the task that inserts is owed the backfill. *)
LEMMA Inserted ==
  ASSUME IInv, NEW t \in Persisters, Insert(t)
  PROVE  IInv'
<1>1. PICK k \in todo[t] :
        /\ First(todo[t], k)
        /\ \/ /\ rows[k] = None
              /\ rows' = [rows EXCEPT ![k] = [source |-> SourceOf(k, found[t]), pnl |-> None]]
              /\ found' = [found EXCEPT ![t] = IF SourceOf(k, found[t]) \in Closes THEN 1 ELSE 0]
           \/ /\ rows[k] # None
              /\ found' = [found EXCEPT ![t] = 0]
              /\ UNCHANGED rows
  BY DEF Insert
<1>2. /\ UNCHANGED <<now, trades, own, wire, remembered, todo, fixing, profit, past>>
      /\ pc[t] = "select" /\ pc' = [pc EXCEPT ![t] = "insert"]
  BY DEF Insert, exchange
<1>3. k \in Executed /\ k \in Trades /\ OrderOf(k) \in Orders
  BY Shape DEF IInv, Typed
<1>4. found[t] \in {0, 1} /\ (found[t] = 1 => OrderOf(k) \in DOMAIN Own)
  BY <1>1, <1>2, <1>3 DEF IInv, Answered
<1> DEFINE src == SourceOf(k, found[t])
           row == [source |-> src, pnl |-> None]
<1>5. /\ src \in Sources
      /\ OrderOf(k) \in remembered["auto"] \cup remembered["liquidation"] => src # "unknown"
  <2>1. CASE found[t] = 1
    <3>1. src = Own[OrderOf(k)]
      BY <2>1 DEF SourceOf
    <3>2. OrderOf(k) \notin Triggered
      BY <1>4, <2>1, Shape DEF IInv
    <3> QED
      BY <1>4, <2>1, <3>1, <3>2, FillSyncAssumption DEF Sources, Closes, IInv, Typed
  <2>2. CASE found[t] = 0
    BY <2>2 DEF SourceOf, Sources, Closes
  <2> QED
    BY <1>4, <2>1, <2>2
<1>6. row \in Row /\ row.source = src /\ row.pnl = None /\ row # None
  BY <1>5, FillSyncAssumption DEF Row
<1> HIDE DEF src, row
<1>7. CASE rows[k] = None
  <2>1. /\ rows' = [rows EXCEPT ![k] = row]
        /\ found' = [found EXCEPT ![t] = IF src \in Closes THEN 1 ELSE 0]
    BY <1>1, <1>7 DEF src, row
  <2>2. rows'[k] = row /\ \A j \in Trades \ {k} : rows'[j] = rows[j]
    BY <1>3, <2>1 DEF IInv, Typed
  <2>3. Typed'
    BY <1>2, <1>6, <2>1 DEF IInv, Typed, Executed, profit, past, Phases
  <2>4. Executed' = Executed /\ Executed \subseteq Trades
    BY <1>2, Shape DEF Executed, IInv
  <2>5. Recorded'
    BY <1>2, <1>3, <1>6, <2>2, <2>4 DEF IInv, Recorded, profit
  <2>6. Answered'
    BY <1>2, <2>1 DEF IInv, Answered, Typed, First, OrderOf
  <2>7. AttributionKept'
    BY <1>2, <1>5, <1>6, <2>2, <2>4 DEF IInv, AttributionKept, Stored, OrderOf, past
  <2>8. Unscheduled'
    BY <1>2, <1>3, <1>7, <2>2 DEF IInv, Unscheduled, past
  <2>9. OwedOnce'
    <3> SUFFICES ASSUME NEW u \in Persisters, NEW j \in Trades, Owed(u, j)'
                 PROVE  /\ rows'[j] \in Row /\ rows'[j].source \in Closes /\ scheduled[j] = 0
                        /\ \A v \in Persisters : Owed(v, j)' => v = u
                        /\ \A o \in Triggered : fixing[o].last # j
      BY <1>2 DEF OwedOnce, past
    <3>1. \A v \in Persisters \ {t}, i \in Trades : Owed(v, i)' => Owed(v, i)
      BY <1>2, <2>1 DEF Owed, First, IInv, Typed
    <3>2. \A v \in Persisters : ~Owed(v, k)
      BY <1>3, <1>7, FillSyncAssumption DEF IInv, OwedOnce
    <3>3. CASE u = t
      <4>1. First(todo[t], j) /\ src \in Closes
        BY <1>2, <2>1, <3>3 DEF Owed, First, IInv, Typed
      <4>2. j = k
        BY <1>1, <1>3, <4>1, FirstOne, Shape DEF IInv, Typed
      <4>3. rows'[j] \in Row /\ rows'[j].source \in Closes /\ scheduled[j] = 0
        BY <1>3, <1>6, <1>7, <2>2, <4>1, <4>2 DEF IInv, Unscheduled, past
      <4>4. \A v \in Persisters : Owed(v, j)' => v = u
        BY <3>1, <3>2, <3>3, <4>2
      <4>5. \A o \in Triggered : fixing[o].last # j
        BY <1>3, <1>7, <4>2, FillSyncAssumption DEF IInv, FixedOnce
      <4> QED
        BY <4>3, <4>4, <4>5
    <3>4. CASE u # t
      <4>1. Owed(u, j) /\ j # k
        BY <3>1, <3>2, <3>4
      <4>2. ~Owed(t, j)'
        <5> SUFFICES ASSUME Owed(t, j)' PROVE FALSE
          OBVIOUS
        <5>1. First(todo[t], j)
          BY <1>2 DEF Owed, First
        <5>2. j = k
          BY <1>1, <1>3, <5>1, FirstOne, Shape DEF IInv, Typed
        <5> QED
          BY <4>1, <5>2
      <4>3. \A v \in Persisters : Owed(v, j)' => v = u
        BY <3>1, <4>1, <4>2 DEF IInv, OwedOnce
      <4> QED
        BY <2>2, <4>1, <4>3 DEF IInv, OwedOnce
    <3> QED
      BY <3>3, <3>4
  <2>10. FixedOnce'
    <3>1. \A o \in Triggered : k \notin fixing[o].rows /\ fixing[o].last # k
      BY <1>3, <1>7, FillSyncAssumption DEF IInv, FixedOnce
    <3>2. \A o \in Triggered : \A j \in fixing[o].rows : j \in Trades \ {k}
      BY <3>1 DEF IInv, Typed
    <3>3. \A o \in Triggered : \A j \in Trades : fixing[o].last = j => j # k
      BY <3>1
    <3> QED
      BY <1>2, <2>2, <2>4, <3>2, <3>3 DEF IInv, FixedOnce, OrderOf, past
  <2>11. Books'
    <3>1. \A j \in Trades : Profit(j)' => Profit(j) /\ rows'[j] = rows[j]
      BY <1>6, <2>2 DEF Profit
    <3> QED
      BY <1>2, <2>4, <3>1 DEF IInv, Books, TimeOf, profit, past
  <2> QED
    BY <2>3, <2>5, <2>6, <2>7, <2>8, <2>9, <2>10, <2>11 DEF IInv
<1>8. CASE rows[k] # None
  <2>1. UNCHANGED rows /\ found' = [found EXCEPT ![t] = 0]
    BY <1>1, <1>8
  <2>2. Typed'
    BY <1>2, <2>1 DEF IInv, Typed, Executed, profit, past, Phases
  <2>3. Answered'
    BY <1>2, <2>1 DEF IInv, Answered, Typed, First, OrderOf
  <2>4. \A u \in Persisters, j \in Trades : Owed(u, j)' => Owed(u, j)
    BY <1>2, <2>1 DEF Owed, First, IInv, Typed
  <2>5. OwedOnce'
    BY <1>2, <2>1, <2>4 DEF IInv, OwedOnce, past
  <2> QED
    BY <1>2, <2>1, <2>2, <2>3, <2>5, BooksFrame DEF IInv
<1> QED
  BY <1>7, <1>8

-----------------------------------------------------------------------------
(* A triggered order: its rows that have no source are taken in hand.      *)
LEMMA Triggers ==
  ASSUME IInv, NEW o \in Triggered, DeliverTrigger(o)
  PROVE  IInv'
<1>1. /\ UNCHANGED <<now, trades, own, rows, tasks, profit, past>>
      /\ wire' \subseteq wire
      /\ fixing' = [fixing EXCEPT ![o] = [on |-> TRUE, rows |-> Unattributed(o), last |-> None]]
  BY DEF DeliverTrigger, exchange
<1>2. \A s \in {"auto", "liquidation"} : remembered'[s] \subseteq remembered[s] \cup {o}
  BY DEF DeliverTrigger, Remember, IInv, Typed
<1>3. remembered' \in [{"auto", "liquidation"} -> SUBSET Triggered]
  BY DEF DeliverTrigger, Remember, IInv, Typed
<1>4. Executed' = Executed /\ Stored' = Stored /\ Executed \subseteq Trades
  BY <1>1, Shape DEF Executed, Stored, IInv
<1>5. /\ fixing'[o] = [on |-> TRUE, rows |-> Unattributed(o), last |-> None]
      /\ \A p \in Triggered \ {o} : fixing'[p] = fixing[p]
  BY <1>1 DEF IInv, Typed
<1>6. /\ Unattributed(o) \subseteq Trades
      /\ \A k \in Unattributed(o) :
           k \in Executed /\ rows[k] \in Row /\ rows[k].source = "unknown" /\ OrderOf(k) = o
  BY <1>4 DEF Unattributed, Stored, IInv, Typed
<1>7. fixing' \in [Triggered -> [on : BOOLEAN, rows : SUBSET Trades, last : Trades \cup {None}]]
  BY <1>1, <1>6 DEF IInv, Typed
<1>8. Typed'
  BY <1>1, <1>3, <1>7 DEF IInv, Typed, Executed, tasks, profit, past
<1>9. Recorded' /\ Unscheduled' /\ Books' /\ Answered'
  BY <1>1, <1>4
     DEF IInv, Recorded, Unscheduled, Books, Profit, Answered, OrderOf, TimeOf, First, tasks,
         profit, past
<1>10. AttributionKept'
  <2> SUFFICES ASSUME NEW k \in Stored,
                      OrderOf(k) \in remembered'["auto"] \cup remembered'["liquidation"],
                      rows[k].source = "unknown", k \notin lapsed
               PROVE  k \in fixing'[OrderOf(k)].rows
    BY <1>1, <1>4 DEF AttributionKept, OrderOf, past
  <2>1. CASE OrderOf(k) = o
    BY <2>1, <1>5 DEF Unattributed
  <2>2. CASE OrderOf(k) # o
    <3>1. OrderOf(k) \in remembered["auto"] \cup remembered["liquidation"]
      BY <2>2, <1>2
    <3>2. OrderOf(k) \in Triggered \ {o}
      BY <2>2, <3>1 DEF IInv, Typed
    <3> QED
      BY <3>1, <3>2, <1>5 DEF IInv, AttributionKept
  <2> QED
    BY <2>1, <2>2
<1>11. \A p \in Triggered, k \in Trades : fixing'[p].last = k => fixing[p].last = k
  BY <1>5, FillSyncAssumption
<1>12. OwedOnce'
  BY <1>1, <1>11 DEF IInv, OwedOnce, Owed, First, tasks, past
<1>13. FixedOnce'
  BY <1>1, <1>4, <1>5, <1>6, <1>11 DEF IInv, FixedOnce, OrderOf, past
<1> QED
  BY <1>8, <1>9, <1>10, <1>12, <1>13 DEF IInv

(* A record found for a row has not been given to another one.             *)
LEMMA Backfilled ==
  ASSUME IInv, NEW k \in Trades, Backfill(k)
  PROVE  IInv'
<1>1. /\ UNCHANGED <<now, trades, own, wire, remembered, tasks, fixing, past>>
      /\ backfill[k] > 0
  BY DEF Backfill, exchange
<1>2. rows[k] \in Row /\ k \in Executed
  BY <1>1, FillSyncAssumption DEF IInv, Recorded
<1>3. CASE /\ backfill'[k] < backfill[k] /\ backfill' \in [Trades -> 0..2]
           /\ \A j \in Trades \ {k} : backfill'[j] = backfill[j]
           /\ UNCHANGED <<rows, booked>> /\ consumed \subseteq consumed'
  <2>1. Executed' = Executed /\ Stored' = Stored
    BY <1>1, <1>3 DEF Executed, Stored
  <2>2. /\ backfill' \in [Trades -> 0..2]
        /\ \A j \in Trades : backfill'[j] > 0 => backfill[j] > 0
    BY <1>1, <1>3 DEF IInv, Typed
  <2>3. Typed'
    BY <1>1, <1>3, <2>2 DEF IInv, Typed, Executed, tasks, past
  <2>4. Recorded'
    BY <1>3, <2>1, <2>2 DEF IInv, Recorded
  <2>5. Answered' /\ OwedOnce'
    BY <1>1, <1>3, TasksFrame DEF IInv, past
  <2>6. AttributionKept' /\ Unscheduled' /\ FixedOnce' /\ Books'
    BY <1>1, <1>3, <2>1
       DEF IInv, AttributionKept, Unscheduled, FixedOnce, Books, Profit, OrderOf, TimeOf, past
  <2> QED
    BY <2>3, <2>4, <2>5, <2>6 DEF IInv
<1>4. ASSUME NEW r \in Executed, TimeOf(r) \notin consumed,
             Consume(r), rows' = [rows EXCEPT ![k].pnl = r],
             booked' = [booked EXCEPT ![k] = restarts],
             backfill' = [backfill EXCEPT ![k] = 0]
      PROVE  IInv'
  <2>1. /\ rows'[k] = [rows[k] EXCEPT !.pnl = r]
        /\ \A j \in Trades \ {k} : rows'[j] = rows[j]
    BY <1>4 DEF IInv, Typed
  <2>2. r \in Trades /\ Executed' = Executed /\ Executed \subseteq Trades
    BY <1>1, <1>4, Shape DEF IInv, Executed
  <2>3. rows'[k] \in Row /\ rows'[k].source = rows[k].source /\ rows'[k].pnl = r
    BY <1>2, <2>1, <2>2 DEF Row
  <2>4. rows[k] # None /\ rows'[k] # None
    BY <1>2, <2>3, FillSyncAssumption
  <2>5. \A j \in Trades : /\ rows'[j] \in Row <=> rows[j] \in Row
                          /\ rows'[j] = None <=> rows[j] = None
                          /\ rows'[j].source = rows[j].source
    BY <1>2, <2>1, <2>3, <2>4
  <2>6. Stored' = Stored
    BY <2>2, <2>5 DEF Stored
  <2>7. /\ backfill' \in [Trades -> 0..2]
        /\ \A j \in Trades : backfill'[j] > 0 => backfill[j] > 0
    BY <1>4 DEF IInv, Typed
  <2>8. Typed'
    <3>1. rows' \in [Trades -> Row \cup {None}]
      BY <1>4, <2>1, <2>3 DEF IInv, Typed
    <3> QED
      BY <1>1, <1>4, <2>7, <3>1 DEF IInv, Typed, Executed, tasks, past
  <2>9. Recorded'
    BY <2>2, <2>5, <2>7 DEF IInv, Recorded
  <2>10. Answered'
    BY <1>1 DEF IInv, Answered, First, OrderOf, tasks
  <2>11. AttributionKept' /\ Unscheduled'
    BY <1>1, <2>2, <2>5, <2>6 DEF IInv, AttributionKept, Unscheduled, OrderOf, Stored, past
  <2>12. OwedOnce'
    BY <1>1, <2>5 DEF IInv, OwedOnce, Owed, First, tasks, past
  <2>13. FixedOnce'
    <3>1. ASSUME NEW o \in Triggered, NEW j \in fixing[o].rows
          PROVE  j \in Executed /\ rows'[j] \in Row /\ rows'[j].source = "unknown" /\ OrderOf(j) = o
      <4>1. j \in Executed /\ rows[j] \in Row /\ rows[j].source = "unknown" /\ OrderOf(j) = o
        BY <3>1 DEF IInv, FixedOnce
      <4> QED
        BY <4>1, <2>2, <2>5
    <3>2. ASSUME NEW o \in Triggered, NEW j \in Trades, fixing[o].last = j
          PROVE  /\ j \in Executed /\ rows'[j] \in Row /\ rows'[j].source # "unknown"
                 /\ OrderOf(j) = o /\ scheduled[j] = 0
      BY <3>2, <2>5 DEF IInv, FixedOnce
    <3> QED
      BY <1>1, <2>2, <3>1, <3>2 DEF FixedOnce, OrderOf, past
  <2>14. booked'[k] = restarts /\ \A j \in Trades \ {k} : booked'[j] = booked[j]
    BY <1>4 DEF IInv, Typed
  <2>15. \A j \in Trades : Profit(j) /\ rows[j].pnl = r => booked[j] # restarts
    BY <1>4 DEF IInv, Books
  <2>16. \A j \in Trades \ {k} : Profit(j)' <=> Profit(j)
    BY <2>1 DEF Profit
  <2>17. /\ restarts' = restarts /\ consumed' = consumed \cup {TimeOf(r)}
         /\ \A j \in Executed : TimeOf(j)' = TimeOf(j)
    BY <1>1, <1>4 DEF past, Consume, TimeOf
  <2>18. ASSUME NEW j \in Trades, Profit(j)'
         PROVE  /\ rows'[j].pnl \in Executed'
                /\ booked'[j] = restarts' => TimeOf(rows[j].pnl)' \in consumed'
    <3>1. CASE j = k
      BY <3>1, <2>2, <2>3, <2>17 DEF TimeOf
    <3>2. CASE j # k
      <4>1. Profit(j) /\ rows'[j] = rows[j] /\ booked'[j] = booked[j]
        BY <3>2, <2>1, <2>14, <2>16, <2>18
      <4> QED
        BY <4>1, <2>2, <2>17 DEF IInv, Books, TimeOf
    <3> QED
      BY <3>1, <3>2
  <2>19. ASSUME NEW i \in Trades, NEW j \in Trades, i # j, Profit(i)', Profit(j)',
                rows'[i].pnl = rows'[j].pnl
         PROVE  booked'[i] # booked'[j]
    <3>1. CASE i = k
      BY <3>1, <2>1, <2>3, <2>14, <2>15, <2>16, <2>19
    <3>2. CASE j = k
      BY <3>2, <2>1, <2>3, <2>14, <2>15, <2>16, <2>19
    <3>3. CASE i # k /\ j # k
      BY <3>3, <2>1, <2>14, <2>16, <2>19 DEF IInv, Books
    <3> QED
      BY <3>1, <3>2, <3>3
  <2>20. Books'
    <3>1. \A j \in Trades : Profit(j)' =>
            /\ rows'[j].pnl \in Executed'
            /\ booked'[j] = restarts' => TimeOf(rows[j].pnl)' \in consumed'
      BY <2>18
    <3>2. \A i, j \in Trades :
            i # j /\ Profit(i)' /\ Profit(j)' /\ rows'[i].pnl = rows'[j].pnl
              => booked'[i] # booked'[j]
      BY <2>19
    <3> QED
      BY <3>1, <3>2 DEF Books
  <2> QED
    BY <2>8, <2>9, <2>10, <2>11, <2>12, <2>13, <2>20 DEF IInv
<1>5. ASSUME NEW seen \in SUBSET {r \in Executed : Closing(r)},
             NEW r \in Nearest(k, Candidates(k, seen))
      PROVE  r \in Executed /\ TimeOf(r) \notin consumed
  BY <1>5 DEF Nearest, Candidates
<1>6. /\ [backfill EXCEPT ![k] = @ - 1] \in [Trades -> 0..2]
      /\ [backfill EXCEPT ![k] = 0] \in [Trades -> 0..2]
      /\ [backfill EXCEPT ![k] = @ - 1][k] < backfill[k]
      /\ [backfill EXCEPT ![k] = 0][k] < backfill[k]
      /\ \A j \in Trades \ {k} : /\ [backfill EXCEPT ![k] = @ - 1][j] = backfill[j]
                                /\ [backfill EXCEPT ![k] = 0][j] = backfill[j]
  BY <1>1 DEF IInv, Typed
<1>7. \A r \in Executed : Consume(r) => consumed \subseteq consumed'
  BY DEF Consume
<1> QED
  BY <1>3, <1>4, <1>5, <1>6, <1>7 DEF Backfill

-----------------------------------------------------------------------------
(* _reattribute: the row it updated is scheduled, the next one gets its    *)
(* source, or the database fails and the task ends.                        *)
LEMMA Fixed ==
  ASSUME IInv, NEW o \in Triggered, FixStep(o) \/ FixFails(o)
  PROVE  IInv'
<1> DEFINE last == fixing[o].last
<1>1. /\ UNCHANGED <<now, trades, own, wire, remembered, tasks, consumed, booked, restarts>>
      /\ UNCHANGED <<backfill, scheduled>> \/ (last # None /\ Schedule(last))
  BY DEF FixStep, FixFails, exchange
<1>2. Executed' = Executed /\ Executed \subseteq Trades
  BY <1>1, Shape DEF Executed, IInv
<1>3. last \in Trades \cup {None}
  BY DEF IInv, Typed
<1>4. last \in Trades =>
        /\ rows[last] \in Row /\ rows[last].source # "unknown" /\ rows[last] # None
        /\ OrderOf(last) = o /\ scheduled[last] = 0
  BY FillSyncAssumption DEF IInv, FixedOnce
<1>5. /\ scheduled' \in [Trades -> {0, 1}] /\ backfill' \in [Trades -> 0..2]
      /\ \A j \in Trades : backfill'[j] > 0 => rows[j] \in Row
      /\ \A j \in Trades : j # last => scheduled'[j] = scheduled[j]
  <2>1. CASE UNCHANGED <<backfill, scheduled>>
    BY <2>1 DEF IInv, Typed, Recorded
  <2>2. CASE last # None /\ Schedule(last)
    BY <2>2, <1>3, <1>4, Scheduled DEF IInv
  <2> QED
    BY <2>1, <2>2, <1>1
<1> HIDE DEF last
<1>6. \A t \in Persisters, j \in Trades : Owed(t, j) => j # last
  BY DEF IInv, OwedOnce, last
<1>7. \A t \in Persisters, j \in Trades : Owed(t, j)' <=> Owed(t, j)
  BY <1>1 DEF Owed, First, tasks
<1>8. Answered'
  BY <1>1 DEF IInv, Answered, First, OrderOf, tasks
<1>9. CASE /\ UNCHANGED rows /\ fixing' = [fixing EXCEPT ![o] = Idle]
           /\ lapsed' = lapsed \cup fixing[o].rows
  <2>1. fixing'[o] = Idle /\ \A p \in Triggered \ {o} : fixing'[p] = fixing[p]
    BY <1>9 DEF IInv, Typed
  <2>2. Stored' = Stored
    BY <1>2, <1>9 DEF Stored
  <2>3. Typed'
    BY <1>1, <1>5, <1>9 DEF IInv, Typed, Executed, Idle, tasks
  <2>4. Recorded'
    BY <1>2, <1>5, <1>9 DEF IInv, Recorded
  <2>5. AttributionKept'
    BY <1>1, <1>9, <2>1, <2>2, Shape DEF IInv, AttributionKept, OrderOf, Typed
  <2>6. Unscheduled'
    BY <1>4, <1>5, <1>9 DEF IInv, Unscheduled
  <2>7. \A p \in Triggered, j \in Trades :
          fixing'[p].last = j => fixing[p].last = j /\ p # o
    BY <2>1, FillSyncAssumption DEF Idle
  <2>8. OwedOnce'
    BY <1>5, <1>6, <1>7, <1>9, <2>7 DEF IInv, OwedOnce
  <2>9. FixedOnce'
    <3>1. ASSUME NEW p \in Triggered, NEW j \in fixing'[p].rows
          PROVE  j \in Executed /\ rows[j] \in Row /\ rows[j].source = "unknown" /\ OrderOf(j) = p
      BY <3>1, <2>1 DEF IInv, FixedOnce, Idle
    <3>2. ASSUME NEW p \in Triggered, NEW j \in Trades, fixing'[p].last = j
          PROVE  /\ j \in Executed /\ rows[j] \in Row /\ rows[j].source # "unknown"
                 /\ OrderOf(j) = p /\ scheduled'[j] = 0
      BY <3>2, <2>7, <1>4, <1>5 DEF IInv, FixedOnce
    <3> QED
      BY <1>1, <1>2, <1>9, <3>1, <3>2 DEF FixedOnce, OrderOf
  <2>10. Books'
    BY <1>1, <1>2, <1>9 DEF IInv, Books, Profit, TimeOf
  <2> QED
    BY <1>8, <2>3, <2>4, <2>5, <2>6, <2>8, <2>9, <2>10 DEF IInv
<1>10. ASSUME NEW k \in fixing[o].rows,
              rows' = [rows EXCEPT ![k].source = ClosedBy(o)],
              fixing' = [fixing EXCEPT ![o] = [on |-> TRUE, rows |-> @.rows \ {k}, last |-> k]],
              UNCHANGED lapsed
       PROVE  IInv'
  <2>1. /\ k \in Executed /\ k \in Trades /\ OrderOf(k) = o
        /\ rows[k] \in Row /\ rows[k].source = "unknown" /\ scheduled[k] = 0
    BY <1>2 DEF IInv, FixedOnce, Unscheduled
  <2>2. /\ rows'[k] = [rows[k] EXCEPT !.source = ClosedBy(o)]
        /\ \A j \in Trades \ {k} : rows'[j] = rows[j]
    BY <1>10, <2>1 DEF IInv, Typed
  <2>3. /\ rows'[k] \in Row /\ rows'[k].source = ClosedBy(o) /\ rows'[k].pnl = rows[k].pnl
        /\ ClosedBy(o) # "unknown" /\ rows'[k] # None /\ rows[k] # None
    BY <2>1, <2>2, FillSyncAssumption DEF Row, ClosedBy, Sources, Closes
  <2>4. /\ fixing'[o] = [on |-> TRUE, rows |-> fixing[o].rows \ {k}, last |-> k]
        /\ \A p \in Triggered \ {o} : fixing'[p] = fixing[p]
    BY <1>10 DEF IInv, Typed
  <2>5. Stored' = Stored
    BY <1>2, <2>2, <2>3 DEF Stored
  <2>6. k # last /\ scheduled'[k] = 0
    BY <1>4, <1>5, <2>1
  <2>7. \A t \in Persisters : ~Owed(t, k)
    BY <2>1 DEF IInv, OwedOnce, Closes
  <2>8. Typed'
    <3>1. rows' \in [Trades -> Row \cup {None}]
      BY <1>10, <2>1, <2>2, <2>3 DEF IInv, Typed
    <3>2. fixing' \in [Triggered -> [on : BOOLEAN, rows : SUBSET Trades, last : Trades \cup {None}]]
      BY <1>10, <2>1 DEF IInv, Typed
    <3> QED
      BY <1>1, <1>5, <3>1, <3>2 DEF IInv, Typed, Executed, tasks
  <2>9. Recorded'
    BY <1>2, <1>5, <2>1, <2>2, <2>3 DEF IInv, Recorded
  <2>10. AttributionKept'
    <3> SUFFICES ASSUME NEW j \in Stored,
                        OrderOf(j) \in remembered["auto"] \cup remembered["liquidation"],
                        rows'[j].source = "unknown", j \notin lapsed
                 PROVE  j \in fixing'[OrderOf(j)].rows
      BY <1>1, <1>10, <2>5 DEF AttributionKept, OrderOf
    <3>1. j # k /\ j \in Trades /\ OrderOf(j) \in Triggered
      BY <1>2, <2>3 DEF Stored, IInv, Typed
    <3>2. j \in fixing[OrderOf(j)].rows
      BY <2>2, <3>1 DEF IInv, AttributionKept
    <3> QED
      BY <2>4, <3>1, <3>2
  <2>11. Unscheduled'
    BY <1>4, <1>5, <2>2, <2>3 DEF IInv, Unscheduled
  <2>12. OwedOnce'
    <3> SUFFICES ASSUME NEW t \in Persisters, NEW j \in Trades, Owed(t, j)
                 PROVE  /\ rows'[j] \in Row /\ rows'[j].source \in Closes /\ scheduled'[j] = 0
                        /\ \A u \in Persisters : Owed(u, j) => u = t
                        /\ \A p \in Triggered : fixing'[p].last # j
      BY <1>7 DEF OwedOnce
    <3>1. j # k /\ j # last
      BY <1>6, <2>7
    <3> QED
      BY <1>5, <2>2, <2>4, <3>1 DEF IInv, OwedOnce
  <2>13. FixedOnce'
    <3>1. ASSUME NEW p \in Triggered, NEW j \in fixing'[p].rows
          PROVE  j \in Executed /\ rows'[j] \in Row /\ rows'[j].source = "unknown" /\ OrderOf(j) = p
      <4>1. j \in fixing[p].rows /\ j # k
        BY <3>1, <2>1, <2>4 DEF IInv, FixedOnce
      <4> QED
        BY <4>1, <1>2, <2>2 DEF IInv, FixedOnce
    <3>2. ASSUME NEW p \in Triggered, NEW j \in Trades, fixing'[p].last = j
          PROVE  /\ j \in Executed /\ rows'[j] \in Row /\ rows'[j].source # "unknown"
                 /\ OrderOf(j) = p /\ scheduled'[j] = 0
      <4>1. CASE p = o
        BY <4>1, <3>2, <2>1, <2>3, <2>4, <2>6
      <4>2. CASE p # o
        <5>1. fixing[p].last = j /\ OrderOf(j) = p
          BY <4>2, <3>2, <2>4 DEF IInv, FixedOnce
        <5>2. j # k /\ j # last
          BY <4>2, <5>1, <2>1, <1>4
        <5> QED
          BY <5>1, <5>2, <1>5, <2>2 DEF IInv, FixedOnce
      <4> QED
        BY <4>1, <4>2
    <3> QED
      BY <1>1, <1>2, <3>1, <3>2 DEF FixedOnce, OrderOf
  <2>14. Books'
    <3>1. \A j \in Trades : (Profit(j)' <=> Profit(j)) /\ rows'[j].pnl = rows[j].pnl
      BY <2>1, <2>2, <2>3 DEF Profit
    <3> QED
      BY <1>1, <1>2, <3>1 DEF IInv, Books, TimeOf
  <2> QED
    BY <1>8, <2>8, <2>9, <2>10, <2>11, <2>12, <2>13, <2>14 DEF IInv
<1> QED
  BY <1>9, <1>10 DEF FixStep, FixFails

(* A new process: it has consumed nothing, and no row is booked by it.     *)
LEMMA Restarted ==
  ASSUME IInv, Restart
  PROVE  IInv'
<1>1. /\ Executed' = Executed /\ Stored' = Stored
      /\ UNCHANGED <<now, trades, rows, scheduled, booked>> /\ restarts' = restarts + 1
  BY DEF Restart, Executed, Stored
<1>2. restarts \in Nat /\ booked \in [Trades -> 0..restarts]
  BY DEF IInv, Typed
<1>3. restarts' \in Nat /\ booked' \in [Trades -> 0..restarts']
  BY <1>1, <1>2
<1>4. Typed'
  BY <1>1, <1>3 DEF IInv, Typed, Restart, Idle, Phases
<1>5. Recorded' /\ Answered' /\ AttributionKept' /\ Unscheduled'
  BY <1>1 DEF IInv, Typed, Restart, Recorded, Answered, AttributionKept, Unscheduled
<1>6. OwedOnce' /\ FixedOnce'
  BY <1>1, FillSyncAssumption DEF Restart, OwedOnce, Owed, FixedOnce, Idle
<1>7. \A k \in Trades : booked'[k] # restarts'
  BY <1>1, <1>2
<1>8. Books'
  BY <1>1, <1>7 DEF IInv, Books, Profit
<1> QED
  BY <1>4, <1>5, <1>6, <1>8 DEF IInv

-----------------------------------------------------------------------------
LEMMA Inductive == IInv /\ [Next]_vars => IInv'
<1> SUFFICES ASSUME IInv, [Next]_vars PROVE IInv'
  OBVIOUS
<1>1. Catchers \subseteq Persisters
  BY DEF Persisters
<1>2. CASE \E o \in DOMAIN Own : SaveOrder(o)
  BY <1>2, Quiet
<1>3. CASE \E o \in Orders : Trade(o)
  BY <1>3, Traded
<1>4. CASE Tick \/ UNCHANGED vars
  BY <1>4, Quiet
<1>5. CASE Restart
  BY <1>5, Restarted
<1>6. CASE \E k \in Trades : DeliverTrade(k) \/ Backfill(k)
  BY <1>6, Delivered, Backfilled
<1>7. CASE \E m \in wire : Lose(m)
  BY <1>7, Quiet
<1>8. CASE \E o \in Triggered : DeliverTrigger(o) \/ FixStep(o) \/ FixFails(o)
  BY <1>8, Triggers, Fixed
<1>9. CASE \E t \in Catchers : CatchUp(t) \/ FetchFails(t)
  BY <1>1, <1>9, Catching
<1>10. CASE \E t \in Persisters : Steps(t) \/ DatabaseFails(t)
  BY <1>10, Catching, Inserted, Finished DEF Steps
<1> QED
  BY <1>2, <1>3, <1>4, <1>5, <1>6, <1>7, <1>8, <1>9, <1>10 DEF Next

(* handle_auto_order and handle_liquidation against _persist: whatever is  *)
(* pushed and persisted in whatever order, a row of a remembered order has *)
(* its source, or the task that sets it has the row in its hands or was    *)
(* ended by a failure of the database.                                     *)
THEOREM AttributionHolds == Spec => []AttributionKept
<1>1. IInv => AttributionKept
  BY DEF IInv
<1> QED
  BY <1>1, Started, Inductive, PTL DEF Spec

(* _schedule_pnl_backfill and _match_position_close: one backfill at most  *)
(* is ever scheduled for a row, and no two rows are given one record by    *)
(* one process.                                                            *)
THEOREM BookedOnceHolds == Spec => []PnlBookedOnce
<1>1. IInv => PnlBookedOnce
  <2> SUFFICES ASSUME IInv PROVE PnlBookedOnce
    OBVIOUS
  <2>1. \A k \in Trades : scheduled[k] \in {0, 1}
    BY DEF IInv, Typed
  <2>2. \A k \in Trades : scheduled[k] <= 1
    BY <2>1
  <2>3. ASSUME NEW k \in Stored, rows[k].pnl # None
        PROVE  k \in Trades /\ Profit(k)
    BY <2>3, Shape DEF Stored, Profit, IInv, Typed
  <2>4. ASSUME NEW j \in Stored, NEW k \in Stored, j # k, rows[k].pnl # None,
               rows[j].pnl = rows[k].pnl
        PROVE  booked[j] # booked[k]
    BY <2>3, <2>4 DEF IInv, Books
  <2> QED
    BY <2>2, <2>4 DEF PnlBookedOnce
<1> QED
  BY <1>1, Started, Inductive, PTL DEF Spec

=============================================================================
