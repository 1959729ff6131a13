---------------------------- MODULE PaperEngine ----------------------------
(***************************************************************************)
(* The matching engine of the simulated exchange (paper/engine.py): the    *)
(* resting orders, their listed results, the stop-loss / take-profit       *)
(* orders and the position of every contract.                              *)
(*                                                                         *)
(* The engine's methods run inline on the event loop and never suspend, so *)
(* an order request is one action.  on_price scans the book, and is the    *)
(* sequence of steps Tick, MatchOne ..., TriggerTpsl, CheckLiquidation;    *)
(* `tick' holds where it is, and nothing else happens until it is done.    *)
(*                                                                         *)
(* Money is the subject of PaperAccount: here a fill that opens exposure   *)
(* may raise INSUFFICIENT_BALANCE, and a position may be found liquidable, *)
(* whenever a balance exists for which it would.                           *)
(***************************************************************************)
EXTENDS Integers, FiniteSets, Sequences, SequencesExt

CONSTANTS
  Contracts,
  OrderIds,    \* pool of the uuids an order may get; none is used twice
  Snaps,       \* market snapshots [mark, bid, ask] that on_price may inject
  Sizes,       \* signed order sizes
  Prices,      \* limit, stop and target prices
  TakeProfits, \* take-profit prices of the requests, None among them
  None

VARIABLES
  pos,       \* account.positions[c].size, 0 when there is none
  snap,      \* _snaps
  book,      \* _open, in insertion order
  results,   \* _results: what list_orders shows
  tpsl,      \* _tpsl
  tick,      \* where on_price is: its phase, contract and orders to scan
  fillCount, \* history: fills per order id
  overshot   \* history: a reduce-only order carried the position through zero

vars == <<pos, snap, book, results, tpsl, tick, fillCount, overshot>>

Order == [id : OrderIds, contract : Contracts, size : Sizes, price : Prices,
          ro : BOOLEAN, sl : Prices \cup {None}, tp : Prices \cup {None}]
Listed == [status : {"open", "finished", "removed"}, size : Int, price : Int]
Tpsl == [contract : Contracts, direction : {-1, 1},
         kind : {"stop_loss", "take_profit"}, trigger : Prices]
Idle == [phase |-> "idle", contract |-> None, queue |-> <<>>]

Finished == [status |-> "finished", size |-> 0, price |-> 0]
Removed  == [status |-> "removed", size |-> 0, price |-> 0]

TypeOK ==
  /\ pos \in [Contracts -> Int]
  /\ snap \in [Contracts -> Snaps \cup {None}]
  /\ book \in Seq(Order)
  /\ results \in [OrderIds -> Listed \cup {None}]
  /\ tpsl \subseteq Tpsl
  /\ tick.phase \in {"idle", "match", "tpsl", "liquidation"}
  /\ tick.contract \in Contracts \cup {None} /\ tick.queue \in Seq(OrderIds)
  /\ fillCount \in [OrderIds -> Nat] /\ overshot \in [Contracts -> BOOLEAN]

Init ==
  /\ pos = [c \in Contracts |-> 0] /\ snap = [c \in Contracts |-> None]
  /\ book = <<>> /\ results = [i \in OrderIds |-> None] /\ tpsl = {}
  /\ tick = Idle
  /\ fillCount = [i \in OrderIds |-> 0] /\ overshot = [c \in Contracts |-> FALSE]

-----------------------------------------------------------------------------
Sign(n) == IF n > 0 THEN 1 ELSE -1
Abs(n) == IF n < 0 THEN -n ELSE n

OrdersOf(c) == {o \in ToSet(book) : o.contract = c}
IdsOf(c) == {o.id : o \in OrdersOf(c)}

(* The book without the orders of `ids', in the order it has.              *)
Drop(ids) ==
  LET kept[n \in 0..Len(book)] ==
        IF n = 0 THEN <<>>
        ELSE IF book[n].id \in ids THEN kept[n - 1] ELSE Append(kept[n - 1], book[n])
  IN kept[Len(book)]

(* _crossed: the price reaches the other side of the book.                 *)
Crossed(o) ==
  /\ snap[o.contract] # None
  /\ \/ o.size > 0 /\ o.price >= snap[o.contract].ask
     \/ o.size < 0 /\ o.price <= snap[o.contract].bid

IsReducing(c, size) == pos[c] # 0 /\ Sign(pos[c]) # Sign(size)

(* Only a fill that opens exposure, flips included, needs balance.         *)
MayLackBalance(c, size) == ~(IsReducing(c, size) /\ Abs(size) <= Abs(pos[c]))

TpslGroup(c, direction, sl, tp) ==
  {[contract |-> c, direction |-> direction, kind |-> "stop_loss", trigger |-> sl]}
  \cup {[contract |-> c, direction |-> direction, kind |-> "take_profit", trigger |-> t] :
          t \in {tp} \ {None}}

(* _apply_tpsl on the protection `kept', for the direction of the position *)
(* that the fill has left; an order without a stop leaves it alone.        *)
ApplyTpsl(kept, c, direction, sl, tp) ==
  IF sl = None THEN kept
  ELSE {t \in kept : t.contract # c \/ t.direction # direction}
         \cup TpslGroup(c, direction, sl, tp)

(* _clear_stale_tpsl for a position of the given direction.                *)
ClearStaleTpslNone(c, direction) == tpsl \* mutant: not called on a flip

ClearStaleTpsl(c, direction) ==
  {t \in tpsl : t.contract # c \/ t.direction = direction}

(* _cancel_contract_orders, after `gone' has left the book.                *)
Clear(c, gone) ==
  /\ book' = Drop(IdsOf(c) \cup gone)
  /\ results' = [i \in OrderIds |->
                   IF i \in IdsOf(c) \cup gone THEN Finished ELSE results[i]]
  /\ tpsl' = {t \in tpsl : t.contract # c}

(* _execute, then _apply_tpsl with the order's own stop and target.        *)
Execute(id, c, size, ro, sl, tp) ==
  LET after == pos[c] + size IN
  /\ pos' = [pos EXCEPT ![c] = after]
  /\ fillCount' = [fillCount EXCEPT ![id] = @ + 1]
  /\ overshot' = [overshot EXCEPT
       ![c] = after # 0 /\ (@ \/ (ro /\ pos[c] # 0 /\ Sign(after) # Sign(pos[c])))
                /\ sl = None]
  /\ \/ after = 0 /\ Clear(c, {id})
     \/ /\ after # 0
        /\ book' = Drop({id})
        /\ results' = [results EXCEPT ![id] = Finished]
        /\ tpsl' = ApplyTpsl(ClearStaleTpsl(c, Sign(after)), c, Sign(after), sl, tp)

-----------------------------------------------------------------------------
(* Requests.  A request that raises before any write changes nothing and   *)
(* is not a step.  The tools send exposure orders with a stop, reductions  *)
(* (reduce-only, without one) and close orders.                            *)
Fresh(id) == tick = Idle /\ results[id] = None

Request(c, size, ro, sl) ==
  IF ro THEN IsReducing(c, size) /\ sl = None ELSE sl # None

PlaceMarket(id, c, size, ro, sl, tp) ==
  /\ Fresh(id) /\ Request(c, size, ro, sl) /\ snap[c] # None
  /\ Execute(id, c, size, ro, sl, tp)
  /\ UNCHANGED <<snap, tick>>

PlaceLimit(id, c, size, price, ro, sl, tp, ioc) ==
  LET o == [id |-> id, contract |-> c, size |-> size, price |-> price,
            ro |-> ro, sl |-> sl, tp |-> tp]
  IN
  /\ Fresh(id) /\ Request(c, size, ro, sl)
  /\ \/ /\ Crossed(o)
        /\ Execute(id, c, size, ro, sl, tp)
     \/ /\ ~Crossed(o) /\ ioc
        /\ results' = [results EXCEPT ![id] = Finished]
        /\ UNCHANGED <<pos, book, tpsl, fillCount, overshot>>
     \/ /\ ~Crossed(o) /\ ~ioc
        /\ book' = Append(book, o)
        /\ results' = [results EXCEPT
             ![id] = [status |-> "open", size |-> size, price |-> price]]
        /\ UNCHANGED <<pos, tpsl, fillCount, overshot>>
  /\ UNCHANGED <<snap, tick>>

(* _close_all, the manual and the model's full close at market.            *)
CloseAll(id, c) ==
  /\ Fresh(id)
  /\ \/ /\ pos[c] = 0
        /\ results' = [results EXCEPT ![id] = Finished]
        /\ UNCHANGED <<pos, book, tpsl, fillCount, overshot>>
     \/ /\ pos[c] # 0 /\ snap[c] # None
        /\ Execute(id, c, -pos[c], FALSE, None, None)
  /\ UNCHANGED <<snap, tick>>

(* amend_order with a new price (the only change the tool may ask for).    *)
(* The order is rewritten first; if it now crosses and the balance is      *)
(* short, the exception leaves it rewritten.                               *)
Amended(i, price) == [book EXCEPT ![i].price = price]

AmendOrder(i, price) ==
  LET o == [book[i] EXCEPT !.price = price] IN
  /\ tick = Idle
  /\ \/ /\ Crossed(o)
        /\ Execute(o.id, o.contract, o.size, o.ro, o.sl, o.tp)
     \/ /\ Crossed(o) /\ MayLackBalance(o.contract, o.size)
        /\ book' = Amended(i, price)
        /\ UNCHANGED <<pos, results, tpsl, fillCount, overshot>>
     \/ /\ ~Crossed(o)
        /\ book' = Amended(i, price)
        /\ results' = [results EXCEPT ![o.id].size = o.size, ![o.id].price = price]
        /\ UNCHANGED <<pos, tpsl, fillCount, overshot>>
  /\ UNCHANGED <<snap, tick>>

CancelOrder(i) ==
  /\ tick = Idle
  /\ results' = [results EXCEPT ![book[i].id] = Finished]
  /\ book' = Drop({book[i].id})
  /\ UNCHANGED <<pos, snap, tpsl, tick, fillCount, overshot>>

(* The tool's _swap_tpsl_group runs inline on the paper gateway: the new   *)
(* group is created and the old one of that direction cancelled.           *)
UpdateTpsl(c, sl, tp) ==
  /\ tick = Idle /\ pos[c] # 0
  /\ tpsl' = ApplyTpsl(tpsl, c, Sign(pos[c]), sl, tp)
  /\ overshot' = [overshot EXCEPT ![c] = FALSE]
  /\ UNCHANGED <<pos, snap, book, results, tick, fillCount>>

(* reset_account: open results disappear, snapshots stay.                  *)
ResetAccount ==
  /\ tick = Idle
  /\ pos' = [c \in Contracts |-> 0] /\ book' = <<>> /\ tpsl' = {}
  /\ results' = [i \in OrderIds |->
       IF results[i] # None /\ results[i].status = "open" THEN Removed ELSE results[i]]
  /\ overshot' = [c \in Contracts |-> FALSE]
  /\ UNCHANGED <<snap, tick, fillCount>>

-----------------------------------------------------------------------------
(* on_price.                                                               *)
Tick(c, s) ==
  /\ tick = Idle
  /\ snap' = [snap EXCEPT ![c] = s]
  /\ tick' = [phase |-> "match", contract |-> c,
              queue |-> [i \in 1..Len(book) |-> book[i].id]]
  /\ UNCHANGED <<pos, book, results, tpsl, fillCount, overshot>>

(* One turn of the loop in _match_resting over the snapshot of the book.   *)
MatchOne ==
  /\ tick.phase = "match" /\ tick.queue # <<>>
  /\ tick' = [tick EXCEPT !.queue = Tail(@)]
  /\ LET mine == {o \in OrdersOf(tick.contract) : o.id = Head(tick.queue) /\ Crossed(o)}
     IN
     \/ /\ mine = {}
        /\ UNCHANGED <<pos, book, results, tpsl, fillCount, overshot>>
     \/ \E o \in mine :
          \/ /\ o.ro /\ ~IsReducing(o.contract, o.size)
             /\ results' = [results EXCEPT ![o.id] = Finished]
             /\ book' = Drop({o.id})
             /\ UNCHANGED <<pos, tpsl, fillCount, overshot>>
          \/ /\ o.ro => IsReducing(o.contract, o.size)
             /\ Execute(o.id, o.contract, o.size, o.ro, o.sl, o.tp)
          \/ /\ o.ro => IsReducing(o.contract, o.size)
             /\ MayLackBalance(o.contract, o.size)
             /\ results' = [results EXCEPT ![o.id] = Finished]
             /\ book' = Drop({o.id})
             /\ UNCHANGED <<pos, tpsl, fillCount, overshot>>
  /\ UNCHANGED snap

MatchDone ==
  /\ tick.phase = "match" /\ tick.queue = <<>>
  /\ tick' = [tick EXCEPT !.phase = "tpsl"]
  /\ UNCHANGED <<pos, snap, book, results, tpsl, fillCount, overshot>>

(* The protection of the position's own direction that the mark has hit.   *)
TriggeredPast(c) == \* mutant: strict comparisons
  {t \in tpsl :
     /\ t.contract = c /\ pos[c] # 0 /\ t.direction = Sign(pos[c])
     /\ \/ t.kind = "stop_loss" /\ t.direction * (t.trigger - snap[c].mark) > 0
        \/ t.kind = "take_profit" /\ t.direction * (snap[c].mark - t.trigger) > 0}

Triggered(c) ==
  {t \in tpsl :
     /\ t.contract = c /\ pos[c] # 0 /\ t.direction = Sign(pos[c])
     /\ \/ t.kind = "stop_loss" /\ t.direction * (t.trigger - snap[c].mark) >= 0
        \/ t.kind = "take_profit" /\ t.direction * (snap[c].mark - t.trigger) >= 0}

Flatten(c) ==
  /\ pos' = [pos EXCEPT ![c] = 0]
  /\ overshot' = [overshot EXCEPT ![c] = FALSE]
  /\ Clear(c, {})
  /\ UNCHANGED fillCount

TriggerTpsl ==
  /\ tick.phase = "tpsl"
  /\ tick' = [tick EXCEPT !.phase = "liquidation"]
  /\ \/ Triggered(tick.contract) # {} /\ Flatten(tick.contract)
     \/ /\ Triggered(tick.contract) = {}
        /\ UNCHANGED <<pos, book, results, tpsl, fillCount, overshot>>
  /\ UNCHANGED snap

CheckLiquidation ==
  /\ tick.phase = "liquidation"
  /\ tick' = Idle
  /\ \/ pos[tick.contract] # 0 /\ Flatten(tick.contract)
     \/ UNCHANGED <<pos, book, results, tpsl, fillCount, overshot>>
  /\ UNCHANGED snap

-----------------------------------------------------------------------------
Stops == Prices \cup {None}

Next ==
  \/ \E id \in OrderIds, c \in Contracts, n \in Sizes, ro \in BOOLEAN, sl \in Stops,
        tp \in TakeProfits : PlaceMarket(id, c, n, ro, sl, tp)
  \/ \E id \in OrderIds, c \in Contracts, n \in Sizes, p \in Prices, ro, ioc \in BOOLEAN,
        sl \in Stops, tp \in TakeProfits : PlaceLimit(id, c, n, p, ro, sl, tp, ioc)
  \/ \E id \in OrderIds, c \in Contracts : CloseAll(id, c)
  \/ \E i \in DOMAIN book, p \in Prices : AmendOrder(i, p)
  \/ \E i \in DOMAIN book : CancelOrder(i)
  \/ \E c \in Contracts, sl \in Prices, tp \in TakeProfits : UpdateTpsl(c, sl, tp)
  \/ ResetAccount
  \/ \E c \in Contracts, s \in Snaps : Tick(c, s)
  \/ MatchOne
  \/ MatchDone
  \/ TriggerTpsl
  \/ CheckLiquidation

Spec == Init /\ [][Next]_vars

-----------------------------------------------------------------------------
(* Properties.                                                             *)

(* Protection always belongs to the position that is there: a flip or a    *)
(* close never leaves a stop of the other side behind, for the next        *)
(* position to inherit.                                                    *)
TpslMatchesPosition ==
  \A t \in tpsl : pos[t.contract] # 0 /\ t.direction = Sign(pos[t.contract])

(* Every exposure order carries a stop, and no sequence of partial         *)
(* reductions, flips, amendments and replacements of the protection leaves *)
(* the position without one, except an oversized reduce-only order.        *)
NoNakedPosition ==
  \A c \in Contracts : pos[c] # 0 =>
    \/ \E t \in tpsl : t.contract = c /\ t.kind = "stop_loss"
    \/ overshot[c]

(* What the engine may fill is what list_orders("open") shows: no ghost    *)
(* orders, and none that is hidden from the account.                       *)
OpenIffListed ==
  {o.id : o \in ToSet(book)} =
    {i \in OrderIds : results[i] # None /\ results[i].status = "open"}

(* What the engine has on its books: orders as they are listed, and a      *)
(* protection that fits the position.                                      *)
BookHolds == TpslMatchesPosition /\ NoNakedPosition /\ OpenIffListed

(* An order that was filled or cancelled stays so: a scan that runs over a *)
(* stale snapshot of the book never fills it a second time.                *)
FinishedIsFinal ==
  [][\A i \in OrderIds :
        results[i] # None /\ results[i].status # "open" =>
          results'[i] = results[i] /\ fillCount'[i] = fillCount[i]]_vars

(* Once a tick has been processed no resting order of that contract        *)
(* crosses the new snapshot, and no stop that the mark has passed is still *)
(* waiting on an open position.                                            *)
TickSettles ==
  [][tick # Idle /\ tick' = Idle =>
       LET c == tick.contract IN
       /\ \A o \in ToSet(book') : o.contract = c => ~Crossed(o)
       /\ pos'[c] # 0 =>
            \A t \in tpsl' : t.contract = c /\ t.kind = "stop_loss" =>
               t.direction * (t.trigger - snap[c].mark) < 0]_vars

(* What a tick does to the orders: each at most once, and all that is due. *)
ScansSettle == FinishedIsFinal /\ TickSettles
=============================================================================
