----------------------------- MODULE Protection -----------------------------
(***************************************************************************)
(* update_tpsl on a network gateway (agent/tool_tpsl.py, tool_tpsl_risk.py *)
(* and the trigger orders of gateway/gate_rest.py): the stop of a whole    *)
(* position is assessed against the risk limit, and then the group of      *)
(* protection orders is replaced call by call, each of which may succeed,  *)
(* be refused, or time out with its effect unknown.                        *)
(*                                                                         *)
(* Between any two calls the exchange goes on: orders fill, stops fire,    *)
(* positions are closed and opened.  Its part is modelled from what the    *)
(* code expects of it: a trigger order closes the whole position, and none *)
(* outlives its position.  One contract; prices are levels on a grid, the  *)
(* multiplier is 1 and the limit a number (equity does not move).          *)
(***************************************************************************)
EXTENDS Integers, Sequences, FiniteSets, FiniteSetsExt

CONSTANTS
  Levels,     \* prices of stops
  Entries,    \* average prices of positions
  Directions, \* subset of {1, -1}
  MaxSize,    \* bound: contracts in a position
  MaxIds,     \* bound: trigger orders at a time
  Limit,      \* max_position_stop_risk_pct of the equity
  MaxFaults   \* bound: refused or unanswered calls

VARIABLES
  pos,      \* the position at the exchange
  orders,   \* its trigger orders at the exchange
  upd,      \* the tool call in progress
  faults,
  had,      \* history: the position had a stop before the call in progress
  base,     \* history: the orders when the replacement began
  moved     \* history: the exchange has acted since then

vars == <<pos, orders, upd, faults, had, base, moved>>
world == <<pos, orders>>
past == <<had, base, moved>>

Flat == [size |-> 0, dir |-> 1, entry |-> 0]
Order(id, kind, price) == [id |-> id, kind |-> kind, price |-> price]
Stop(id, price) == Order(id, "stop_loss", price)
Target(id) == Order(id, "take_profit", 0)
Stops(os) == {o \in os : o.kind = "stop_loss"}

Idle ==
  [at |-> "idle", read |-> Flat, group |-> {}, wanted |-> <<>>,
   old |-> {}, created |-> {}, failed |-> FALSE]

(* An id that no order has that the call knows.                            *)
FreeIds ==
  (1..MaxIds) \ {o.id : o \in orders \cup upd.group \cup upd.old \cup upd.created \cup base}

Init ==
  /\ pos = Flat /\ orders = {} /\ upd = Idle /\ faults = 0
  /\ had = FALSE /\ base = {} /\ moved = FALSE

-----------------------------------------------------------------------------
(* planned_stop_loss: the loss from the entry to the stop, none in profit. *)
Risk(p, stop) ==
  LET distance == IF p.dir > 0 THEN p.entry - stop ELSE stop - p.entry
  IN Max({0, distance}) * p.size

(* effective_current_stop: of several stops the one that fires first.      *)
EffectiveStop(os, dir) ==
  LET prices == {o.price : o \in Stops(os)}
  IN IF dir > 0 THEN Max(prices) ELSE Min(prices)

(* stop_update_rejection, and the rule that holds when the contract cannot *)
(* be queried: then a first stop, or one that does not widen.              *)
Permitted(p, os, stop, degraded) ==
  \/ Stops(os) = {}
  \/ LET current == Risk(p, EffectiveStop(os, p.dir))
     IN IF degraded THEN Risk(p, stop) <= current
        ELSE Risk(p, stop) <= Limit \/ Risk(p, stop) < current

-----------------------------------------------------------------------------
Swapping == {"protection", "create", "rollback"}
Outcomes ==
  {"ok", "create_failed", "create_unknown", "cancel_partial", "cancel_unknown"}

(* What the exchange does at any time.  An order that opens or adds brings *)
(* its stop; a position without one was opened by hand.                    *)
Exchange(p, os) ==
  /\ pos' = p /\ orders' = os
  /\ moved' = (upd.at \in Swapping \cup Outcomes)
  /\ had' = (p.size # 0 /\ (had \/ Stops(os) \ upd.created # {}))
  /\ UNCHANGED <<upd, faults, base>>

Attached ==
  {{}} \cup (IF FreeIds = {} THEN {}
             ELSE {{Stop(Min(FreeIds), s)} : s \in Levels})

PositionOpens ==
  /\ pos = Flat
  /\ \E d \in Directions, e \in Entries, os \in Attached :
       Exchange([size |-> 1, dir |-> d, entry |-> e], os)

OrderAdds ==
  /\ pos.size \in 1..(MaxSize - 1)
  /\ \E e \in Entries, os \in Attached :
       Exchange([pos EXCEPT !.size = @ + 1, !.entry = e], orders \cup os)

PositionReduces ==
  /\ pos.size > 1
  /\ Exchange([pos EXCEPT !.size = @ - 1], orders)

(* A stop or target fires, a liquidation, a manual close.                  *)
PositionCloses == pos.size > 0 /\ Exchange(Flat, {})

-----------------------------------------------------------------------------
(* The tool: positions, then trigger orders, are read on the event loop.   *)
ReadPosition ==
  /\ upd.at = "idle" /\ pos.size > 0
  /\ upd' = [Idle EXCEPT !.at = "orders", !.read = pos]
  /\ had' = (Stops(orders) # {})
  /\ UNCHANGED <<world, faults, base, moved>>

ReadOrders ==
  /\ upd.at = "orders"
  /\ upd' = [upd EXCEPT !.at = "assess", !.group = orders]
  /\ UNCHANGED <<world, faults, past>>

(* assess_tpsl_risk: refused, or the group that is wanted.                 *)
Assess ==
  /\ upd.at = "assess"
  /\ \E stop \in Levels, target \in BOOLEAN, degraded \in BOOLEAN :
       LET wanted == <<Stop(0, stop)>> \o (IF target THEN <<Target(0)>> ELSE <<>>)
       IN /\ degraded => faults < MaxFaults
          /\ faults' = IF degraded THEN faults + 1 ELSE faults
          /\ upd' = IF Permitted(upd.read, upd.group, stop, degraded)
                    THEN [upd EXCEPT !.at = "position", !.wanted = wanted] ELSE Idle
  /\ UNCHANGED <<world, past>>

(* _swap_tpsl_group, in the worker thread: both are read again, and        *)
(* nothing is done when one has changed.                                   *)
SameSide == pos.size > 0 /\ pos.dir = upd.read.dir \* mutant: the size may differ
SamePosition == pos.size = upd.read.size /\ pos.dir = upd.read.dir

RecheckPosition ==
  /\ upd.at = "position"
  /\ IF SamePosition
     THEN upd' = [upd EXCEPT !.at = "protection", !.read = Flat] /\ moved' = (pos.entry # upd.read.entry)
     ELSE upd' = Idle /\ UNCHANGED moved
  /\ UNCHANGED <<world, faults, had, base>>

RecheckOrders ==
  /\ upd.at = "protection"
  /\ IF orders = upd.group
     THEN /\ upd' = [upd EXCEPT !.at = "create", !.group = {}, !.old = orders]
          /\ base' = orders /\ UNCHANGED <<had, moved>>
     ELSE upd' = Idle /\ had' = FALSE /\ base' = {} /\ moved' = FALSE
  /\ UNCHANGED <<world, faults>>

(* A call: done, refused (GatewayError), or unanswered (TPSL_STATE_UNKNOWN)*)
(* with or without effect.  Refused also what cannot be done any more.     *)
Done(u, os) == upd' = u /\ orders' = os /\ UNCHANGED <<pos, faults, past>>
Refused(u) ==
  /\ faults < MaxFaults /\ faults' = faults + 1
  /\ upd' = u /\ UNCHANGED <<world, past>>
Unanswered(u, os) ==
  /\ faults < MaxFaults /\ faults' = faults + 1
  /\ upd' = u /\ orders' \in {orders, os} /\ UNCHANGED <<pos, past>>

Tell(stage) == [upd EXCEPT !.at = stage]

(* create_tpsl_order for the whole group before an old order is touched.   *)
CreateOrder ==
  /\ upd.at = "create" /\ upd.wanted # <<>> /\ FreeIds # {}
  /\ LET new == [Head(upd.wanted) EXCEPT !.id = Min(FreeIds)]
         next == [upd EXCEPT !.wanted = Tail(@), !.created = @ \cup {new}]
     IN \/ pos.size > 0 /\ Done(next, orders \cup {new})
        \/ pos.size = 0 /\ Done([upd EXCEPT !.at = "rollback"], orders)
        \/ Refused([upd EXCEPT !.at = "rollback"])
        \/ Unanswered([upd EXCEPT !.at = "create_unknown"],
                      IF pos.size > 0 THEN orders \cup {new} ELSE orders)

(* _rollback_created: the orders created so far are cancelled; a failure,  *)
(* of either kind, is remembered.                                          *)
RememberNothing(u) == u \* mutant: a failed cancellation is not reported
Remember(u) == [u EXCEPT !.failed = TRUE]

RollBack ==
  /\ upd.at = "rollback"
  /\ \/ /\ upd.created = {}
        /\ Done([upd EXCEPT !.at = "create_failed"], orders)
     \/ \E o \in upd.created :
          LET next == [upd EXCEPT !.created = @ \ {o}]
          IN \/ o \in orders /\ Done(next, orders \ {o})
             \/ o \notin orders /\ Done(Remember(next), orders)
             \/ Refused(Remember(next))
             \/ Unanswered(Remember(next), orders \ {o})

(* _cancel_old_group.                                                      *)
AllCreatedEarly == TRUE \* mutant: old orders may go before the new ones stand
AllCreated == upd.wanted = <<>>

CancelOld ==
  /\ upd.at = "create" /\ AllCreated
  /\ \/ /\ upd.old = {} /\ upd.wanted = <<>>
        /\ Done([upd EXCEPT !.at = "ok"], orders)
     \/ \E o \in upd.old :
          \/ o \in orders /\ Done([upd EXCEPT !.old = @ \ {o}], orders \ {o})
          \/ o \notin orders /\ Done([upd EXCEPT !.at = "cancel_partial"], orders)
          \/ Refused([upd EXCEPT !.at = "cancel_partial"])
          \/ Unanswered([upd EXCEPT !.at = "cancel_unknown"], orders \ {o})

(* The tool tells the model how it went, and returns.                      *)
Return ==
  /\ upd.at \in Outcomes
  /\ upd' = Idle
  /\ had' = FALSE /\ base' = {} /\ moved' = FALSE
  /\ UNCHANGED <<world, faults>>

Next ==
  \/ PositionOpens
  \/ OrderAdds
  \/ PositionReduces
  \/ PositionCloses
  \/ ReadPosition
  \/ ReadOrders
  \/ Assess
  \/ RecheckPosition
  \/ RecheckOrders
  \/ CreateOrder
  \/ RollBack
  \/ CancelOld
  \/ Return

Spec == Init /\ [][Next]_vars

-----------------------------------------------------------------------------
(* Properties.                                                             *)

(* A position that had a stop is never without one while the group is      *)
(* replaced, whatever call fails and however: tool_tpsl.py promises a      *)
(* replacement without a naked window.                                     *)
NeverBare == had /\ pos.size > 0 => Stops(orders) # {}

(* Whatever the call does to the stop, the planned loss is within the      *)
(* limit or no larger than before the call: also when failures have left   *)
(* several stops, when the contract could not be queried, and when the     *)
(* position has changed since it was assessed (not when it changes after   *)
(* the last check, which compares its size and side, not its entry).       *)
WidenedWithinLimit ==
  /\ ~moved /\ upd.at \in {"create", "rollback"} \cup Outcomes
  /\ Stops(base) # {} /\ Stops(orders) # {}
  => LET before == Risk(pos, EffectiveStop(base, pos.dir))
         after == Risk(pos, EffectiveStop(orders, pos.dir))
     IN after <= Max({before, Limit})

(* What the model is told is so, unless the exchange has acted meanwhile:  *)
(* "updated" means the wanted group and nothing else, "rolled back" the    *)
(* group before the call, "new protection set" that all of it stands, and  *)
(* "unknown" that no old order is gone.                                    *)
ToldTrue ==
  ~moved =>
    /\ upd.at = "ok" => orders = upd.created
    /\ upd.at = "create_failed" /\ ~upd.failed => orders = base
    /\ upd.at = "create_unknown" => base \subseteq orders
    /\ upd.at \in {"cancel_partial", "cancel_unknown"} => upd.created \subseteq orders
=============================================================================
