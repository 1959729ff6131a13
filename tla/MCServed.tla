------------------------------ MODULE MCServed -------------------------------
(* Small instances of three services that go on while others wait for them *)
(* (Served): the serial executor (GatewayIO: a manual close in two         *)
(* urgent steps, an order of the agent, a read with a timeout), the market *)
(* data with their watchdog (MarketFeed: a key that REST serves and one    *)
(* that it rejects), and the safety net of the trades (FillSync: an order  *)
(* of nobody whose pushes are lost).  They have no state in common, so a   *)
(* behaviour is of one of them: "part" says which.                         *)
EXTENDS Served

CONSTANTS close, order, probe, other, start
Tasks == {close, order, probe}
TwoSteps == [c \in Tasks |-> IF c = close THEN 2 ELSE 1]

VARIABLES
  part,
  time, trades, pushes, own, rows, remembered, pc, ahead, found, fixing, backfill, consumed,
  scheduled, booked, lapsed, restarts
syncVars ==
  <<time, trades, pushes, own, rows, remembered, pc, ahead, found, fixing, backfill, consumed,
    scheduled, booked, lapsed, restarts>>

Sync == INSTANCE FillSync WITH
  Orders <- {other}, Own <- <<>>, AutoOrders <- {}, Liquidations <- {}, Catchers <- {start},
  Starter <- start, Overlap <- 1, Lookback <- 2, Limit <- 2, Before <- 1, After <- 1,
  Cap <- 1, MaxTrades <- 3, MaxTime <- 1, MaxRestarts <- 1,
  now <- time, wire <- pushes, todo <- ahead

SumNext ==
  \/ part = "executor" /\ Next /\ UNCHANGED <<part, feedVars, syncVars>>
  \/ part = "feed" /\ Feed!Next /\ UNCHANGED <<part, vars, syncVars>>
  \/ part = "sync" /\ Sync!Next /\ UNCHANGED <<part, vars, feedVars>>

(* The fairness of each part: in the others, which stay in their initial   *)
(* state, nothing that it asks for is enabled, but for the first catch-up. *)
SyncFairness ==
  /\ WF_syncVars(part = "sync" /\ (Sync!Steps(start) \/ Sync!CatchUp(start)))
  /\ SF_syncVars(part = "sync" /\ Sync!Fetched(start))
SumInit == part \in {"executor", "feed", "sync"} /\ Init /\ Feed!Init /\ Sync!Init
SumSpec ==
  /\ SumInit
  /\ [][SumNext]_<<part, vars, feedVars, syncVars>>
  /\ Fairness /\ Feed!Fairness /\ SyncFairness

(* A key that has gone stale is healed, whatever REST does with others.    *)
StaleHealed == Feed!StaleHealed

(* A trade whose push was lost is recorded in the end by the catch-ups of  *)
(* run_safety_net, unless the watermark, the page or the first look back   *)
(* has passed it, or a failure of the database has ended the safety net.   *)
RecordedUnlessOvertaken == Sync!RecordedUnlessOvertaken
=============================================================================
