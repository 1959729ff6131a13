------------------------------- MODULE Served -------------------------------
(***************************************************************************)
(* Two services that others wait for, for any constants: the serial        *)
(* executor of gateway calls (GatewayIO) and the market data with their    *)
(* watchdog (MarketFeed).  They have no state in common: they stand side   *)
(* by side here.                                                           *)
(***************************************************************************)
EXTENDS GatewayIO

CONSTANTS
  Keys, Rejected, Start, Depth, Multiplier,  \* of MarketFeed
  MaxNow, MaxWire, MaxFaults

(* The process starts while some bar is forming, and the cache keeps bars. *)
ASSUME FeedAssumption == Start \in Nat \ {0} /\ Depth \in Nat \ {0}

VARIABLES now, bars, feed, wire, todo, fetching, faults, spoiled, torn
feedVars == <<now, bars, feed, wire, todo, fetching, faults, spoiled, torn>>

Feed == INSTANCE MarketFeed

(* The bars of a key have no hole unless a close was lost with the         *)
(* connection, or handled while the backfill's REST call was under way.    *)
TornOnlyByLoss == Feed!TornOnlyByLoss
=============================================================================
