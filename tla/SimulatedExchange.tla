-------------------------- MODULE SimulatedExchange --------------------------
(***************************************************************************)
(* The two halves of the simulated exchange, for any of their constants:   *)
(* how it matches orders (PaperEngine), and what becomes of a fill that it *)
(* has made (FillPersist).  Matching runs inline and is over before a task *)
(* can take the fill out of the buffer, so the halves stand side by side,  *)
(* with no state in common.                                                *)
(***************************************************************************)
EXTENDS FillPersist, Integers

CONSTANTS Contracts, OrderIds, Snaps, Sizes, Prices, TakeProfits \* of PaperEngine

(* An order has a size, a quote has its three prices, and no price is      *)
(* missing but a stop or a target; None is none of the values it stands in *)
(* for.                                                                    *)
ASSUME EngineAssumption ==
  /\ Snaps \subseteq [mark : Int, bid : Int, ask : Int]
  /\ Sizes \subseteq Int \ {0}
  /\ Prices \subseteq Int /\ TakeProfits \subseteq Prices \cup {None}
  /\ None \notin Contracts /\ None \notin Snaps /\ None \notin Prices
  /\ None \notin [status : {"open", "finished", "removed"}, size : Int, price : Int]

VARIABLES pos, snap, book, results, tpsl, tick, fillCount, overshot

Engine == INSTANCE PaperEngine

-----------------------------------------------------------------------------
(* The orders that are listed are those that may be filled, protection     *)
(* belongs to the position that is there, and no sequence of reductions,   *)
(* reversals, amendments and replacements leaves a position without a stop.*)
BookHolds == Engine!BookHolds

(* A tick fills each order at most once, and leaves nothing due behind.    *)
ScansSettle == Engine!ScansSettle
=============================================================================
