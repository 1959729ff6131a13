----------------------------- MODULE MCSimulated -----------------------------
(* A small instance of the simulated exchange.  Its halves have no state   *)
(* in common, so a behaviour is one of the one or of the other: "part"     *)
(* says which.                                                             *)
EXTENDS SimulatedExchange, TLC

VARIABLE part

(* A quote with a spread around 2, and quotes without one at 1 and at 3.   *)
Quote(p) == [mark |-> p, bid |-> p, ask |-> p]
SpreadSnaps == {[mark |-> 2, bid |-> 1, ask |-> 3], Quote(1), Quote(3)}
TwoSizes == {-2, 1}

engineVars == <<pos, snap, book, results, tpsl, tick, fillCount, overshot>>

SumInit == part \in {"fills", "engine"} /\ Init /\ Engine!Init
SumNext ==
  \/ part = "fills" /\ Next /\ UNCHANGED <<part, engineVars>>
  \/ part = "engine" /\ Engine!Next /\ UNCHANGED <<part, vars>>
SumSpec == SumInit /\ [][SumNext]_<<part, vars, engineVars>>

OrderSymmetry == Permutations(OrderIds)
=============================================================================
