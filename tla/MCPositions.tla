----------------------------- MODULE MCPositions -----------------------------
(* Small instances of what changes a position (Positions): the books of    *)
(* the simulated account, the replacement of a protection at a network     *)
(* gateway, and the write transaction of opening orders: on a network      *)
(* gateway with manual closes and an amendment, or with a leverage that    *)
(* others change too and an operator who moves the risk lock, and on the   *)
(* simulated gateway.                                                      *)
(* The modules have no state in common, so a behaviour is of one of them:  *)
(* "part" says which.  The positions whose protection is replaced are long,*)
(* and ("turned") of both directions under smaller bounds.                 *)
EXTENDS Positions, TLC

VARIABLE part
swapVars == <<pos, orders, upd, faults, had, base, moved>>
tradeVars ==
  <<exposure, resting, ver, leverage, late, epoch, reset, kill, locked, shut, reopened, holder, pc,
    round, want, half, seen, epoch0, reset0, modified, tries, interrupted, stale, foreign, adrift>>

SmallSizes == {-2, -1, 1}
FundRates == {-10, 10}
BothSides == {1, -1}

Long == INSTANCE Protection WITH
  Directions <- {1},
  Levels <- StopLevels, Entries <- EntryPrices, Limit <- RiskLimit
Turned == INSTANCE Protection WITH
  MaxIds <- MaxIds - 1, MaxFaults <- MaxFaults - 1,
  Levels <- StopLevels, Entries <- EntryPrices, Limit <- RiskLimit

(* Trade is the network gateway with manual closes.                        *)
Outside == INSTANCE TradeWrite WITH
  Amenders <- {}, MaxCloses <- 0, External <- TRUE, OperatorMoves <- BOOLEAN,
  MaxResets <- AccountResets, pos <- exposure, lev <- leverage
Simulated == INSTANCE TradeWrite WITH
  MaxCloses <- 0, MaxResets <- 1, Remote <- FALSE, OperatorMoves <- {TRUE},
  pos <- exposure, lev <- leverage

(* The parts that are not chosen stay in one initial state.                *)
Lowest == \A c \in Contracts :
  (\A l \in Leverages : lev[c] <= l) /\ (\A p \in Prices : mark[c] <= p)

SumInit ==
  /\ part \in {"books", "swap", "turned", "network", "outside", "simulated"}
  /\ Init /\ Swap!Init /\ Trade!Init
  /\ part # "books" => Lowest
  /\ part \in {"books", "swap", "turned"} => exposure = 0 /\ \A e \in Entries : want[e] = leverage
SumNext ==
  \/ part = "books" /\ Next /\ UNCHANGED <<part, swapVars, tradeVars>>
  \/ part = "swap" /\ Long!Next /\ UNCHANGED <<part, vars, tradeVars>>
  \/ part = "turned" /\ Turned!Next /\ UNCHANGED <<part, vars, tradeVars>>
  \/ part = "network" /\ Trade!Next /\ UNCHANGED <<part, vars, swapVars>>
  \/ part = "outside" /\ Outside!Next /\ UNCHANGED <<part, vars, swapVars>>
  \/ part = "simulated" /\ Simulated!Next /\ UNCHANGED <<part, vars, swapVars>>
SumSpec == SumInit /\ [][SumNext]_<<part, vars, swapVars, tradeVars>>

(* Leverage states, and calls, are only told apart.                        *)
Symmetry == Permutations(Levels) \cup Permutations(Entries)
=============================================================================
