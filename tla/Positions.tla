----------------------------- MODULE Positions -----------------------------
(***************************************************************************)
(* What changes a position: the books of the simulated account             *)
(* (PaperAccount), and the agent's two tools that send several requests    *)
(* for one decision and are overtaken by others meanwhile, the write       *)
(* transaction of an opening order (TradeWrite) and the replacement of a   *)
(* position's protection (Protection), for any of their constants.  The    *)
(* agent calls one tool at a time, and each leaves to its environment what *)
(* the other and the account may do: so they stand side by side here, with *)
(* no state in common.                                                     *)
(***************************************************************************)
EXTENDS PaperAccount, FiniteSets

CONSTANTS
  Entries, Amenders, Levels, Limit, MaxCloses, AccountResets, \* of TradeWrite
  Remote, External, OperatorMoves,
  StopLevels, EntryPrices, Directions, MaxSize, MaxIds,       \* of Protection
  RiskLimit, MaxFaults,
  None

ASSUME TradeAssumption ==
  /\ Entries \cap Amenders = {} /\ None \notin Entries \cup Amenders \cup Levels
  /\ Limit \in Nat \ {0} /\ MaxCloses \in Nat /\ AccountResets \in Nat
  /\ Remote \in BOOLEAN /\ External \in BOOLEAN /\ OperatorMoves \subseteq BOOLEAN

ASSUME ProtectionAssumption ==
  /\ StopLevels \subseteq Nat \ {0} /\ IsFiniteSet(StopLevels) /\ EntryPrices \subseteq Nat
  /\ Directions \subseteq {1, -1}
  /\ MaxSize \in Nat /\ MaxIds \in Nat /\ RiskLimit \in Nat /\ MaxFaults \in Nat

VARIABLES
  exposure, resting, ver, leverage, late, epoch, reset, kill, locked, shut, reopened, holder, pc,
  round, want, half, seen, epoch0, reset0, modified, tries, interrupted, stale, foreign, adrift,
  pos, orders, upd, faults, had, base, moved

Trade == INSTANCE TradeWrite WITH
  MaxResets <- AccountResets, pos <- exposure, lev <- leverage
Swap == INSTANCE Protection WITH
  Levels <- StopLevels, Entries <- EntryPrices, Limit <- RiskLimit

-----------------------------------------------------------------------------
(* Properties of the write transaction.                                    *)

(* The limit that was checked three jobs earlier still holds when an order *)
(* is created.                                                             *)
ExposureBounded == Trade!ExposureBounded

(* An opening order or an amendment that a manual close or a reset has     *)
(* overtaken is not sent.                                                  *)
NoStaleWrite == Trade!NoStaleWrite

(* An order is created only at the leverage it was sized for; a transaction*)
(* that has touched the leverage and creates no order leaves the old       *)
(* leverage or the risk lock behind.                                       *)
LeverageHolds == Trade!LeverageHolds

(* Once a transaction of the contract has engaged the risk lock no opening *)
(* order is created there, until the operator releases it.                 *)
NoEntryUnderLock == Trade!NoEntryUnderLock

-----------------------------------------------------------------------------
(* Properties of the replacement.                                          *)

(* A position that had a stop is never without one while its protection is *)
(* replaced, whatever call fails and however.                              *)
NeverBare == Swap!NeverBare

(* What the model is told of a replacement is so, unless the exchange has  *)
(* acted meanwhile.                                                        *)
ToldTrue == Swap!ToldTrue

(* A replacement leaves a planned loss within the limit, or no larger than *)
(* before, also when failures leave several stops behind.                  *)
WidenedWithinLimit == Swap!WidenedWithinLimit
=============================================================================
