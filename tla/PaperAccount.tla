---------------------------- MODULE PaperAccount ----------------------------
(***************************************************************************)
(* The money of the simulated exchange: paper/account.py with              *)
(* paper/liquidation.py, paper/funding.py and its patrol, and the margin   *)
(* transfer of set_leverage in paper/engine.py.                            *)
(*                                                                         *)
(* Amounts are integers of a small unit, and a division is rounded down    *)
(* (the code rounds at 28 digits).  Every method runs without suspension   *)
(* and is one action; the patrol looks at the positions one by one, and    *)
(* nothing happens in between.  Which orders are filled, when and at which *)
(* price is the subject of PaperEngine: here any size at any price.        *)
(***************************************************************************)
EXTENDS Integers, FiniteSetsExt

CONSTANTS
  Contracts,
  Sizes,       \* signed sizes of the fills
  Prices,      \* prices of fills and marks
  Leverages,
  FeePercent,  \* percentage of the notional taken as a fee
  MaintPercent,\* maintenance rate, as a percentage of the notional
  FundPercent, \* funding rates, as percentages
  Interval,    \* funding_interval, in patrols
  Equities,    \* equities an account starts with
  MaxFills, MaxNow, MaxResets \* bounds

ASSUME PaperAccountAssumption ==
  /\ Contracts # {} /\ Sizes \subseteq Int \ {0} /\ Prices \subseteq Nat \ {0}
  /\ Leverages \subseteq Nat \ {0} /\ Equities \subseteq Nat
  /\ FeePercent \in Nat /\ MaintPercent \in 0..99 /\ FundPercent \subseteq Int
  /\ Interval \in Nat \ {0} /\ MaxFills \in Nat /\ MaxNow \in Nat /\ MaxResets \in Nat

VARIABLES
  available, fee, funding, realized, \* available, total_fee, total_funding, total_realized
  size, entry, lev, margin,          \* the PaperPosition of each contract
  mark,        \* _snaps[c].mark
  fillSeq,     \* fill_seq
  outcome,     \* of the last order: filled, rejected
  now, settledAt, patrol, \* time in patrols, last_settled (0: none), positions still to look at
  initial, resets         \* history: initial_equity of the account, resets so far

ledger == <<available, fee, funding, realized>>
positions == <<size, entry, lev, margin>>
clock == <<now, settledAt, patrol>>
birth == <<initial, resets>>
vars == <<ledger, positions, mark, fillSeq, outcome, clock, birth>>

TypeOK ==
  /\ available \in Int /\ fee \in Nat /\ funding \in Int /\ realized \in Int
  /\ size \in [Contracts -> Int] /\ entry \in [Contracts -> Nat]
  /\ lev \in [Contracts -> Nat \ {0}] /\ margin \in [Contracts -> Nat]
  /\ mark \in [Contracts -> Nat \ {0}] /\ fillSeq \in Nat
  /\ outcome \in {"none", "filled", "rejected"}
  /\ now \in Nat /\ settledAt \in [Contracts -> Nat] /\ patrol \subseteq Contracts
  /\ initial \in Int /\ resets \in Nat

Init ==
  /\ initial \in Equities /\ available = initial
  /\ fee = 0 /\ funding = 0 /\ realized = 0
  /\ size = [c \in Contracts |-> 0] /\ entry = [c \in Contracts |-> 0]
  /\ lev \in [Contracts -> Leverages] /\ margin = [c \in Contracts |-> 0]
  /\ mark \in [Contracts -> Prices] /\ fillSeq = 0 /\ outcome = "none"
  /\ now = 1 /\ settledAt = [c \in Contracts |-> 0] /\ patrol = {} /\ resets = 0

-----------------------------------------------------------------------------
Abs(n) == IF n < 0 THEN -n ELSE n
Sign(n) == IF n > 0 THEN 1 ELSE -1
AtLeast0(n) == IF n > 0 THEN n ELSE 0

Notional(s, p) == Abs(s) * p
Fee(s, p) == (Notional(s, p) * FeePercent) \div 100
Need(c, s, p) == Notional(s, p) \div lev[c]

(* The part of an order that closes, and the part that opens.              *)
Closed(c, s) ==
  IF size[c] = 0 \/ Sign(size[c]) = Sign(s) THEN 0
  ELSE IF Abs(s) <= Abs(size[c]) THEN Abs(s) ELSE Abs(size[c])
Opened(c, s) == s - Sign(s) * Closed(c, s)

Pnl(c, n, p) == (p - entry[c]) * n * Sign(size[c])
Released(c, n) == IF n = 0 THEN 0 ELSE (margin[c] * n) \div Abs(size[c])

(* _reduce: an isolated position loses its margin at most.                 *)
Back(c, n, p) == AtLeast0(Released(c, n) + Pnl(c, n, p))
RealizedUnclipped(c, n, p) == Pnl(c, n, p) \* mutant: the balance is clipped, the total is not
Realized(c, n, p) == Back(c, n, p) - Released(c, n)

(* _preflight_flip and the test of _open.                                  *)
PreflightNoFee(c, s, p) == \* mutant: the fee is left out
  available + Back(c, Closed(c, s), p) >= Need(c, Opened(c, s), p)
Preflight(c, s, p) ==
  available + Back(c, Closed(c, s), p) >= Need(c, Opened(c, s), p) + Fee(s, p)

MayOpen(c, s, p, funds) == funds >= Need(c, Opened(c, s), p) + Fee(s, p)

Averaged(c, s, p) ==
  LET kept == Abs(size[c]) - Closed(c, s)
  IN IF Opened(c, s) = 0 THEN (IF kept = 0 THEN 0 ELSE entry[c])
     ELSE IF kept = 0 THEN p
     ELSE (entry[c] * kept + p * Abs(Opened(c, s))) \div (kept + Abs(Opened(c, s)))

(* apply_fill: close, then open; what cannot be paid raises.               *)
Rejected == outcome' = "rejected" /\ UNCHANGED <<fee, realized, fillSeq>>

Fill(c, s, p) ==
  LET n == Closed(c, s)
      rest == Opened(c, s)
      funds == available + Back(c, n, p)
  IN /\ fillSeq < MaxFills /\ patrol = {}
     /\ \/ /\ n > 0 /\ rest # 0 /\ ~Preflight(c, s, p)
           /\ Rejected /\ UNCHANGED <<available, positions>>
        \/ /\ n > 0 /\ rest # 0 => Preflight(c, s, p)
           /\ rest # 0 /\ ~MayOpen(c, s, p, funds)
           /\ Rejected
           /\ available' = funds
           /\ size' = [size EXCEPT ![c] = @ - Sign(@) * n]
           /\ margin' = [margin EXCEPT ![c] = @ - Released(c, n)]
           /\ UNCHANGED <<entry, lev>>
        \/ /\ n > 0 /\ rest # 0 => Preflight(c, s, p)
           /\ rest # 0 => MayOpen(c, s, p, funds)
           /\ outcome' = "filled" /\ fillSeq' = fillSeq + 1
           /\ available' = funds - Need(c, rest, p) - Fee(s, p)
           /\ fee' = fee + Fee(s, p)
           /\ realized' = realized + Realized(c, n, p)
           /\ size' = [size EXCEPT ![c] = @ + s]
           /\ margin' = [margin EXCEPT ![c] = (@ - Released(c, n)) + Need(c, rest, p)]
           /\ entry' = [entry EXCEPT ![c] = Averaged(c, s, p)]
           /\ UNCHANGED lev
     /\ UNCHANGED <<funding, mark, clock, birth>>

-----------------------------------------------------------------------------
(* set_leverage: the margin of an open position is worked out anew from    *)
(* its entry price, and the difference goes to or comes from the balance.  *)
Affords(delta) == delta <= 0 \/ available >= delta

SetLeverage(c, l) ==
  LET delta == Notional(size[c], entry[c]) \div l - margin[c]
  IN /\ patrol = {}
     /\ \/ /\ size[c] = 0
           /\ lev' = [lev EXCEPT ![c] = l] /\ UNCHANGED <<available, margin, outcome>>
        \/ /\ size[c] # 0 /\ Affords(delta)
           /\ available' = available - delta
           /\ margin' = [margin EXCEPT ![c] = @ + delta]
           /\ lev' = [lev EXCEPT ![c] = l] /\ UNCHANGED outcome
        \/ /\ size[c] # 0 /\ ~Affords(delta) /\ outcome' = "rejected"
           /\ UNCHANGED <<available, margin, lev>>
     /\ UNCHANGED <<fee, funding, realized, size, entry, mark, fillSeq, clock, birth>>

(* should_liquidate at the mark price m, without the division.             *)
Liquidable(c, m) ==
  /\ size[c] # 0
  /\ 100 * (margin[c] + (m - entry[c]) * size[c]) < MaintPercent * Notional(size[c], m)

(* on_price, the liquidation check at its end included; orders that a tick *)
(* fills are fills of their own before it.                                 *)
Checks(c, m) == Liquidable(c, m)

OnPrice(c, m) ==
  /\ patrol = {} /\ mark' = [mark EXCEPT ![c] = m]
  /\ IF Checks(c, m)
       THEN LET returned == AtLeast0(margin[c] + (m - entry[c]) * size[c])
            IN /\ fillSeq' = fillSeq + 1
               /\ available' = available + returned
               /\ realized' = realized + (returned - margin[c])
               /\ size' = [size EXCEPT ![c] = 0] /\ entry' = [entry EXCEPT ![c] = 0]
               /\ margin' = [margin EXCEPT ![c] = 0]
       ELSE UNCHANGED <<fillSeq, available, realized, size, entry, margin>>
  /\ UNCHANGED <<fee, funding, lev, outcome, clock, birth>>

(* estimate_liq_price as a fraction: numerator and denominator.            *)
LiqPriceSwapped(c) == \* mutant: the signs of a short are those of a long
  [num |-> AtLeast0(100 * (entry[c] * Abs(size[c]) - margin[c])),
   den |-> Abs(size[c]) * (100 - MaintPercent)]
LiqPrice(c) ==
  IF size[c] > 0
    THEN [num |-> AtLeast0(100 * (entry[c] * size[c] - margin[c])),
          den |-> size[c] * (100 - MaintPercent)]
    ELSE [num |-> AtLeast0(100 * (entry[c] * Abs(size[c]) + margin[c])),
          den |-> Abs(size[c]) * (100 + MaintPercent)]

-----------------------------------------------------------------------------
(* A minute: the patrol lists the positions, then looks at each.           *)
Minute ==
  /\ patrol = {} /\ now < MaxNow
  /\ now' = now + 1 /\ patrol' = {c \in Contracts : size[c] # 0}
  /\ UNCHANGED <<ledger, positions, mark, fillSeq, outcome, settledAt, birth>>

Boundary == now - (now % Interval)

(* settle_due_funding for one position: nothing when it is first seen, nor *)
(* before an interval has passed since the boundary last settled.          *)
Due(c) == now - settledAt[c] >= Interval

Payment(c, rate) == (rate * Abs(size[c]) * mark[c]) \div 100
FundingDelta(c, rate) == IF size[c] > 0 THEN -Payment(c, rate) ELSE Payment(c, rate)

Settle(c) ==
  /\ c \in patrol /\ patrol' = patrol \ {c}
  /\ \/ /\ settledAt[c] = 0
        /\ settledAt' = [settledAt EXCEPT ![c] = Boundary]
        /\ UNCHANGED <<available, funding>>
     \/ /\ settledAt[c] # 0 /\ ~Due(c)
        /\ UNCHANGED <<settledAt, available, funding>>
     \/ /\ settledAt[c] # 0 /\ Due(c)
        /\ \E rate \in FundPercent :
             /\ available' = available + FundingDelta(c, rate)
             /\ funding' = funding + FundingDelta(c, rate)
        /\ settledAt' = [settledAt EXCEPT ![c] = Boundary]
  /\ UNCHANGED <<fee, realized, positions, mark, fillSeq, outcome, now, birth>>

(* reset_account: a new PaperAccount; marks and watermarks stay.           *)
Reset(e, levs) ==
  /\ patrol = {} /\ resets < MaxResets /\ resets' = resets + 1
  /\ initial' = e /\ available' = e /\ fee' = 0 /\ funding' = 0 /\ realized' = 0
  /\ size' = [c \in Contracts |-> 0] /\ entry' = [c \in Contracts |-> 0]
  /\ margin' = [c \in Contracts |-> 0] /\ lev' = levs
  /\ fillSeq' = 0 /\ outcome' = "none"
  /\ UNCHANGED <<mark, clock>>

Next ==
  \/ \E c \in Contracts :
       \/ \E s \in Sizes, p \in Prices : Fill(c, s, p)
       \/ \E l \in Leverages : SetLeverage(c, l)
       \/ \E m \in Prices : OnPrice(c, m)
       \/ Settle(c)
  \/ Minute
  \/ \E e \in Equities, levs \in [Contracts -> Leverages] : Reset(e, levs)

Spec == Init /\ [][Next]_vars

-----------------------------------------------------------------------------
(* The books balance: a step binds or frees the margin of one contract at  *)
(* most, and what is free and bound changes by its result, less its fee,   *)
(* plus the funding.  Nothing is created or lost on the way.               *)
Balanced ==
  resets' = resets =>
    \E c \in Contracts :
      /\ \A d \in Contracts \ {c} : margin'[d] = margin[d] /\ size'[d] = size[d]
      /\ (available' - available) + (margin'[c] - margin[c])
           = (realized' - realized) - (fee' - fee) + (funding' - funding)
StepBalances == [][Balanced]_vars

(* A contract without a position binds no margin and has no entry price.   *)
FlatIsEmpty == \A c \in Contracts : size[c] = 0 => margin[c] = 0 /\ entry[c] = 0

(* An order or a change of leverage that is rejected changes no money: the *)
(* closing part of a reversal is not carried out without the opening part. *)
Whole == outcome' = "rejected" /\ outcome # "rejected" => UNCHANGED <<ledger, positions>>
RejectedIsWhole == [][Whole]_vars

(* Margin is bound only out of a balance that covers it, with the fee.     *)
Funded == (\E c \in Contracts : margin'[c] > margin[c]) => available' >= 0
OpeningIsFunded == [][Funded]_vars

(* Closing costs its fee and never more: a loss is limited to the margin   *)
(* that the closed part had bound.                                         *)
LossBounded ==
  /\ resets' = resets /\ funding' = funding
  /\ \A c \in Contracts :
       /\ margin'[c] <= margin[c]
       /\ size'[c] = 0 \/ Sign(size'[c]) = Sign(size[c])
  => available' >= available - (fee' - fee)
LossWithinMargin == [][LossBounded]_vars

(* A tick leaves no position below its maintenance margin.                 *)
HealthyAfterTick ==
  [][\A c \in Contracts : mark'[c] # mark[c] => ~Liquidable(c, mark[c])']_vars

(* The price shown to the agent is where the liquidation really begins.    *)
LiqPriceIsTheEdge ==
  \A c \in Contracts, m \in Prices :
    size[c] # 0 =>
      (Liquidable(c, m) <=> IF size[c] > 0 THEN m * LiqPrice(c).den < LiqPrice(c).num
                                           ELSE m * LiqPrice(c).den > LiqPrice(c).num)

(* A loss stays within the margin, and its end comes where it is announced.*)
EdgeIsKept == [][LiqPriceIsTheEdge']_vars
LossesEnd == LossWithinMargin /\ HealthyAfterTick /\ EdgeIsKept
=============================================================================
