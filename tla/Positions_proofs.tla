------------------------- MODULE Positions_proofs -------------------------
(***************************************************************************)
(* What changes a position keeps its promises, for any contracts, sizes,   *)
(* prices, leverages, rates, tasks, limits and bounds.                     *)
(*                                                                         *)
(* The simulated account.  The amounts of a fill are products and          *)
(* quotients.  The lemmas of the first part bound them once; the steps     *)
(* after that are linear in them, and use no definition of Released, Back, *)
(* Need, Fee and Averaged.                                                 *)
(*                                                                         *)
(* The write transaction (Trade).  What a transaction has read three jobs  *)
(* ago may be out of date when it places its order, but only to the safe   *)
(* side: nobody else opens exposure while it holds the contract's lock, so *)
(* the position it has seen is an upper bound of the position there is.    *)
(* The same goes for the leverage as long as no set_leverage is under way: *)
(* one that may still be committed was declared not applied, or it has the *)
(* risk lock set behind it, and until the operator releases that the risk  *)
(* rules stop every later transaction before it reads again.               *)
(*                                                                         *)
(* The replacement of a protection (Swap).  Of the stops that a position   *)
(* had when the call began one is left, or one that came from elsewhere,   *)
(* until the new group stands as a whole.                                  *)
(***************************************************************************)
EXTENDS Positions, Sequences, SequenceTheorems, FiniteSetTheorems, WellFoundedInduction, TLAPS

-----------------------------------------------------------------------------
(* The books of the simulated account.                                     *)
IInv == TypeOK /\ FlatIsEmpty

-----------------------------------------------------------------------------
LEMMA Product == ASSUME NEW a \in Nat, NEW b \in Nat PROVE a * b \in Nat
  OBVIOUS

LEMMA Quotient == ASSUME NEW a \in Nat, NEW b \in Nat \ {0} PROVE a \div b \in Nat
  OBVIOUS

LEMMA QuotientOfPart ==
  ASSUME NEW x \in Int, NEW s \in Nat \ {0}, NEW m \in Int, x >= 0, x <= m * s
  PROVE  x \div s \in 0..m
  OBVIOUS

LEMMA PartOfProduct ==
  ASSUME NEW m \in Nat, NEW n \in Nat, NEW s \in Nat, n <= s
  PROVE  m * n >= 0 /\ m * n <= m * s
  OBVIOUS

(* What a part of a position releases is part of its margin.               *)
LEMMA ShareOfMargin ==
  ASSUME NEW m \in Nat, NEW n \in Nat, NEW s \in Nat \ {0}, n <= s
  PROVE  (m * n) \div s \in 0..m
  <1>1. m * n >= 0 /\ m * n <= m * s BY PartOfProduct
  <1>2. m * n \in Int OBVIOUS
  <1> QED BY <1>1, <1>2, QuotientOfPart

(* The whole position releases the whole margin.                           *)
LEMMA WholeMargin ==
  ASSUME NEW m \in Nat, NEW s \in Nat \ {0} PROVE (m * s) \div s = m
  OBVIOUS

LEMMA AbsNat == ASSUME NEW n \in Int PROVE Abs(n) \in Nat /\ (n # 0 => Abs(n) # 0)
  BY DEF Abs

LEMMA NotionalNat ==
  ASSUME NEW s \in Int, NEW p \in Nat PROVE Notional(s, p) \in Nat
  BY AbsNat, Product DEF Notional

LEMMA FeeNat ==
  ASSUME NEW s \in Int, NEW p \in Nat PROVE Fee(s, p) \in Nat
  <1>1. Notional(s, p) * FeePercent \in Nat
    BY NotionalNat, Product, PaperAccountAssumption
  <1> QED BY <1>1, Quotient DEF Fee

LEMMA NeedNat ==
  ASSUME TypeOK, NEW c \in Contracts, NEW s \in Int, NEW p \in Nat
  PROVE  Need(c, s, p) \in Nat
  <1>1. lev[c] \in Nat \ {0} BY DEF TypeOK
  <1> QED BY <1>1, NotionalNat, Quotient DEF Need

(* How an order divides into a closing and an opening part.                *)
LEMMA SplitOfFill ==
  ASSUME TypeOK, NEW c \in Contracts, NEW s \in Int \ {0}
  PROVE  /\ Closed(c, s) \in Nat /\ Opened(c, s) \in Int
         /\ Closed(c, s) <= Abs(size[c])
         /\ Closed(c, s) > 0 => size[c] # 0
         /\ size[c] + s = 0 => Closed(c, s) = Abs(size[c]) /\ Opened(c, s) = 0 /\ size[c] # 0
         /\ Opened(c, s) = 0 => Closed(c, s) > 0
         /\ Opened(c, s) = 0 /\ size[c] + s # 0 => Closed(c, s) < Abs(size[c])
         /\ Opened(c, s) # 0 /\ Closed(c, s) > 0 => Sign(size[c] + s) # Sign(size[c]) /\ size[c] + s # 0
  <1>1. size[c] \in Int BY DEF TypeOK
  <1> QED BY <1>1 DEF Closed, Opened, Abs, Sign

LEMMA ReleasedFits ==
  ASSUME TypeOK, NEW c \in Contracts, NEW n \in Nat, n <= Abs(size[c]), n > 0 => size[c] # 0
  PROVE  /\ Released(c, n) \in 0..margin[c]
         /\ n = 0 => Released(c, n) = 0
         /\ n > 0 /\ n = Abs(size[c]) => Released(c, n) = margin[c]
  <1>1. margin[c] \in Nat /\ size[c] \in Int BY DEF TypeOK
  <1>2. CASE n = 0 BY <1>1, <1>2 DEF Released
  <1>3. CASE n > 0
    <2>1. Abs(size[c]) \in Nat \ {0} BY <1>1, <1>3, AbsNat
    <2>2. Released(c, n) = (margin[c] * n) \div Abs(size[c]) BY <1>3 DEF Released
    <2>3. (margin[c] * n) \div Abs(size[c]) \in 0..margin[c] BY <1>1, <2>1, ShareOfMargin
    <2>4. n = Abs(size[c]) => (margin[c] * n) \div Abs(size[c]) = margin[c]
      BY <1>1, <2>1, WholeMargin
    <2> QED BY <1>3, <2>2, <2>3, <2>4
  <1> QED BY <1>2, <1>3

LEMMA BackFits ==
  ASSUME TypeOK, NEW c \in Contracts, NEW n \in Nat, NEW p \in Nat,
         n <= Abs(size[c]), n > 0 => size[c] # 0
  PROVE  /\ Back(c, n, p) \in Nat
         /\ n = 0 => Back(c, n, p) = 0
         /\ Realized(c, n, p) \in Int
         /\ Realized(c, n, p) = Back(c, n, p) - Released(c, n)
  <1>1. entry[c] \in Nat /\ size[c] \in Int /\ margin[c] \in Nat BY DEF TypeOK
  <1>2. Released(c, n) \in Int /\ (n = 0 => Released(c, n) = 0) BY <1>1, ReleasedFits
  <1>3. (p - entry[c]) * n \in Int BY <1>1
  <1>4. Sign(size[c]) \in Int BY DEF Sign
  <1>5. Pnl(c, n, p) \in Int BY <1>3, <1>4 DEF Pnl
  <1>6. n = 0 => Pnl(c, n, p) = 0
    <2>1. n = 0 => (p - entry[c]) * n = 0 BY <1>1
    <2> QED BY <2>1, <1>4 DEF Pnl
  <1>7. Back(c, n, p) \in Nat BY <1>2, <1>5 DEF Back, AtLeast0
  <1>8. n = 0 => Back(c, n, p) = 0 BY <1>2, <1>5, <1>6 DEF Back, AtLeast0
  <1>9. Realized(c, n, p) = Back(c, n, p) - Released(c, n) BY DEF Realized
  <1> QED BY <1>2, <1>7, <1>8, <1>9

LEMMA AveragedNat ==
  ASSUME TypeOK, NEW c \in Contracts, NEW s \in Int \ {0}, NEW p \in Nat
  PROVE  /\ Averaged(c, s, p) \in Nat
         /\ size[c] + s = 0 => Averaged(c, s, p) = 0
  <1> DEFINE kept == Abs(size[c]) - Closed(c, s)
  <1>1. entry[c] \in Nat /\ size[c] \in Int BY DEF TypeOK
  <1>2. kept \in Nat BY <1>1, SplitOfFill, AbsNat
  <1>3. Opened(c, s) \in Int BY SplitOfFill
  <1>4. size[c] + s = 0 => Opened(c, s) = 0 /\ kept = 0 BY <1>1, SplitOfFill, AbsNat
  <1>5. CASE Opened(c, s) = 0 BY <1>1, <1>2, <1>4, <1>5 DEF Averaged
  <1>6. CASE Opened(c, s) # 0 /\ kept = 0 BY <1>4, <1>6 DEF Averaged
  <1>7. CASE Opened(c, s) # 0 /\ kept # 0
    <2>1. Abs(Opened(c, s)) \in Nat \ {0} BY <1>3, <1>7, AbsNat
    <2>2. entry[c] * kept \in Nat /\ p * Abs(Opened(c, s)) \in Nat
      BY <1>1, <1>2, <2>1, Product
    <2>3. kept + Abs(Opened(c, s)) \in Nat \ {0} BY <1>2, <2>1
    <2>4. (entry[c] * kept + p * Abs(Opened(c, s))) \div (kept + Abs(Opened(c, s))) \in Nat
      <3>1. entry[c] * kept + p * Abs(Opened(c, s)) \in Nat BY <2>2
      <3> HIDE DEF kept
      <3> QED BY <2>3, <3>1, Quotient
    <2> QED BY <1>4, <1>7, <2>4 DEF Averaged
  <1> QED BY <1>5, <1>6, <1>7

(* After the test of a reversal, the test of the opening part cannot fail: *)
(* a rejected order leaves everything as it was.                           *)
LEMMA PreflightSuffices ==
  ASSUME NEW c \in Contracts, NEW s \in Int, NEW p \in Nat
  PROVE  Preflight(c, s, p) <=> MayOpen(c, s, p, available + Back(c, Closed(c, s), p))
  BY DEF Preflight, MayOpen

-----------------------------------------------------------------------------
(* A fill with its amounts named, and the two ways it may end.             *)
FillEffect(c, s, rel, back, need, f, avg) ==
  /\ UNCHANGED <<funding, mark, clock, birth, lev>>
  /\ \/ outcome' = "rejected" /\ UNCHANGED <<ledger, positions, fillSeq>>
     \/ /\ outcome' = "filled" /\ fillSeq' = fillSeq + 1
        /\ available' = available + back - need - f
        /\ need > 0 => available' >= 0
        /\ fee' = fee + f /\ realized' = realized + (back - rel)
        /\ size' = [size EXCEPT ![c] = size[c] + s]
        /\ margin' = [margin EXCEPT ![c] = (margin[c] - rel) + need]
        /\ entry' = [entry EXCEPT ![c] = avg]
        /\ size[c] + s = 0 => rel = margin[c] /\ need = 0 /\ avg = 0
        /\ \/ need = 0 \/ (rel = 0 /\ back = 0)
           \/ size[c] + s # 0 /\ Sign(size[c] + s) # Sign(size[c])

LEMMA FillCases ==
  ASSUME TypeOK, NEW c \in Contracts, NEW s \in Sizes, NEW p \in Prices, Fill(c, s, p)
  PROVE  \E rel \in 0..margin[c], back \in Nat, need \in Nat, f \in Nat, avg \in Nat :
           FillEffect(c, s, rel, back, need, f, avg)
  <1> DEFINE n == Closed(c, s)
             rest == Opened(c, s)
  <1>1. s \in Int \ {0} /\ p \in Nat BY PaperAccountAssumption
  <1>2. size \in [Contracts -> Int] /\ margin \in [Contracts -> Nat] /\ available \in Int
    BY DEF TypeOK
  <1>3. n \in Nat /\ rest \in Int /\ n <= Abs(size[c]) /\ (n > 0 => size[c] # 0)
    BY <1>1, SplitOfFill
  <1>4. Released(c, n) \in 0..margin[c] /\ (n = 0 => Released(c, n) = 0)
    BY <1>3, ReleasedFits
  <1>5. Back(c, n, p) \in Nat /\ (n = 0 => Back(c, n, p) = 0)
        /\ Realized(c, n, p) = Back(c, n, p) - Released(c, n)
    BY <1>1, <1>3, BackFits
  <1>6. Need(c, rest, p) \in Nat BY <1>1, <1>3, NeedNat
  <1>7. Fee(s, p) \in Nat BY <1>1, FeeNat
  <1>8. Averaged(c, s, p) \in Nat /\ (size[c] + s = 0 => Averaged(c, s, p) = 0)
    BY <1>1, AveragedNat
  <1>9. rest = 0 => Need(c, rest, p) = 0
    <2>1. lev[c] \in Nat \ {0} BY DEF TypeOK
    <2>2. Notional(0, p) = 0 BY <1>1 DEF Notional, Abs
    <2>3. 0 \div lev[c] = 0 BY <2>1
    <2> QED BY <2>2, <2>3 DEF Need
  <1>10. size[c] + s = 0 => rest = 0 /\ n > 0 /\ n = Abs(size[c])
    <2>1. size[c] \in Int BY <1>2
    <2>2. size[c] + s = 0 => n = Abs(size[c]) /\ rest = 0 /\ size[c] # 0
      BY <1>1, SplitOfFill
    <2> QED BY <2>1, <2>2, AbsNat, <1>3
  <1>11. size[c] + s = 0 => Released(c, n) = margin[c]
    BY <1>3, <1>10, ReleasedFits
  <1>12. n > 0 /\ rest # 0 => size[c] + s # 0 /\ Sign(size[c] + s) # Sign(size[c])
    BY <1>1, SplitOfFill
  <1>13. Preflight(c, s, p) <=> MayOpen(c, s, p, available + Back(c, n, p))
    BY <1>1, PreflightSuffices
  <1>14. MayOpen(c, s, p, available + Back(c, n, p))
           => available + Back(c, n, p) - Need(c, rest, p) - Fee(s, p) >= 0
    BY <1>2, <1>5, <1>6, <1>7 DEF MayOpen
  <1>15. UNCHANGED <<funding, mark, clock, birth>> BY DEF Fill
  <1>16. CASE /\ outcome' = "rejected" /\ UNCHANGED <<ledger, positions, fillSeq>>
    <2>1. FillEffect(c, s, 0, 0, 0, 0, 0) BY <1>15, <1>16 DEF FillEffect, positions
    <2>2. 0 \in 0..margin[c] BY <1>2
    <2> QED BY <2>1, <2>2
  <1>17. CASE /\ n > 0 /\ rest # 0 /\ ~Preflight(c, s, p) /\ Rejected
              /\ UNCHANGED <<available, positions>>
    BY <1>15, <1>16, <1>17 DEF Rejected, ledger
  <1>18. CASE /\ n > 0 /\ rest # 0 => Preflight(c, s, p)
              /\ rest # 0 /\ ~MayOpen(c, s, p, available + Back(c, n, p)) /\ Rejected
              /\ available' = available + Back(c, n, p)
              /\ size' = [size EXCEPT ![c] = @ - Sign(@) * n]
              /\ margin' = [margin EXCEPT ![c] = @ - Released(c, n)]
              /\ UNCHANGED <<entry, lev>>
    <2>1. n = 0 BY <1>3, <1>13, <1>18
    <2>2. available' = available BY <1>2, <1>5, <1>18, <2>1
    <2>3. size[c] - Sign(size[c]) * 0 = size[c] BY <1>2 DEF Sign
    <2>4. size' = [size EXCEPT ![c] = size[c]] BY <1>18, <2>1, <2>3
    <2>5. size' = size BY <1>2, <2>4
    <2>6. margin' = [margin EXCEPT ![c] = margin[c] - 0] BY <1>4, <1>18, <2>1
    <2>7. margin' = margin BY <1>2, <2>6
    <2> QED BY <1>15, <1>16, <1>18, <2>2, <2>5, <2>7 DEF Rejected, ledger, positions
  <1>19. CASE /\ rest # 0 => MayOpen(c, s, p, available + Back(c, n, p))
              /\ outcome' = "filled" /\ fillSeq' = fillSeq + 1
              /\ available' = (available + Back(c, n, p)) - Need(c, rest, p) - Fee(s, p)
              /\ fee' = fee + Fee(s, p)
              /\ realized' = realized + Realized(c, n, p)
              /\ size' = [size EXCEPT ![c] = @ + s]
              /\ margin' = [margin EXCEPT ![c] = (@ - Released(c, n)) + Need(c, rest, p)]
              /\ entry' = [entry EXCEPT ![c] = Averaged(c, s, p)]
                 /\ UNCHANGED lev
    <2>1. Need(c, rest, p) > 0 => available' >= 0
      BY <1>2, <1>5, <1>6, <1>7, <1>9, <1>14, <1>19
    <2>2. size[c] + s = 0 => Released(c, n) = margin[c] /\ Need(c, rest, p) = 0
                             /\ Averaged(c, s, p) = 0
      BY <1>8, <1>9, <1>10, <1>11
    <2>3. \/ Need(c, rest, p) = 0 \/ (Released(c, n) = 0 /\ Back(c, n, p) = 0)
          \/ size[c] + s # 0 /\ Sign(size[c] + s) # Sign(size[c])
      BY <1>3, <1>4, <1>5, <1>9, <1>12
    <2> HIDE DEF n, rest
    <2>4. FillEffect(c, s, Released(c, n), Back(c, n, p), Need(c, rest, p), Fee(s, p),
                     Averaged(c, s, p))
      BY <1>2, <1>4, <1>5, <1>6, <1>7, <1>15, <1>19, <2>1, <2>2, <2>3 DEF FillEffect
    <2> QED BY <1>4, <1>5, <1>6, <1>7, <1>8, <2>4
  <1> QED BY <1>17, <1>18, <1>19 DEF Fill

-----------------------------------------------------------------------------
(* The ledger and the positions are well formed, and a contract without a  *)
(* position has no margin: inductive, one step per method of the account.  *)
LEMMA Configured ==
  ASSUME NEW f, f \in [Contracts -> Leverages] \/ f \in [Contracts -> Prices]
  PROVE  f \in [Contracts -> Nat \ {0}]
  <1>1. Leverages \subseteq Nat \ {0} /\ Prices \subseteq Nat \ {0}
    BY PaperAccountAssumption
  <1>2. CASE f \in [Contracts -> Leverages] BY <1>1, <1>2
  <1>3. CASE f \in [Contracts -> Prices] BY <1>1, <1>3
  <1> QED BY <1>2, <1>3

LEMMA InitInv == Init => IInv
  <1> SUFFICES ASSUME Init PROVE IInv OBVIOUS
  <1>1. lev \in [Contracts -> Nat \ {0}] /\ mark \in [Contracts -> Nat \ {0}]
    BY Configured DEF Init
  <1>2. initial \in Nat BY PaperAccountAssumption DEF Init
  <1>3. lev \in [Contracts -> Nat \ {0}] /\ margin = [c \in Contracts |-> 0]
        /\ size = [c \in Contracts |-> 0] /\ entry = [c \in Contracts |-> 0]
    BY <1>1 DEF Init
  <1>4. available \in Int /\ initial \in Int /\ resets \in Nat /\ fillSeq \in Nat /\ now \in Nat
        /\ fee \in Nat /\ funding \in Int /\ realized \in Int
    BY <1>2 DEF Init
  <1>5. size \in [Contracts -> Int] /\ entry \in [Contracts -> Nat] /\ margin \in [Contracts -> Nat]
    BY <1>3
  <1>6. settledAt \in [Contracts -> Nat]
        /\ patrol \subseteq Contracts
        /\ outcome \in {"none", "filled", "rejected"}
    BY DEF Init
  <1>7. TypeOK BY <1>1, <1>4, <1>5, <1>6 DEF TypeOK
  <1> QED BY <1>3, <1>7 DEF IInv, FlatIsEmpty

LEMMA FillInv ==
  ASSUME IInv, NEW c \in Contracts, NEW s \in Sizes, NEW p \in Prices, Fill(c, s, p)
  PROVE  IInv'
  <1>1. PICK rel \in 0..margin[c], back \in Nat, need \in Nat, f \in Nat, avg \in Nat :
            FillEffect(c, s, rel, back, need, f, avg)
    BY FillCases DEF IInv
  <1>2. s \in Int \ {0} BY PaperAccountAssumption
  <1>3. CASE outcome' = "rejected" /\ UNCHANGED <<ledger, positions, fillSeq>>
    BY <1>1, <1>3 DEF FillEffect, IInv, TypeOK, FlatIsEmpty, ledger, positions, clock, birth
  <1>4. CASE outcome' = "filled"
    <2>1. available' \in Int /\ fee' \in Nat /\ realized' \in Int /\ fillSeq' \in Nat
      BY <1>1, <1>4 DEF FillEffect, IInv, TypeOK
    <2>2. size' \in [Contracts -> Int] /\ entry' \in [Contracts -> Nat]
          /\ margin' \in [Contracts -> Nat]
      BY <1>1, <1>2, <1>4 DEF FillEffect, IInv, TypeOK
    <2>3. TypeOK'
      BY <1>1, <1>4, <2>1, <2>2 DEF FillEffect, IInv, TypeOK, clock, birth
    <2>4. ASSUME NEW d \in Contracts, size'[d] = 0 PROVE margin'[d] = 0 /\ entry'[d] = 0
      <3>1. CASE d = c
        <4>1. size[c] + s = 0 BY <1>1, <1>4, <2>4, <3>1 DEF FillEffect, IInv, TypeOK
        <4>2. rel = margin[c] /\ need = 0 /\ avg = 0 BY <1>1, <1>4, <4>1 DEF FillEffect
        <4>3. margin'[c] = (margin[c] - rel) + need /\ entry'[c] = avg
          BY <1>1, <1>4 DEF FillEffect, IInv, TypeOK
        <4> QED BY <3>1, <4>2, <4>3 DEF IInv, TypeOK
      <3>2. CASE d # c
        BY <1>1, <1>4, <2>4, <3>2 DEF FillEffect, IInv, TypeOK, FlatIsEmpty
      <3> QED BY <3>1, <3>2
    <2> QED BY <2>3, <2>4 DEF IInv, FlatIsEmpty
  <1> QED BY <1>1, <1>3, <1>4 DEF FillEffect

(* What set_leverage works out is again a margin.                          *)
LEMMA NewMargin ==
  ASSUME TypeOK, NEW c \in Contracts, NEW l \in Leverages
  PROVE  Notional(size[c], entry[c]) \div l \in Nat
  <1>1. size[c] \in Int /\ entry[c] \in Nat BY DEF TypeOK
  <1>2. l \in Nat \ {0} BY PaperAccountAssumption
  <1> QED BY <1>1, <1>2, NotionalNat, Quotient

LEMMA SetLeverageInv ==
  ASSUME IInv, NEW c \in Contracts, NEW l \in Leverages, SetLeverage(c, l)
  PROVE  IInv'
  <1> DEFINE m == Notional(size[c], entry[c]) \div l
  <1>1. m \in Nat /\ margin[c] \in Nat /\ l \in Nat \ {0}
    BY NewMargin, PaperAccountAssumption DEF IInv, TypeOK
  <1>2. margin[c] + (m - margin[c]) = m BY <1>1
  <1>3. \/ margin' = margin /\ available' = available
        \/ margin' = [margin EXCEPT ![c] = m] /\ available' = available - (m - margin[c])
           /\ size[c] # 0
    BY <1>1, <1>2 DEF SetLeverage
  <1>4. lev' = lev \/ lev' = [lev EXCEPT ![c] = l] BY DEF SetLeverage
  <1>5. /\ UNCHANGED <<fee, funding, realized, size, entry, mark, fillSeq, clock, birth>>
        /\ outcome' \in {outcome, "rejected"}
    BY DEF SetLeverage
  <1> HIDE DEF m
  <1> QED BY <1>1, <1>3, <1>4, <1>5
        DEF IInv, TypeOK, FlatIsEmpty, clock, birth

LEMMA OnPriceInv ==
  ASSUME IInv, NEW c \in Contracts, NEW m \in Prices, OnPrice(c, m)
  PROVE  IInv'
  <1>1. m \in Nat \ {0} BY PaperAccountAssumption
  <1>2. mark' = [mark EXCEPT ![c] = m]
        /\ UNCHANGED <<fee, funding, lev, outcome, clock, birth>>
    BY DEF OnPrice
  <1>3. CASE Checks(c, m)
    <2> DEFINE returned == AtLeast0(margin[c] + (m - entry[c]) * size[c])
    <2>1. (m - entry[c]) * size[c] \in Int BY <1>1 DEF IInv, TypeOK
    <2>2. returned \in Nat BY <2>1 DEF AtLeast0, IInv, TypeOK
    <2>3. /\ fillSeq' = fillSeq + 1 /\ available' = available + returned
          /\ realized' = realized + (returned - margin[c])
          /\ size' = [size EXCEPT ![c] = 0] /\ entry' = [entry EXCEPT ![c] = 0]
          /\ margin' = [margin EXCEPT ![c] = 0]
      BY <1>3 DEF OnPrice
    <2> HIDE DEF returned
    <2> QED BY <1>1, <1>2, <2>2, <2>3 DEF IInv, TypeOK, FlatIsEmpty, clock, birth
  <1>4. CASE ~Checks(c, m)
    BY <1>1, <1>2, <1>4 DEF OnPrice, IInv, TypeOK, FlatIsEmpty, clock, birth
  <1> QED BY <1>3, <1>4

LEMMA FundingInt ==
  ASSUME TypeOK, NEW c \in Contracts, NEW rate \in FundPercent
  PROVE  FundingDelta(c, rate) \in Int
  <1>1. rate \in Int /\ size[c] \in Int /\ mark[c] \in Int /\ Abs(size[c]) \in Int
    BY PaperAccountAssumption, AbsNat DEF TypeOK
  <1>2. (rate * Abs(size[c])) * mark[c] \in Int BY <1>1
  <1>3. Payment(c, rate) \in Int BY <1>2 DEF Payment
  <1> QED BY <1>3 DEF FundingDelta

LEMMA SettleInv ==
  ASSUME IInv, NEW c \in Contracts, Settle(c)
  PROVE  IInv'
  <1>1. Boundary \in Nat
    <2>1. now \in Nat /\ Interval \in Nat \ {0} BY PaperAccountAssumption DEF IInv, TypeOK
    <2>2. now % Interval \in 0..now BY <2>1
    <2> QED BY <2>1, <2>2 DEF Boundary
  <1>2. available' \in Int /\ funding' \in Int
    BY FundingInt DEF Settle, IInv, TypeOK
  <1>3. settledAt' \in [Contracts -> Nat]
    BY <1>1 DEF Settle, IInv, TypeOK
  <1>4. patrol' \subseteq Contracts
        /\ UNCHANGED <<fee, realized, positions, mark, fillSeq, outcome, now, birth>>
    BY DEF Settle, IInv, TypeOK
  <1> QED BY <1>2, <1>3, <1>4 DEF IInv, TypeOK, FlatIsEmpty, positions, birth

LEMMA MinuteInv == ASSUME IInv, Minute PROVE IInv'
  BY DEF Minute, IInv, TypeOK, FlatIsEmpty, ledger, positions, birth

LEMMA ResetInv ==
  ASSUME IInv, NEW e \in Equities, NEW levs \in [Contracts -> Leverages], Reset(e, levs)
  PROVE  IInv'
  <1>1. lev' \in [Contracts -> Nat \ {0}] BY Configured DEF Reset
  <1>2. e \in Nat BY PaperAccountAssumption
  <1> QED BY <1>1, <1>2 DEF Reset, IInv, TypeOK, FlatIsEmpty, clock

LEMMA NextInv == IInv /\ [Next]_vars => IInv'
  <1> SUFFICES ASSUME IInv, [Next]_vars PROVE IInv' OBVIOUS
  <1>1. CASE \E c \in Contracts, s \in Sizes, p \in Prices : Fill(c, s, p) BY <1>1, FillInv
  <1>2. CASE \E c \in Contracts, l \in Leverages : SetLeverage(c, l) BY <1>2, SetLeverageInv
  <1>3. CASE \E c \in Contracts, m \in Prices : OnPrice(c, m) BY <1>3, OnPriceInv
  <1>4. CASE \E c \in Contracts : Settle(c) BY <1>4, SettleInv
  <1>5. CASE Minute BY <1>5, MinuteInv
  <1>6. CASE \E e \in Equities, levs \in [Contracts -> Leverages] : Reset(e, levs)
    BY <1>6, ResetInv
  <1>7. CASE UNCHANGED vars
    BY <1>7 DEF IInv, TypeOK, FlatIsEmpty, vars, ledger, positions, clock, birth
  <1> QED BY <1>1, <1>2, <1>3, <1>4, <1>5, <1>6, <1>7 DEF Next

THEOREM Invariance == Spec => []IInv
  BY InitInv, NextInv, PTL DEF Spec

(* Type correctness of the account.                                        *)
THEOREM TypeCorrect == Spec => []TypeOK
  <1>1. IInv => TypeOK BY DEF IInv
  <1> QED BY <1>1, Invariance, PTL

(* No margin stays bound in a contract whose position is gone, whatever    *)
(* fills, liquidations and changes of leverage have taken it there.        *)
THEOREM FlatHoldsNothing == Spec => []FlatIsEmpty
  <1>1. IInv => FlatIsEmpty BY DEF IInv
  <1> QED BY <1>1, Invariance, PTL

-----------------------------------------------------------------------------
(* What each method does to the books.                                     *)
Honest == Balanced /\ Whole /\ Funded /\ LossBounded

LEMMA FillHonest ==
  ASSUME TypeOK, NEW c \in Contracts, NEW s \in Sizes, NEW p \in Prices, Fill(c, s, p)
  PROVE  Honest
  <1>1. PICK rel \in 0..margin[c], back \in Nat, need \in Nat, f \in Nat, avg \in Nat :
            FillEffect(c, s, rel, back, need, f, avg)
    BY FillCases
  <1>2. s \in Int \ {0} BY PaperAccountAssumption
  <1>3. CASE outcome' = "rejected" /\ UNCHANGED <<ledger, positions, fillSeq>>
    BY <1>1, <1>3 DEF FillEffect, Honest, Balanced, Whole, Funded, LossBounded, TypeOK,
                      ledger, positions, birth
  <1>4. CASE outcome' = "filled"
    <2>1. /\ available' = available + back - need - f
          /\ need > 0 => available' >= 0
          /\ fee' = fee + f /\ realized' = realized + (back - rel) /\ funding' = funding
          /\ size' = [size EXCEPT ![c] = size[c] + s]
          /\ margin' = [margin EXCEPT ![c] = (margin[c] - rel) + need]
          /\ \/ need = 0 \/ (rel = 0 /\ back = 0)
             \/ size[c] + s # 0 /\ Sign(size[c] + s) # Sign(size[c])
      BY <1>1, <1>4 DEF FillEffect
    <2>2. /\ available \in Int /\ fee \in Int /\ realized \in Int /\ funding \in Int
          /\ size \in [Contracts -> Int] /\ margin \in [Contracts -> Nat]
          /\ rel \in Nat /\ rel <= margin[c]
      BY DEF TypeOK
    <2>3. margin'[c] = (margin[c] - rel) + need /\ size'[c] = size[c] + s
      BY <2>1, <2>2
    <2>4. \A d \in Contracts \ {c} : margin'[d] = margin[d] /\ size'[d] = size[d]
      BY <2>1, <2>2
    <2>5. Balanced
      <3>1. (available' - available) + (margin'[c] - margin[c])
              = (realized' - realized) - (fee' - fee) + (funding' - funding)
        BY <2>1, <2>2, <2>3
      <3> QED BY <2>4, <3>1 DEF Balanced
    <2>6. Whole BY <1>4 DEF Whole
    <2>7. Funded
      <3> SUFFICES ASSUME NEW d \in Contracts, margin'[d] > margin[d] PROVE available' >= 0
        BY DEF Funded
      <3>1. d = c BY <2>2, <2>4
      <3>2. need > 0 BY <2>2, <2>3, <3>1
      <3> QED BY <2>1, <3>2
    <2>8. LossBounded
      <3> SUFFICES ASSUME margin'[c] <= margin[c],
                          size'[c] = 0 \/ Sign(size'[c]) = Sign(size[c])
                   PROVE  available' >= available - (fee' - fee)
        BY DEF LossBounded
      <3>1. need = 0 \/ (rel = 0 /\ back = 0) BY <2>1, <2>3
      <3>2. need <= back BY <2>2, <2>3, <3>1
      <3> QED BY <2>1, <2>2, <3>2
    <2> QED BY <2>5, <2>6, <2>7, <2>8 DEF Honest
  <1> QED BY <1>1, <1>3, <1>4 DEF FillEffect

LEMMA SetLeverageHonest ==
  ASSUME TypeOK, NEW c \in Contracts, NEW l \in Leverages, SetLeverage(c, l)
  PROVE  Honest
  <1> DEFINE m == Notional(size[c], entry[c]) \div l
  <1>1. m \in Nat /\ margin[c] \in Nat /\ available \in Int
    BY NewMargin DEF TypeOK
  <1>2. margin \in [Contracts -> Nat] /\ size \in [Contracts -> Int]
        /\ fee \in Int /\ realized \in Int /\ funding \in Int
    BY DEF TypeOK
  <1>3. \/ margin' = margin /\ available' = available /\ (outcome' = outcome \/ lev' = lev)
        \/ /\ margin' = [margin EXCEPT ![c] = margin[c] + (m - margin[c])]
           /\ available' = available - (m - margin[c])
           /\ (m - margin[c] <= 0 \/ available >= m - margin[c]) /\ outcome' = outcome
    BY DEF SetLeverage, Affords
  <1>4. UNCHANGED <<fee, funding, realized, size, entry, mark, fillSeq, clock, birth>>
    BY DEF SetLeverage
  <1> HIDE DEF m
  <1>5. CASE margin' = margin /\ available' = available /\ (outcome' = outcome \/ lev' = lev)
    <2>1. Balanced BY <1>1, <1>2, <1>4, <1>5 DEF Balanced
    <2>2. Whole BY <1>4, <1>5 DEF Whole, ledger, positions
    <2>3. Funded BY <1>2, <1>5 DEF Funded
    <2>4. LossBounded BY <1>1, <1>2, <1>4, <1>5 DEF LossBounded
    <2> QED BY <2>1, <2>2, <2>3, <2>4 DEF Honest
  <1>6. CASE /\ margin' = [margin EXCEPT ![c] = margin[c] + (m - margin[c])]
             /\ available' = available - (m - margin[c])
             /\ (m - margin[c] <= 0 \/ available >= m - margin[c]) /\ outcome' = outcome
    <2>1. margin'[c] = m /\ \A d \in Contracts \ {c} : margin'[d] = margin[d]
      BY <1>1, <1>2, <1>6
    <2>2. Balanced BY <1>1, <1>2, <1>4, <1>6, <2>1 DEF Balanced
    <2>3. Whole BY <1>6 DEF Whole
    <2>4. Funded
      <3> SUFFICES ASSUME NEW d \in Contracts, margin'[d] > margin[d] PROVE available' >= 0
        BY DEF Funded
      <3>1. d = c BY <1>2, <2>1
      <3> QED BY <1>1, <1>6, <2>1, <3>1
    <2>5. LossBounded BY <1>1, <1>2, <1>4, <1>6, <2>1 DEF LossBounded
    <2> QED BY <2>2, <2>3, <2>4, <2>5 DEF Honest
  <1> QED BY <1>3, <1>5, <1>6

LEMMA OnPriceHonest ==
  ASSUME TypeOK, NEW c \in Contracts, NEW m \in Prices, OnPrice(c, m)
  PROVE  Honest
  <1>1. m \in Nat BY PaperAccountAssumption
  <1>2. UNCHANGED <<fee, funding, lev, outcome, clock, birth>> BY DEF OnPrice
  <1>3. /\ margin \in [Contracts -> Nat] /\ size \in [Contracts -> Int]
        /\ available \in Int /\ fee \in Int /\ realized \in Int /\ funding \in Int
    BY DEF TypeOK
  <1>4. Whole BY <1>2 DEF Whole
  <1>5. CASE Checks(c, m)
    <2> DEFINE returned == AtLeast0(margin[c] + (m - entry[c]) * size[c])
    <2>1. (m - entry[c]) * size[c] \in Int BY <1>1 DEF TypeOK
    <2>2. returned \in Nat BY <1>3, <2>1 DEF AtLeast0
    <2>3. /\ available' = available + returned
          /\ realized' = realized + (returned - margin[c])
          /\ size' = [size EXCEPT ![c] = 0] /\ margin' = [margin EXCEPT ![c] = 0]
      BY <1>5 DEF OnPrice
    <2> HIDE DEF returned
    <2>4. Balanced BY <1>2, <1>3, <2>2, <2>3 DEF Balanced
    <2>5. Funded BY <1>3, <2>3 DEF Funded
    <2>6. LossBounded BY <1>2, <1>3, <2>2, <2>3 DEF LossBounded
    <2> QED BY <1>4, <2>4, <2>5, <2>6 DEF Honest
  <1>6. CASE ~Checks(c, m)
    BY <1>2, <1>3, <1>4, <1>6 DEF OnPrice, Honest, Balanced, Funded, LossBounded
  <1> QED BY <1>5, <1>6

LEMMA SettleHonest ==
  ASSUME TypeOK, NEW c \in Contracts, Settle(c)
  PROVE  Honest
  <1>1. /\ margin \in [Contracts -> Nat] /\ size \in [Contracts -> Int]
        /\ available \in Int /\ fee \in Int /\ realized \in Int /\ funding \in Int
    BY DEF TypeOK
  <1>2. UNCHANGED <<fee, realized, positions, mark, fillSeq, outcome, now, birth>>
    BY DEF Settle
  <1>3. PICK delta \in Int : available' = available + delta /\ funding' = funding + delta
    <2>1. CASE UNCHANGED <<available, funding>> BY <1>1, <2>1
    <2>2. CASE \E rate \in FundPercent : /\ available' = available + FundingDelta(c, rate)
                                         /\ funding' = funding + FundingDelta(c, rate)
      BY <2>2, FundingInt
    <2> QED BY <2>1, <2>2 DEF Settle
  <1> QED BY <1>1, <1>2, <1>3 DEF Honest, Balanced, Whole, Funded, LossBounded, positions

LEMMA StepHonest == TypeOK /\ [Next]_vars => Honest
  <1> SUFFICES ASSUME TypeOK, [Next]_vars PROVE Honest OBVIOUS
  <1>1. CASE \E c \in Contracts, s \in Sizes, p \in Prices : Fill(c, s, p) BY <1>1, FillHonest
  <1>2. CASE \E c \in Contracts, l \in Leverages : SetLeverage(c, l) BY <1>2, SetLeverageHonest
  <1>3. CASE \E c \in Contracts, m \in Prices : OnPrice(c, m) BY <1>3, OnPriceHonest
  <1>4. CASE \E c \in Contracts : Settle(c) BY <1>4, SettleHonest
  <1>5. CASE Minute \/ UNCHANGED vars
    BY <1>5, PaperAccountAssumption
      DEF Minute, vars, ledger, positions, birth, TypeOK, Honest, Balanced, Whole, Funded, LossBounded
  <1>6. CASE \E e \in Equities, levs \in [Contracts -> Leverages] : Reset(e, levs)
    BY <1>6 DEF Reset, TypeOK, Honest, Balanced, Whole, Funded, LossBounded
  <1> QED BY <1>1, <1>2, <1>3, <1>4, <1>5, <1>6 DEF Next

(* Every step but a reset books what it binds or frees, for one contract:  *)
(* no fill, liquidation, settlement or transfer makes or loses money.      *)
THEOREM BooksBalance == Spec => StepBalances
  <1>1. TypeOK /\ [Next]_vars => Balanced BY StepHonest DEF Honest
  <1> QED BY <1>1, TypeCorrect, PTL DEF Spec, StepBalances

(* An order that is rejected has changed nothing: the opening part of a    *)
(* reversal cannot fail once its closing part has been carried out.        *)
THEOREM AllOrNothing == Spec => RejectedIsWhole
  <1>1. TypeOK /\ [Next]_vars => Whole BY StepHonest DEF Honest
  <1> QED BY <1>1, TypeCorrect, PTL DEF Spec, RejectedIsWhole

(* No margin is bound on credit.                                           *)
THEOREM NoCredit == Spec => OpeningIsFunded
  <1>1. TypeOK /\ [Next]_vars => Funded BY StepHonest DEF Honest
  <1> QED BY <1>1, TypeCorrect, PTL DEF Spec, OpeningIsFunded

(* Closing, reducing or being liquidated costs no more than the margin.    *)
THEOREM LossIsLimited == Spec => LossWithinMargin
  <1>1. TypeOK /\ [Next]_vars => LossBounded BY StepHonest DEF Honest
  <1> QED BY <1>1, TypeCorrect, PTL DEF Spec, LossWithinMargin

(* The price of the liquidation as a fraction, with the products named.    *)
LEMMA EdgeOfLong ==
  ASSUME NEW a \in Int, NEW b \in Int, NEW g \in Nat, NEW k \in 0..99, NEW ka \in Int,
         a > 0, ka = k * a
  PROVE  100 * (g + (a - b)) < ka <=> 100 * a - ka < AtLeast0(100 * (b - g))
  <1>1. ka < 100 * a
    <2>1. (100 - k) * a > 0 OBVIOUS
    <2> QED BY <2>1
  <1> QED BY <1>1 DEF AtLeast0

LEMMA EdgeOfShort ==
  ASSUME NEW a \in Nat, NEW b \in Nat, NEW g \in Nat, NEW ka \in Int
  PROVE  100 * (g + (b - a)) < ka <=> 100 * a + ka > AtLeast0(100 * (b + g))
  BY DEF AtLeast0

LEMMA EdgeIsThere == ASSUME TypeOK PROVE LiqPriceIsTheEdge
  <1> SUFFICES ASSUME NEW c \in Contracts, NEW m \in Prices, size[c] # 0
      PROVE Liquidable(c, m) <=> IF size[c] > 0 THEN m * LiqPrice(c).den < LiqPrice(c).num
                                               ELSE m * LiqPrice(c).den > LiqPrice(c).num
    BY DEF LiqPriceIsTheEdge
  <1> DEFINE s == size[c]
             e == entry[c]
             g == margin[c]
             k == MaintPercent
             t == Abs(s)
  <1>1. s \in Int /\ s # 0 /\ e \in Nat /\ g \in Nat BY DEF TypeOK
  <1>2. m \in Nat \ {0} /\ k \in 0..99 BY PaperAccountAssumption
  <1>3. t \in Nat \ {0} /\ (s > 0 => t = s) /\ (s < 0 => t = -s) BY <1>1 DEF Abs
  <1>4. Liquidable(c, m) <=> 100 * (g + (m - e) * s) < k * (t * m)
    BY DEF Liquidable, Notional
  <1>5. t * m \in Nat \ {0} /\ e * t \in Nat BY <1>1, <1>2, <1>3
  <1>6. k * (t * m) \in Int BY <1>2, <1>5
  <1>7. CASE s > 0
    <2>1. (m - e) * s = t * m - e * t
      <3> HIDE DEF t, s, e
      <3> QED BY <1>1, <1>2, <1>3, <1>7
    <2>2. m * LiqPrice(c).den = 100 * (t * m) - k * (t * m)
      <3>1. LiqPrice(c).den = t * (100 - k) BY <1>3, <1>7 DEF LiqPrice
      <3> HIDE DEF t, s, k
      <3>2. m * (t * (100 - k)) = 100 * (t * m) - k * (t * m) BY <1>2, <1>3
      <3> QED BY <3>1, <3>2
    <2>3. LiqPrice(c).num = AtLeast0(100 * (e * t - g)) BY <1>3, <1>7 DEF LiqPrice
    <2>4. 100 * (g + (t * m - e * t)) < k * (t * m)
            <=> 100 * (t * m) - k * (t * m) < AtLeast0(100 * (e * t - g))
      <3>1. t * m \in Int /\ t * m > 0 /\ e * t \in Int BY <1>5
      <3> HIDE DEF t, s, e, g, k
      <3> QED BY <1>1, <1>2, <1>6, <3>1, EdgeOfLong
    <2> HIDE DEF t, s, e, g, k
    <2>5. (s > 0) = (size[c] > 0) BY DEF s
    <2> QED BY <1>4, <1>7, <2>1, <2>2, <2>3, <2>4, <2>5
  <1>8. CASE s < 0
    <2>1. (m - e) * s = e * t - t * m
      <3> HIDE DEF t, s, e
      <3> QED BY <1>1, <1>2, <1>3, <1>8
    <2>2. m * LiqPrice(c).den = 100 * (t * m) + k * (t * m)
      <3>1. LiqPrice(c).den = t * (100 + k) BY <1>1, <1>3, <1>8 DEF LiqPrice
      <3> HIDE DEF t, s, k
      <3>2. m * (t * (100 + k)) = 100 * (t * m) + k * (t * m) BY <1>2, <1>3
      <3> QED BY <3>1, <3>2
    <2>3. LiqPrice(c).num = AtLeast0(100 * (e * t + g)) BY <1>1, <1>3, <1>8 DEF LiqPrice
    <2>4. 100 * (g + (e * t - t * m)) < k * (t * m)
            <=> 100 * (t * m) + k * (t * m) > AtLeast0(100 * (e * t + g))
      <3>1. t * m \in Nat /\ e * t \in Nat BY <1>5
      <3> HIDE DEF t, s, e, g, k
      <3> QED BY <1>1, <1>6, <3>1, EdgeOfShort
    <2>5. ~(size[c] > 0) BY <1>1, <1>8
    <2> HIDE DEF t, s, e, g, k
    <2> QED BY <1>4, <2>1, <2>2, <2>3, <2>4, <2>5
  <1> HIDE DEF t, s, e, g, k
  <1> QED BY <1>1, <1>7, <1>8
(* A tick leaves the position of its contract alone or closes it.          *)
LEMMA TickStep ==
  TypeOK /\ [Next]_vars =>
    \A c \in Contracts : mark'[c] # mark[c] => ~Liquidable(c, mark[c])'
  <1> SUFFICES ASSUME TypeOK, [Next]_vars, NEW d \in Contracts, mark'[d] # mark[d]
      PROVE ~Liquidable(d, mark[d])'
    OBVIOUS
  <1>1. ASSUME NEW c \in Contracts, NEW m \in Prices, OnPrice(c, m)
        PROVE  ~Liquidable(d, mark[d])'
    <2>1. mark' = [mark EXCEPT ![c] = m] BY <1>1 DEF OnPrice
    <2>2. mark \in [Contracts -> Nat \ {0}] /\ size \in [Contracts -> Int] BY DEF TypeOK
    <2>3. d = c /\ mark'[d] = m BY <2>1, <2>2
    <2>4. CASE Liquidable(c, m)
      <3>1. size' = [size EXCEPT ![c] = 0] BY <1>1, <2>4 DEF OnPrice, Checks
      <3>2. size'[d] = 0 BY <2>2, <2>3, <3>1
      <3> QED BY <3>2 DEF Liquidable
    <2>5. CASE ~Liquidable(c, m)
      <3>1. size' = size /\ entry' = entry /\ margin' = margin BY <1>1, <2>5 DEF OnPrice, Checks
      <3>2. ~(size[d] # 0
             /\ 100 * (margin[d] + (m - entry[d]) * size[d]) < MaintPercent * Notional(size[d], m))
        BY <2>3, <2>5 DEF Liquidable
      <3> QED BY <2>3, <3>1, <3>2, Zenon DEF Liquidable, Notional, Abs
    <2> QED BY <2>4, <2>5
  <1>2. ASSUME NEW c \in Contracts, NEW s \in Sizes, NEW p \in Prices, Fill(c, s, p)
        PROVE  mark' = mark
    BY <1>2 DEF Fill
  <1>3. ASSUME NEW c \in Contracts, NEW l \in Leverages, SetLeverage(c, l) PROVE mark' = mark
    BY <1>3 DEF SetLeverage
  <1>4. ASSUME NEW c \in Contracts, Settle(c) PROVE mark' = mark BY <1>4 DEF Settle
  <1>5. Minute => mark' = mark BY DEF Minute
  <1>6. ASSUME NEW e \in Equities, NEW levs \in [Contracts -> Leverages], Reset(e, levs)
        PROVE  mark' = mark
    BY <1>6 DEF Reset
  <1>7. UNCHANGED vars => mark' = mark BY DEF vars
  <1> QED BY <1>1, <1>2, <1>3, <1>4, <1>5, <1>6, <1>7 DEF Next

(* A loss has its end, where it is announced: closing costs the margin at  *)
(* most, a tick leaves nothing below its maintenance margin, and the price *)
(* of the liquidation that the agent is shown is the one where it begins.  *)
THEOREM LossesHaveAnEnd == Spec => LossesEnd
  <1>1. TypeOK => LiqPriceIsTheEdge BY EdgeIsThere
  <1>2. Spec => HealthyAfterTick
    BY TickStep, TypeCorrect, PTL DEF Spec, HealthyAfterTick
  <1>3. TypeOK' => LiqPriceIsTheEdge' BY <1>1, PTL
  <1>4. Spec => EdgeIsKept BY <1>3, TypeCorrect, PTL DEF Spec, EdgeIsKept
  <1> QED BY <1>2, <1>4, LossIsLimited, PTL DEF LossesEnd

-----------------------------------------------------------------------------
(* The inductive invariant of the write transaction.                       *)

(* Where an entry is inside the contract's lock, and where past its checks.*)
Reads == {"pos", "orders", "check"}
Acts == {"apply", "confirm", "reconcile", "delay", "place", "cas", "undo", "verify"}
Unknown == {"reconcile", "delay"}
Inside == Reads \cup Acts

LockHeld == \A t \in Entries : pc[t] \in Inside => holder = t

Rounds == \A t \in Entries :
  /\ pc[t] \in {"call", "wait"} => round[t] = 1
  /\ pc[t] \in Acts => round[t] = 3
  /\ pc[t] = "check" => round[t] # 3
  /\ pc[t] # "amend"
  /\ pc[t] \in {"undo", "verify"} => seen[t].lev # None

(* From the check of its first reading on an entry knows that no opening   *)
(* order rests; later readings cover the position, and the last but one    *)
(* was within the limit.                                                   *)
NothingRests == \A t \in Entries :
  (round[t] >= 2 /\ pc[t] \in Inside) \/ pc[t] = "check" => resting = 0
HalfCovers == \A t \in Entries :
  round[t] = 2 /\ pc[t] \in {"orders", "check"} => half[t].pos >= exposure
SeenCovers == \A t \in Entries :
  round[t] = 3 /\ pc[t] \in Inside => seen[t].pos >= exposure /\ seen[t].pos + 1 <= Limit

(* Who was interrupted can tell it from the generations.                   *)
InterruptionShows == \A t \in Entries \cup Amenders :
  /\ Trade!Running(t) => epoch0[t] <= epoch /\ reset0[t] <= reset
  /\ pc[t] = "call" => ~interrupted[t]
  /\ interrupted[t] /\ pc[t] # "done" => Trade!Intervened(t)

(* No entry that may still send an order is past its checks under a lock   *)
(* set for this contract, or under any where its jobs run inline.          *)
Uncommitted == {"pos", "orders", "apply", "confirm", "reconcile", "place"}
ChecksHold ==
  /\ shut => kill
  /\ \A t \in Entries : round[t] = 3 /\ pc[t] \in Uncommitted => ~shut /\ (~Remote => ~kill)

(* The leverage that was read is still the one of the contract, or somebody*)
(* has acted whom a transaction cannot see.                                *)
Excused == foreign \/ adrift \/ reopened
Matches(reading, t) ==
  \/ Excused \/ reset # reset0[t]
  \/ reading.lev = None /\ exposure = 0
  \/ reading.lev = leverage

(* A set_leverage that may still be committed has the agent's lock behind  *)
(* it, or its transaction is not over, or has declared it not applied.     *)
LateIsKnown ==
  /\ locked => kill \/ reopened
  /\ reopened => locked
  /\ late # {} => Remote
  /\ \A t \in late : locked \/ foreign \/ adrift \/ pc[t] \in Unknown
  /\ Remote => reset = 0 /\ \A t \in Entries : reset0[t] = 0

(* What an entry knows of the leverage, from its second reading on.        *)
Sized(t) ==
  /\ round[t] = 3 /\ pc[t] \in Inside \ Unknown => late = {} \/ Excused
  /\ round[t] = 2 /\ pc[t] \in {"orders", "check"} => locked \/ Matches(half[t], t)
  /\ round[t] = 3 /\ pc[t] \in {"pos", "orders", "apply"} => Matches(seen[t], t)
  /\ pc[t] \in Unknown =>
       /\ seen[t].lev # want[t]
       /\ late \subseteq {t} \/ Excused
       /\ t \in late => Matches(seen[t], t)
  /\ pc[t] \in {"confirm", "place"} => Excused \/ reset # reset0[t] \/ leverage = want[t]

Levered == LateIsKnown /\ \A t \in Entries : Sized(t)

-----------------------------------------------------------------------------
(* What every step of the write transaction keeps.                         *)

TradeCore == Trade!TypeOK /\ LockHeld /\ Rounds /\ NothingRests

(* The values that the constants may have.                                 *)
LEMMA TradeConstants ==
  /\ Trade!Tasks = Entries \cup Amenders
  /\ \A t \in Amenders : t \notin Entries /\ t # None
  /\ \A t \in Entries : t \notin Amenders /\ t # None
  /\ None \notin Levels /\ Limit \in Nat \ {0} /\ Remote \in BOOLEAN
  BY TradeAssumption DEF Trade!Tasks

(* The lock is set, or had been: then nothing happens.                     *)
LEMMA Engaging ==
  ASSUME Trade!TypeOK, Trade!Engage
  PROVE  /\ locked' = TRUE /\ kill' \in BOOLEAN /\ shut' = kill' /\ reopened' = reopened
         /\ epoch' = epoch /\ reset' = reset
         /\ kill => kill'
         /\ (locked => kill \/ reopened) => kill' \/ reopened
  BY DEF Trade!TypeOK, Trade!Engage

(* Every step leaves the guards typed.                                     *)
LEMMA GuardsTyped ==
  ASSUME Trade!TypeOK, [Trade!Next]_Trade!vars
  PROVE  /\ kill' \in BOOLEAN /\ locked' \in BOOLEAN /\ epoch' \in Nat /\ reset' \in Nat
         /\ shut' \in BOOLEAN /\ reopened' \in BOOLEAN
  <1> USE DEF Trade!TypeOK, Trade!guards
  <1>1. CASE Trade!Engage \/ UNCHANGED Trade!guards
    BY <1>1, Engaging
  <1>2. CASE UNCHANGED <<kill, locked, shut, reopened>> /\ epoch' \in {epoch, epoch + 1} /\ reset' \in {reset, reset + 1}
    BY <1>2
  <1>3. CASE UNCHANGED <<locked, epoch, reset>> /\ Trade!OperatorSets
    <2> PICK on \in OperatorMoves :
          kill' = on /\ shut' = (shut /\ on) /\ reopened' = (reopened \/ (locked /\ ~on))
      BY <1>3 DEF Trade!OperatorSets
    <2>1. on \in BOOLEAN
      BY TradeAssumption
    <2>2. shut' \in BOOLEAN /\ reopened' \in BOOLEAN
      OBVIOUS
    <2> QED
      BY <1>3, <2>1, <2>2
  <1>7. CASE Trade!LockedElsewhere
    BY <1>7 DEF Trade!LockedElsewhere
  <1>4. ASSUME NEW t \in Trade!Tasks, Trade!TaskStep(t)
        PROVE  Trade!Engage \/ UNCHANGED Trade!guards
    BY <1>4 DEF Trade!TaskStep, Trade!Call, Trade!ReadPositions, Trade!ReadRaises, Trade!ReadOrders,
       Trade!Check, Trade!Enter, Trade!ApplyLeverage, Trade!Confirm, Trade!Reconcile,
       Trade!DelayedCheck, Trade!Delay, Trade!Place, Trade!CompareBeforeRollback, Trade!Undo,
       Trade!VerifyRollback, Trade!Amend
  <1>5. CASE Trade!Environment
    BY <1>1, <1>2, <1>3, <1>5, <1>7 DEF Trade!Environment, Trade!FillResting,
       Trade!CancelResting, Trade!StopHit, Trade!Reduce, Trade!ManualClose, Trade!Bump, Trade!Reset,
       Trade!ChangedOutside, Trade!LateCommit, Trade!OperatorSets
  <1>6. CASE UNCHANGED Trade!vars
    BY <1>1, <1>6 DEF Trade!vars
  <1> QED
    BY <1>1, <1>4, <1>5, <1>6 DEF Trade!Next, Trade!Finished

(* The record that a task is reading.                                      *)
LEMMA PositionsRead ==
  ASSUME Trade!TypeOK, NEW t \in Trade!Tasks, Trade!ReadPositions(t)
  PROVE  /\ half' \in [Trade!Tasks -> Trade!Reading]
         /\ \A u \in Trade!Tasks \ {t} : half'[u] = half[u]
         /\ half'[t].pos = exposure /\ half'[t].lev = Trade!LevShown
         /\ half'[t].rest = half[t].rest /\ half'[t].ver = half[t].ver
  <1> DEFINE one == [half EXCEPT ![t].pos = exposure]
  <1>1. half \in [Trade!Tasks -> Trade!Reading] /\ exposure \in Nat
    BY DEF Trade!TypeOK
  <1>2. Trade!LevShown \in Levels \cup {None}
    BY DEF Trade!TypeOK, Trade!LevShown
  <1>3. /\ one \in [Trade!Tasks -> Trade!Reading]
        /\ \A u \in Trade!Tasks \ {t} : one[u] = half[u]
        /\ one[t].pos = exposure /\ one[t].rest = half[t].rest /\ one[t].ver = half[t].ver
    BY <1>1 DEF Trade!Reading
  <1>4. half' = [one EXCEPT ![t].lev = Trade!LevShown]
    BY DEF Trade!ReadPositions
  <1> HIDE DEF one
  <1> QED
    BY <1>2, <1>3, <1>4 DEF Trade!Reading

LEMMA OrdersRead ==
  ASSUME Trade!TypeOK, NEW t \in Trade!Tasks, Trade!ReadOrders(t)
  PROVE  /\ half' \in [Trade!Tasks -> Trade!Reading]
         /\ \A u \in Trade!Tasks \ {t} : half'[u] = half[u]
         /\ half'[t].pos = half[t].pos /\ half'[t].lev = half[t].lev
         /\ half'[t].rest = resting /\ half'[t].ver = ver
  <1> DEFINE one == [half EXCEPT ![t].rest = resting]
  <1>1. half \in [Trade!Tasks -> Trade!Reading] /\ resting \in Nat /\ ver \in Nat
    BY DEF Trade!TypeOK
  <1>2. /\ one \in [Trade!Tasks -> Trade!Reading]
        /\ \A u \in Trade!Tasks \ {t} : one[u] = half[u]
        /\ one[t].rest = resting /\ one[t].pos = half[t].pos /\ one[t].lev = half[t].lev
    BY <1>1 DEF Trade!Reading
  <1>3. half' = [one EXCEPT ![t].ver = ver]
    BY DEF Trade!ReadOrders
  <1> HIDE DEF one
  <1> QED
    BY <1>1, <1>2, <1>3 DEF Trade!Reading

LEMMA TradeCoreInit == Trade!Init => TradeCore
  <1> SUFFICES ASSUME Trade!Init PROVE TradeCore
    OBVIOUS
  <1> USE TradeConstants DEF Trade!Init
  <1>1. Trade!Blank \in Trade!Reading
    BY DEF Trade!Blank, Trade!Reading
  <1>2. Trade!TypeOK
    <2>1. /\ modified \in [Trade!Tasks -> BOOLEAN] /\ interrupted \in [Trade!Tasks -> BOOLEAN]
          /\ kill \in BOOLEAN /\ locked \in BOOLEAN /\ stale \in BOOLEAN /\ foreign \in BOOLEAN
          /\ shut \in BOOLEAN /\ reopened \in BOOLEAN /\ adrift \in BOOLEAN
      OBVIOUS
    <2> QED
      BY <1>1, <2>1 DEF Trade!TypeOK, Trade!Phases
  <1>3. LockHeld /\ Rounds /\ NothingRests
    BY DEF LockHeld, Rounds, NothingRests, Inside, Reads, Acts
  <1> QED
    BY <1>2, <1>3 DEF TradeCore

LEMMA TradeCoreStep == TradeCore /\ [Trade!Next]_Trade!vars => TradeCore'
  <1> SUFFICES ASSUME TradeCore, [Trade!Next]_Trade!vars PROVE TradeCore'
    OBVIOUS
  <1>0. /\ kill' \in BOOLEAN /\ locked' \in BOOLEAN /\ epoch' \in Nat /\ reset' \in Nat
        /\ shut' \in BOOLEAN /\ reopened' \in BOOLEAN
    BY GuardsTyped DEF TradeCore
  <1> USE TradeConstants DEF TradeCore, Trade!TypeOK, LockHeld, Rounds, NothingRests, Inside,
        Reads, Acts, Trade!market, Trade!guards, Trade!locals, Trade!history
  <1>1. ASSUME NEW t \in Trade!Tasks, Trade!TaskStep(t) PROVE TradeCore'
    <2> USE DEF Trade!End, Trade!Goto, Trade!Leave, Trade!Phases
    <2>1. CASE Trade!Call(t)
      BY <1>0, <2>1 DEF Trade!Call
    <2>2. CASE Trade!ReadPositions(t)
      <3>1. half' \in [Trade!Tasks -> Trade!Reading]
        BY <2>2, PositionsRead
      <3>2. /\ pc[t] = "pos"
            /\ pc' = [pc EXCEPT ![t] = IF t \in Entries THEN "orders" ELSE "check"]
            /\ UNCHANGED <<exposure, resting, ver, leverage, late, holder, round, seen, epoch0, reset0,
                          modified, tries, want, interrupted, stale, foreign, adrift>>
        BY <2>2 DEF Trade!ReadPositions
      <3> QED
        BY <1>0, <3>1, <3>2
    <2>3. CASE Trade!ReadRaises(t)
      BY <1>0, <2>3 DEF Trade!ReadRaises
    <2>4. CASE Trade!ReadOrders(t)
      <3>1. half' \in [Trade!Tasks -> Trade!Reading]
        BY <2>4, OrdersRead
      <3>2. /\ pc[t] = "orders"
            /\ \/ pc' = [pc EXCEPT ![t] = "done"] /\ Trade!Leave(t)
               \/ t \in Amenders /\ pc' = [pc EXCEPT ![t] = "pos"] /\ UNCHANGED holder
               \/ round[t] = 3 /\ pc' = [pc EXCEPT ![t] = "apply"] /\ UNCHANGED holder
               \/ /\ round[t] # 3 /\ resting = 0
                  /\ pc' = [pc EXCEPT ![t] = "check"] /\ UNCHANGED holder
            /\ UNCHANGED <<exposure, resting, ver, leverage, late, round, seen, epoch0, reset0,
                          modified, tries, want, interrupted, stale, foreign, adrift>>
        BY <2>4 DEF Trade!ReadOrders
      <3> QED
        BY <1>0, <3>1, <3>2
    <2>5. CASE Trade!Check(t)
      BY <1>0, <2>5 DEF Trade!Check, Trade!Prepared, Trade!AmendChecked, Trade!Denied
    <2>6. CASE t \in Entries /\ Trade!Enter(t)
      BY <1>0, <2>6 DEF Trade!Enter, Trade!MayEnter
    <2>7. CASE t \in Entries /\ Trade!ApplyLeverage(t)
      BY <1>0, <2>7 DEF Trade!ApplyLeverage
    <2>8. CASE t \in Entries /\ Trade!Confirm(t)
      <3>1. modified' \in [Trade!Tasks -> BOOLEAN]
        BY <2>8 DEF Trade!Confirm
      <3> QED
        BY <1>0, <2>8, <3>1 DEF Trade!Confirm
    <2>9. CASE t \in Entries /\ Trade!Reconcile(t)
      <3>1. modified' \in [Trade!Tasks -> BOOLEAN]
        BY <2>9 DEF Trade!Reconcile
      <3> QED
        BY <1>0, <2>9, <3>1 DEF Trade!Reconcile
    <2>10. CASE t \in Entries /\ Trade!DelayedCheck(t)
      <3>1. adrift' \in BOOLEAN
        BY <2>10 DEF Trade!DelayedCheck, Trade!Delay
      <3> QED
        BY <1>0, <2>10, <3>1 DEF Trade!DelayedCheck, Trade!Delay, Trade!SettleRetries
    <2>11. CASE t \in Entries /\ Trade!Place(t)
      BY <1>0, <2>11 DEF Trade!Place, Trade!Created, Trade!Writes
    <2>12. CASE t \in Entries /\ Trade!CompareBeforeRollback(t)
      BY <1>0, <2>12 DEF Trade!CompareBeforeRollback
    <2>13. CASE t \in Entries /\ Trade!Undo(t)
      <3>1. leverage' \in Levels
        BY <2>13 DEF Trade!Undo, Trade!Reading
      <3> QED
        BY <1>0, <2>13, <3>1 DEF Trade!Undo
    <2>14. CASE t \in Entries /\ Trade!VerifyRollback(t)
      BY <1>0, <2>14 DEF Trade!VerifyRollback
    <2>15. CASE t \in Amenders /\ Trade!Amend(t)
      BY <1>0, <2>15 DEF Trade!Amend, Trade!AmendHolds, Trade!Writes
    <2> QED
      BY <1>1, <2>1, <2>2, <2>3, <2>4, <2>5, <2>6, <2>7, <2>8, <2>9, <2>10, <2>11, <2>12, <2>13,
         <2>14, <2>15 DEF Trade!TaskStep
  <1>2. ASSUME Trade!Environment PROVE TradeCore'
    <2> USE DEF Trade!Calm
    <2>1. CASE Trade!FillResting
      BY <1>0, <2>1 DEF Trade!FillResting
    <2>2. CASE Trade!CancelResting
      BY <1>0, <2>2 DEF Trade!CancelResting
    <2>3. CASE Trade!StopHit
      BY <1>0, <2>3 DEF Trade!StopHit
    <2>4. CASE Trade!Reduce
      BY <1>0, <2>4 DEF Trade!Reduce
    <2>5. CASE Trade!ManualClose
      BY <1>0, <2>5 DEF Trade!ManualClose, Trade!Bump, Trade!Interrupt, Trade!Running
    <2>6. CASE Trade!Reset
      BY <1>0, <2>6 DEF Trade!Reset, Trade!Interrupt, Trade!Running
    <2>7. CASE Trade!ChangedOutside
      BY <1>0, <2>7 DEF Trade!ChangedOutside
    <2>8. CASE Trade!LateCommit
      <3>1. leverage' \in Levels /\ late' \subseteq late
        BY <2>8 DEF Trade!LateCommit
      <3> QED
        BY <1>0, <2>8, <3>1 DEF Trade!LateCommit
    <2>9. CASE Trade!OperatorSets
      BY <1>0, <2>9 DEF Trade!OperatorSets
    <2>10. CASE Trade!LockedElsewhere
      BY <1>0, <2>10 DEF Trade!LockedElsewhere
    <2> QED
      BY <1>2, <2>1, <2>2, <2>3, <2>4, <2>5, <2>6, <2>7, <2>8, <2>9, <2>10 DEF Trade!Environment
  <1>3. CASE UNCHANGED Trade!vars
    BY <1>3 DEF Trade!vars
  <1> QED
    BY <1>1, <1>2, <1>3 DEF Trade!Next, Trade!Finished

-----------------------------------------------------------------------------
(* What a step of a task leaves alone.                                     *)

(* The other tasks, what the history and the request say, the generations. *)
(* Only at the end of its waiting does a task declare what is adrift.      *)
LEMMA TaskFrame ==
  ASSUME TradeCore, NEW t \in Trade!Tasks, Trade!TaskStep(t)
  PROVE  /\ UNCHANGED <<want, interrupted, foreign, epoch, reset, reopened>>
         /\ adrift' = adrift \/ (adrift' /\ t \in Entries /\ pc[t] = "delay")
         /\ \A u \in Trade!Tasks \ {t} :
              /\ pc'[u] = pc[u] /\ round'[u] = round[u] /\ seen'[u] = seen[u]
              /\ epoch0'[u] = epoch0[u] /\ reset0'[u] = reset0[u] /\ modified'[u] = modified[u]
         /\ pc[t] # "done" /\ pc'[t] # "call"
         /\ Trade!Call(t) \/ (pc[t] # "call" /\ UNCHANGED <<epoch0, reset0>>)
  <1> USE DEF TradeCore, Trade!TypeOK, Trade!Engage, Trade!market, Trade!guards, Trade!locals,
        Trade!history, Trade!End, Trade!Goto
  <1>1. CASE Trade!Call(t)
    BY <1>1 DEF Trade!Call
  <1>2. CASE Trade!ReadPositions(t) \/ Trade!ReadRaises(t) \/ Trade!ReadOrders(t)
    BY <1>2 DEF Trade!ReadPositions, Trade!ReadRaises, Trade!ReadOrders
  <1>3. CASE Trade!Check(t)
    BY <1>3 DEF Trade!Check, Trade!Prepared, Trade!AmendChecked, Trade!Denied
  <1>4. CASE Trade!Enter(t) \/ Trade!ApplyLeverage(t)
    BY <1>4 DEF Trade!Enter, Trade!ApplyLeverage
  <1>5. CASE Trade!Confirm(t) \/ Trade!Reconcile(t)
    BY <1>5 DEF Trade!Confirm, Trade!Reconcile
  <1>9. CASE t \in Entries /\ Trade!DelayedCheck(t)
    BY <1>9 DEF Trade!DelayedCheck, Trade!Delay
  <1>6. CASE Trade!Place(t)
    BY <1>6 DEF Trade!Place
  <1>7. CASE Trade!CompareBeforeRollback(t) \/ Trade!Undo(t) \/ Trade!VerifyRollback(t)
    BY <1>7 DEF Trade!CompareBeforeRollback, Trade!Undo, Trade!VerifyRollback
  <1>8. CASE Trade!Amend(t)
    BY <1>8 DEF Trade!Amend
  <1> QED
    BY <1>1, <1>2, <1>3, <1>4, <1>5, <1>6, <1>7, <1>8, <1>9 DEF Trade!TaskStep

(* What the environment leaves alone.                                      *)
LEMMA EnvironmentFrame ==
  ASSUME Trade!Environment
  PROVE  /\ UNCHANGED <<holder, pc, round, half, seen, epoch0, reset0, modified, want, stale, adrift>>
         /\ Trade!ManualClose \/ Trade!Reset \/ UNCHANGED <<epoch, reset, interrupted>>
  BY DEF Trade!Environment, Trade!FillResting, Trade!CancelResting, Trade!StopHit, Trade!Reduce,
     Trade!ManualClose, Trade!Reset, Trade!ChangedOutside, Trade!LateCommit, Trade!OperatorSets,
     Trade!LockedElsewhere, Trade!Engage, Trade!Calm, Trade!guards, Trade!locals, Trade!history

-----------------------------------------------------------------------------
(* Exposure.                                                               *)

Covered == HalfCovers /\ SeenCovers /\ ExposureBounded

LEMMA ExposureStep == TradeCore /\ Covered /\ [Trade!Next]_Trade!vars => Covered'
  <1> SUFFICES ASSUME TradeCore, Covered, [Trade!Next]_Trade!vars PROVE Covered'
    OBVIOUS
  <1> USE TradeConstants DEF TradeCore, Trade!TypeOK, LockHeld, Rounds, NothingRests, Inside, Reads,
        Acts, Trade!market, Trade!guards, Trade!locals, Trade!history,
        Covered, HalfCovers, SeenCovers, ExposureBounded, Trade!ExposureBounded, Trade!Exposure
  <1>0. \A t \in Entries :
          half[t].pos \in Nat /\ half[t].rest \in Nat /\ seen[t].pos \in Nat
    BY DEF Trade!Reading
  <1>1. ASSUME NEW t \in Trade!Tasks, Trade!TaskStep(t) PROVE Covered'
    <2> USE DEF Trade!End, Trade!Goto, Trade!Leave, Trade!Phases
    <2>1. CASE Trade!Call(t)
      BY <2>1 DEF Trade!Call
    <2>2. CASE Trade!ReadPositions(t)
      <3>1. /\ half' \in [Trade!Tasks -> Trade!Reading] /\ half'[t].pos = exposure
            /\ \A u \in Trade!Tasks \ {t} : half'[u] = half[u]
        BY <2>2, PositionsRead
      <3>2. /\ pc' = [pc EXCEPT ![t] = IF t \in Entries THEN "orders" ELSE "check"]
            /\ pc[t] = "pos" /\ UNCHANGED <<exposure, resting, round, seen>>
        BY <2>2 DEF Trade!ReadPositions
      <3> QED
        BY <3>1, <3>2
    <2>3. CASE Trade!ReadRaises(t)
      BY <2>3 DEF Trade!ReadRaises
    <2>4. CASE Trade!ReadOrders(t)
      <3>1. /\ half' \in [Trade!Tasks -> Trade!Reading] /\ half'[t].pos = half[t].pos
            /\ \A u \in Trade!Tasks \ {t} : half'[u] = half[u]
        BY <2>4, OrdersRead
      <3>2. /\ pc[t] = "orders" /\ \A u \in Trade!Tasks \ {t} : pc'[u] = pc[u]
            /\ UNCHANGED <<exposure, resting, round, seen>>
        BY <2>4 DEF Trade!ReadOrders
      <3>3. ASSUME NEW u \in Entries
            PROVE  /\ half'[u].pos = half[u].pos /\ seen'[u] = seen[u] /\ round'[u] = round[u]
                   /\ pc'[u] \in Inside => pc[u] \in Inside
                   /\ pc'[u] \in {"orders", "check"} => pc[u] \in {"orders", "check"}
        <4>1. CASE u = t
          BY <3>1, <3>2, <4>1
        <4>2. CASE u # t
          BY <3>1, <3>2, <4>2
        <4> QED
          BY <4>1, <4>2
      <3> QED
        BY <3>2, <3>3
    <2>5. CASE Trade!Check(t)
      <3>1. UNCHANGED <<exposure, resting, half>>
        BY <2>5 DEF Trade!Check
      <3>2. CASE Trade!Denied(t)
        BY <2>5, <3>1, <3>2 DEF Trade!Denied
      <3>3. CASE Trade!AmendChecked(t)
        BY <2>5, <3>1, <3>3 DEF Trade!AmendChecked
      <3>4. CASE Trade!Allowed(t) /\ Trade!Prepared(t)
        BY <1>0, <2>5, <3>1, <3>4 DEF Trade!Check, Trade!Prepared, Trade!Allowed
      <3> QED
        BY <2>5, <3>2, <3>3, <3>4 DEF Trade!Check
    <2>6. CASE t \in Entries /\ Trade!Enter(t)
      BY <2>6 DEF Trade!Enter, Trade!MayEnter
    <2>7. CASE t \in Entries /\ Trade!ApplyLeverage(t)
      BY <2>7 DEF Trade!ApplyLeverage
    <2>8. CASE t \in Entries /\ Trade!Confirm(t)
      BY <2>8 DEF Trade!Confirm
    <2>9. CASE t \in Entries /\ Trade!Reconcile(t)
      BY <2>9 DEF Trade!Reconcile
    <2>10. CASE t \in Entries /\ Trade!DelayedCheck(t)
      BY <2>10 DEF Trade!DelayedCheck, Trade!Delay, Trade!SettleRetries
    <2>11. CASE t \in Entries /\ Trade!Place(t)
      <3>1. \A u \in Entries : pc[u] \in Inside => u = t
        BY <2>11 DEF Trade!Place
      <3>2. resting = 0 /\ exposure + 1 <= Limit
        BY <1>0, <2>11 DEF Trade!Place
      <3>3. /\ pc'[t] \in {"done", "cas"} /\ \A u \in Trade!Tasks \ {t} : pc'[u] = pc[u]
            /\ UNCHANGED <<round, half, seen>>
            /\ exposure' = exposure \/ pc'[t] = "done"
            /\ exposure' + resting' \in {exposure + resting, exposure + resting + 1}
        BY <2>11 DEF Trade!Place, Trade!Created
      <3>4. ASSUME NEW u \in Entries
            PROVE  /\ pc'[u] \in Inside => u = t /\ exposure' = exposure
                   /\ pc'[u] \notin {"orders", "check"}
        <4>1. CASE u = t
          BY <3>3, <4>1
        <4>2. CASE u # t
          BY <3>1, <3>3, <4>2
        <4> QED
          BY <4>1, <4>2
      <3>5. exposure' + resting' <= Limit
        BY <3>2, <3>3
      <3> QED
        BY <3>1, <3>3, <3>4, <3>5, <2>11 DEF Trade!Place
    <2>12. CASE t \in Entries /\ Trade!CompareBeforeRollback(t)
      BY <2>12 DEF Trade!CompareBeforeRollback
    <2>13. CASE t \in Entries /\ Trade!Undo(t)
      BY <2>13 DEF Trade!Undo
    <2>14. CASE t \in Entries /\ Trade!VerifyRollback(t)
      BY <2>14 DEF Trade!VerifyRollback
    <2>15. CASE t \in Amenders /\ Trade!Amend(t)
      BY <2>15 DEF Trade!Amend, Trade!AmendHolds, Trade!Writes
    <2> QED
      BY <1>1, <2>1, <2>2, <2>3, <2>4, <2>5, <2>6, <2>7, <2>8, <2>9, <2>10, <2>11, <2>12, <2>13,
         <2>14, <2>15 DEF Trade!TaskStep
  <1>2. ASSUME Trade!Environment PROVE Covered'
    <2> USE DEF Trade!Calm
    <2>1. CASE Trade!FillResting
      BY <2>1 DEF Trade!FillResting
    <2>2. CASE Trade!CancelResting
      BY <2>2 DEF Trade!CancelResting
    <2>3. CASE Trade!StopHit
      BY <1>0, <2>3 DEF Trade!StopHit
    <2>4. CASE Trade!Reduce
      BY <2>4 DEF Trade!Reduce
    <2>5. CASE Trade!ManualClose
      BY <1>0, <2>5 DEF Trade!ManualClose, Trade!Bump, Trade!Interrupt, Trade!Running
    <2>6. CASE Trade!Reset
      BY <1>0, <2>6 DEF Trade!Reset, Trade!Interrupt, Trade!Running
    <2>7. CASE Trade!ChangedOutside
      BY <2>7 DEF Trade!ChangedOutside
    <2>8. CASE Trade!LateCommit
      BY <2>8 DEF Trade!LateCommit
    <2>9. CASE Trade!OperatorSets \/ Trade!LockedElsewhere
      BY <2>9 DEF Trade!OperatorSets, Trade!LockedElsewhere
    <2> QED
      BY <1>2, <2>1, <2>2, <2>3, <2>4, <2>5, <2>6, <2>7, <2>8, <2>9 DEF Trade!Environment
  <1>3. CASE UNCHANGED Trade!vars
    BY <1>3 DEF Trade!vars
  <1> QED
    BY <1>1, <1>2, <1>3 DEF Trade!Next, Trade!Finished


-----------------------------------------------------------------------------
(* Interruptions.                                                          *)

Undisturbed == InterruptionShows /\ NoStaleWrite

LEMMA GenerationStep == TradeCore /\ Undisturbed /\ [Trade!Next]_Trade!vars => Undisturbed'
  <1> SUFFICES ASSUME TradeCore, Undisturbed, [Trade!Next]_Trade!vars PROVE Undisturbed'
    OBVIOUS
  <1> USE TradeConstants DEF TradeCore, Trade!TypeOK, Undisturbed, InterruptionShows, NoStaleWrite,
        Trade!NoStaleWrite, Trade!Running, Trade!Intervened
  <1>1. ASSUME NEW t \in Trade!Tasks, Trade!TaskStep(t) PROVE Undisturbed'
    <2>1. stale' = FALSE
      <3>1. stale' = stale \/ (Trade!Writes(t) /\ ~Trade!Intervened(t) /\ pc[t] # "done")
        BY <1>1 DEF Trade!TaskStep, Trade!Call, Trade!ReadPositions, Trade!ReadRaises,
           Trade!ReadOrders, Trade!Check, Trade!Enter, Trade!ApplyLeverage, Trade!Confirm,
           Trade!Reconcile, Trade!DelayedCheck, Trade!Place, Trade!CompareBeforeRollback,
           Trade!Undo, Trade!VerifyRollback, Trade!Amend, Trade!AmendHolds, Trade!history
      <3> QED
        BY <3>1 DEF Trade!Writes
    <2>2. ASSUME NEW u \in Trade!Tasks \ {t}
          PROVE  /\ Trade!Running(u)' => epoch0'[u] <= epoch' /\ reset0'[u] <= reset'
                 /\ pc'[u] = "call" => ~interrupted'[u]
                 /\ interrupted'[u] /\ pc'[u] # "done" => Trade!Intervened(u)'
      BY <1>1, TaskFrame
    <2>3. CASE Trade!Call(t)
      <3>1. /\ epoch0'[t] = epoch' /\ reset0'[t] = reset' /\ ~interrupted'[t]
            /\ epoch' \in Nat /\ reset' \in Nat /\ pc'[t] # "call"
        BY <2>3 DEF Trade!Call, Trade!Goto, Trade!guards, Trade!history
      <3> QED
        BY <2>1, <2>2, <3>1
    <2>4. CASE pc[t] # "call" /\ UNCHANGED <<epoch0, reset0>>
      BY <1>1, TaskFrame, <2>1, <2>2, <2>4
    <2> QED
      BY <1>1, <2>3, <2>4, TaskFrame
  <1>2. ASSUME Trade!Environment PROVE Undisturbed'
    <2>1. CASE Trade!ManualClose
      BY <2>1 DEF Trade!ManualClose, Trade!Bump, Trade!Interrupt, Trade!locals
    <2>2. CASE Trade!Reset
      BY <2>2 DEF Trade!Reset, Trade!Interrupt, Trade!locals
    <2>3. CASE UNCHANGED <<epoch, reset, interrupted>>
      BY <1>2, <2>3, EnvironmentFrame
    <2> QED
      BY <1>2, <2>1, <2>2, <2>3, EnvironmentFrame
  <1>3. CASE UNCHANGED Trade!vars
    BY <1>3 DEF Trade!vars, Trade!guards, Trade!locals, Trade!history
  <1> QED
    BY <1>1, <1>2, <1>3 DEF Trade!Next, Trade!Finished

-----------------------------------------------------------------------------
(* The risk lock.                                                          *)

(* Only the placement of an entry adds to the exposure.                    *)
LEMMA OnlyPlaceGrows ==
  ASSUME TradeCore, [Trade!Next]_Trade!vars, Trade!Grows
  PROVE  \E t \in Entries :
           /\ pc[t] = "place" /\ ~Trade!Intervened(t) /\ leverage' = leverage
           /\ pc'[t] = "done" /\ \A u \in Trade!Tasks \ {t} : pc'[u] = pc[u]
  <1> USE TradeConstants DEF TradeCore, Trade!TypeOK, Trade!Grows
  <1>1. ASSUME NEW t \in Trade!Tasks, Trade!TaskStep(t),
               UNCHANGED <<exposure, resting>>
        PROVE  FALSE
    BY <1>1
  <1>2. ASSUME NEW t \in Entries, Trade!Place(t)
        PROVE  /\ pc[t] = "place" /\ ~Trade!Intervened(t) /\ leverage' = leverage
               /\ pc'[t] = "done" /\ \A u \in Trade!Tasks \ {t} : pc'[u] = pc[u]
    BY <1>2 DEF Trade!Place, Trade!End, Trade!Goto
  <1>3. ASSUME NEW t \in Amenders, Trade!Amend(t) PROVE FALSE
    BY <1>3 DEF Trade!Amend, Trade!AmendHolds
  <1>4. ASSUME NEW t \in Trade!Tasks, Trade!TaskStep(t)
        PROVE  UNCHANGED <<exposure, resting>> \/ (t \in Entries /\ Trade!Place(t))
    BY <1>3, <1>4 DEF Trade!TaskStep, Trade!Call, Trade!ReadPositions, Trade!ReadRaises,
       Trade!ReadOrders, Trade!Check, Trade!Enter, Trade!ApplyLeverage, Trade!Confirm,
       Trade!Reconcile, Trade!DelayedCheck, Trade!CompareBeforeRollback, Trade!Undo,
       Trade!VerifyRollback, Trade!market
  <1>5. ASSUME Trade!Environment PROVE FALSE
    <2>1. CASE Trade!FillResting \/ Trade!CancelResting \/ Trade!StopHit \/ Trade!Reduce
      BY <2>1 DEF Trade!FillResting, Trade!CancelResting, Trade!StopHit, Trade!Reduce
    <2>2. CASE Trade!ManualClose \/ Trade!Reset
      <3>1. exposure' = 0 \/ exposure' = exposure
        BY <2>2 DEF Trade!ManualClose, Trade!Reset
      <3>2. resting' = 0 \/ resting' = resting
        BY <2>2 DEF Trade!ManualClose, Trade!Reset
      <3>3. ~(exposure' + resting' > exposure + resting)
        BY <3>1, <3>2
      <3> QED
        BY <3>3
    <2>3. CASE Trade!ChangedOutside \/ Trade!LateCommit \/ Trade!LockedElsewhere \/ Trade!OperatorSets
      BY <2>3 DEF Trade!ChangedOutside, Trade!LateCommit, Trade!LockedElsewhere,
         Trade!OperatorSets, Trade!market
    <2> QED
      BY <1>5, <2>1, <2>2, <2>3 DEF Trade!Environment
  <1>6. CASE UNCHANGED Trade!vars
    BY <1>6 DEF Trade!vars, Trade!market
  <1> QED
    BY <1>1, <1>2, <1>4, <1>5, <1>6 DEF Trade!Next, Trade!Finished

(* A task engages the lock in the contract's lock, and ends.               *)
LEMMA TaskEngages ==
  ASSUME TradeCore, NEW t \in Trade!Tasks, Trade!TaskStep(t)
  PROVE  \/ UNCHANGED <<kill, locked, shut>>
         \/ t \in Entries /\ pc[t] \in Acts /\ Trade!Engage /\ pc'[t] = "done"
  <1> USE TradeConstants DEF TradeCore, Trade!TypeOK, Trade!guards, Acts, Trade!End, Trade!Goto
  <1>1. CASE t \in Entries /\ (Trade!Confirm(t) \/ Trade!Reconcile(t))
    BY <1>1 DEF Trade!Confirm, Trade!Reconcile
  <1>2. CASE t \in Entries /\ (Trade!DelayedCheck(t) \/ Trade!Place(t))
    BY <1>2 DEF Trade!DelayedCheck, Trade!Delay, Trade!Place
  <1>3. CASE t \in Entries /\ (Trade!CompareBeforeRollback(t) \/ Trade!Undo(t)
                                 \/ Trade!VerifyRollback(t))
    BY <1>3 DEF Trade!CompareBeforeRollback, Trade!Undo, Trade!VerifyRollback
  <1>4. CASE \/ Trade!Call(t) \/ Trade!ReadPositions(t) \/ Trade!ReadRaises(t)
             \/ Trade!ReadOrders(t) \/ Trade!Check(t) \/ Trade!Enter(t)
             \/ Trade!ApplyLeverage(t) \/ Trade!Amend(t)
    BY <1>4 DEF Trade!Call, Trade!ReadPositions, Trade!ReadRaises, Trade!ReadOrders, Trade!Check,
       Trade!Enter, Trade!ApplyLeverage, Trade!Amend
  <1> QED
    BY <1>1, <1>2, <1>3, <1>4 DEF Trade!TaskStep

(* The phases of an entry past its second reading.                         *)
LEMMA ThirdRound ==
  ASSUME TradeCore, NEW t \in Entries, Trade!TaskStep(t), round'[t] = 3,
         pc'[t] \in Uncommitted
  PROVE  (round[t] = 3 /\ pc[t] \in Uncommitted) \/ (Trade!Check(t) /\ ~kill)
  <1> USE TradeConstants DEF TradeCore, Trade!TypeOK, Rounds, Acts, Uncommitted, Trade!End,
        Trade!Goto
  <1>1. CASE Trade!Check(t)
    BY <1>1 DEF Trade!Check, Trade!Denied, Trade!Allowed, Trade!Prepared
  <1>2. CASE Trade!Call(t) \/ Trade!Enter(t)
    BY <1>2 DEF Trade!Call, Trade!Enter
  <1>3. CASE Trade!ReadPositions(t) \/ Trade!ReadRaises(t) \/ Trade!ReadOrders(t)
    BY <1>3 DEF Trade!ReadPositions, Trade!ReadRaises, Trade!ReadOrders
  <1>4. CASE Trade!ApplyLeverage(t) \/ Trade!Confirm(t) \/ Trade!Reconcile(t)
    BY <1>4 DEF Trade!ApplyLeverage, Trade!Confirm, Trade!Reconcile
  <1>5. CASE Trade!DelayedCheck(t) \/ Trade!Place(t)
    BY <1>5 DEF Trade!DelayedCheck, Trade!Delay, Trade!Place
  <1>6. CASE Trade!CompareBeforeRollback(t) \/ Trade!Undo(t) \/ Trade!VerifyRollback(t)
    BY <1>6 DEF Trade!CompareBeforeRollback, Trade!Undo, Trade!VerifyRollback
  <1> QED
    BY <1>1, <1>2, <1>3, <1>4, <1>5, <1>6 DEF Trade!TaskStep

LEMMA LockStep == TradeCore /\ ChecksHold /\ [Trade!Next]_Trade!vars => ChecksHold'
  <1> SUFFICES ASSUME TradeCore, ChecksHold, [Trade!Next]_Trade!vars PROVE ChecksHold'
    OBVIOUS
  <1> USE TradeConstants
  <1>0. Uncommitted \subseteq Inside
    BY DEF Uncommitted, Inside, Reads, Acts
  <1>1. ASSUME NEW t \in Trade!Tasks, Trade!TaskStep(t) PROVE ChecksHold'
    <2>1. shut' => kill'
      BY <1>1, TaskEngages, Engaging DEF ChecksHold, TradeCore
    <2> SUFFICES ASSUME NEW u \in Entries, round'[u] = 3, pc'[u] \in Uncommitted
                 PROVE  ~shut' /\ (~Remote => ~kill')
      BY <2>1 DEF ChecksHold
    <2>2. CASE u = t
      <3>1. UNCHANGED <<kill, shut>>
        BY <1>1, <2>2, TaskEngages DEF Uncommitted
      <3> QED
        BY <1>1, <2>2, <3>1, ThirdRound DEF ChecksHold
    <2>3. CASE u # t
      <3>1. round[u] = 3 /\ pc[u] \in Uncommitted
        BY <1>1, <2>3, TaskFrame
      <3>2. holder = u
        BY <1>0, <3>1 DEF TradeCore, LockHeld
      <3>3. UNCHANGED <<kill, shut>>
        BY <1>1, <2>3, <3>2, TaskEngages DEF TradeCore, LockHeld, Inside
      <3> QED
        BY <3>1, <3>3 DEF ChecksHold
    <2> QED
      BY <2>2, <2>3
  <1>2. ASSUME Trade!Environment PROVE ChecksHold'
    <2>1. UNCHANGED <<pc, round>>
      BY <1>2, EnvironmentFrame
    <2>2. ASSUME NEW u \in Entries, round[u] = 3, pc[u] \in Uncommitted
          PROVE  holder # None /\ (Trade!Quiet => Remote)
      <3>1. holder = u
        BY <1>0, <2>2 DEF TradeCore, LockHeld
      <3> QED
        BY <2>2, <3>1 DEF Trade!Quiet, Trade!Inline, Uncommitted
    <2>3. CASE Trade!Reduce
      <3>1. CASE Trade!Engage /\ holder = None
        BY <2>1, <2>2, <3>1, Engaging DEF ChecksHold, TradeCore
      <3>2. CASE UNCHANGED <<kill, shut>>
        BY <2>1, <3>2 DEF ChecksHold
      <3> QED
        BY <2>3, <3>1, <3>2 DEF Trade!Reduce, Trade!guards
    <2>4. CASE Trade!OperatorSets
      <3> PICK on \in OperatorMoves : kill' = on /\ shut' = (shut /\ on)
        BY <2>4 DEF Trade!OperatorSets
      <3>1. Trade!Quiet
        BY <2>4 DEF Trade!OperatorSets
      <3>2. shut' => shut /\ kill'
        OBVIOUS
      <3> QED
        BY <2>1, <2>2, <3>1, <3>2 DEF ChecksHold
    <2>5. CASE Trade!LockedElsewhere
      <3>1. Trade!Quiet /\ shut' = shut /\ kill'
        BY <2>5 DEF Trade!LockedElsewhere
      <3> QED
        BY <2>1, <2>2, <3>1 DEF ChecksHold
    <2>6. CASE UNCHANGED <<kill, shut>>
      BY <2>1, <2>6 DEF ChecksHold
    <2> QED
      BY <1>2, <2>3, <2>4, <2>5, <2>6 DEF Trade!Environment, Trade!FillResting,
         Trade!CancelResting, Trade!StopHit, Trade!ManualClose, Trade!Reset,
         Trade!ChangedOutside, Trade!LateCommit, Trade!guards
  <1>3. CASE UNCHANGED Trade!vars
    BY <1>3 DEF Trade!vars, Trade!guards, ChecksHold
  <1> QED
    BY <1>1, <1>2, <1>3 DEF Trade!Next, Trade!Finished

-----------------------------------------------------------------------------
(* Leverage.                                                               *)

(* What the agent has locked stays locked, as far as it knows; in the      *)
(* configuration only the operator releases it.                            *)
LEMMA LockStays ==
  ASSUME TradeCore, LateIsKnown, [Trade!Next]_Trade!vars
  PROVE  /\ locked => locked'
         /\ locked' => kill' \/ reopened'
         /\ reopened => reopened'
         /\ reopened' => locked'
  <1> USE DEF LateIsKnown
  <1>1. CASE Trade!Engage
    BY <1>1, Engaging DEF TradeCore
  <1>2. CASE UNCHANGED <<kill, locked, reopened>>
    BY <1>2
  <1>3. CASE Trade!OperatorSets
    <2> PICK on \in OperatorMoves : kill' = on /\ reopened' = (reopened \/ (locked /\ ~on))
      BY <1>3 DEF Trade!OperatorSets
    <2>1. locked' = locked
      BY <1>3 DEF Trade!OperatorSets
    <2> QED
      BY <2>1
  <1>4. CASE Trade!LockedElsewhere
    BY <1>4 DEF Trade!LockedElsewhere
  <1>5. ASSUME NEW t \in Trade!Tasks, Trade!TaskStep(t)
        PROVE  Trade!Engage \/ UNCHANGED <<kill, locked, reopened>>
    BY <1>5, TaskEngages, TaskFrame
  <1>6. CASE Trade!Environment
    BY <1>1, <1>2, <1>3, <1>4, <1>6 DEF Trade!Environment, Trade!FillResting, Trade!CancelResting,
       Trade!StopHit, Trade!Reduce, Trade!ManualClose, Trade!Reset, Trade!ChangedOutside,
       Trade!LateCommit, Trade!guards
  <1> QED
    BY <1>1, <1>2, <1>5, <1>6 DEF Trade!Next, Trade!Finished, Trade!vars, Trade!guards

(* What others do to the contract while an entry is inside its lock.       *)
LEMMA OthersKeep ==
  ASSUME TradeCore, Undisturbed, NEW u \in Entries, pc[u] \in Inside,
         Trade!Environment \/ \E t \in Trade!Tasks \ {u} : Trade!TaskStep(t)
  PROVE  /\ \/ leverage' = leverage \/ foreign' \/ reset' # reset0'[u]
            \/ \E t \in late : late' = late \ {t}
         /\ resting = 0 => exposure' <= exposure
         /\ late' \subseteq late
         /\ Excused => Excused'
         /\ reset # reset0[u] => reset' # reset0'[u]
         /\ reset0'[u] = reset0[u] /\ want' = want
         /\ pc'[u] = pc[u] /\ round'[u] = round[u] /\ seen'[u] = seen[u] /\ half'[u] = half[u]
  <1> USE TradeConstants DEF TradeCore, Trade!TypeOK
  <1>0. /\ u \in Trade!Tasks /\ reset0[u] <= reset /\ reset0[u] \in Nat
        /\ \A t \in Entries : pc[t] \in Inside => t = u
    BY DEF Undisturbed, InterruptionShows, Trade!Running, LockHeld, Inside, Reads, Acts
  <1>1. ASSUME NEW t \in Trade!Tasks, t # u, Trade!TaskStep(t)
        PROVE  /\ leverage' = leverage /\ late' = late
               /\ resting = 0 => exposure' <= exposure
               /\ half'[u] = half[u]
    <2> USE <1>0 DEF Inside, Reads, Acts, Trade!market, Trade!locals
    <2>1. CASE Trade!Call(t) \/ Trade!ReadRaises(t) \/ Trade!Check(t) \/ Trade!Enter(t)
      BY <2>1 DEF Trade!Call, Trade!ReadRaises, Trade!Check, Trade!Enter
    <2>2. CASE Trade!ReadPositions(t)
      <3>1. UNCHANGED <<exposure, resting, leverage, late>>
        BY <2>2 DEF Trade!ReadPositions
      <3> QED
        BY <1>1, <2>2, <3>1, PositionsRead
    <2>3. CASE Trade!ReadOrders(t)
      <3>1. UNCHANGED <<exposure, resting, leverage, late>>
        BY <2>3 DEF Trade!ReadOrders
      <3> QED
        BY <1>1, <2>3, <3>1, OrdersRead
    <2>4. CASE t \in Amenders /\ Trade!Amend(t)
      BY <2>4 DEF Trade!Amend, Trade!AmendHolds
    <2>5. CASE t \in Entries /\ pc[t] \in Acts
      BY <1>1, <2>5
    <2> QED
      BY <1>1, <2>1, <2>2, <2>3, <2>4, <2>5 DEF Trade!TaskStep, Trade!ApplyLeverage,
         Trade!Confirm, Trade!Reconcile, Trade!DelayedCheck, Trade!Place,
         Trade!CompareBeforeRollback, Trade!Undo, Trade!VerifyRollback
  <1>2. ASSUME Trade!Environment
        PROVE  /\ \/ leverage' = leverage \/ foreign' \/ reset' = reset + 1
                  \/ \E t \in late : late' = late \ {t}
               /\ resting = 0 => exposure' <= exposure
               /\ late' \subseteq late
               /\ Excused => Excused'
               /\ reset' = reset \/ reset' = reset + 1
    <2> USE DEF Excused
    <2>0. adrift' = adrift
      BY <1>2, EnvironmentFrame
    <2>1. CASE Trade!FillResting \/ Trade!CancelResting \/ Trade!StopHit
      BY <2>1 DEF Trade!FillResting, Trade!CancelResting, Trade!StopHit, Trade!Calm,
         Trade!history, Trade!guards
    <2>2. CASE Trade!Reduce
      <3>1. exposure' \in 0..exposure /\ resting' = resting
        BY <2>2 DEF Trade!Reduce
      <3>2. UNCHANGED <<leverage, late, reset, reopened, foreign>>
        BY <2>2, Engaging DEF Trade!Reduce, Trade!Calm, Trade!history, Trade!guards
      <3> QED
        BY <2>0, <3>1, <3>2
    <2>3. CASE Trade!ManualClose
      <3>1. exposure' \in {0, exposure} /\ UNCHANGED <<leverage, late, reset, reopened, foreign>>
        BY <2>3 DEF Trade!ManualClose
      <3> QED
        BY <2>0, <3>1
    <2>4. CASE Trade!Reset
      BY <2>4 DEF Trade!Reset
    <2>5. CASE Trade!ChangedOutside
      BY <2>5 DEF Trade!ChangedOutside, Trade!guards
    <2>6. CASE Trade!LateCommit
      <3>1. UNCHANGED <<exposure, reset, reopened, foreign>>
        BY <2>6 DEF Trade!LateCommit, Trade!Calm, Trade!history, Trade!guards
      <3>2. \E t \in late : late' = late \ {t}
        BY <2>6 DEF Trade!LateCommit
      <3> QED
        BY <2>0, <3>1, <3>2
    <2>7. CASE Trade!OperatorSets \/ Trade!LockedElsewhere
      BY <2>0, <2>7 DEF Trade!OperatorSets, Trade!LockedElsewhere, Trade!Calm, Trade!history,
         Trade!market
    <2> QED
      BY <1>2, <2>1, <2>2, <2>3, <2>4, <2>5, <2>6, <2>7 DEF Trade!Environment
  <1>3. CASE Trade!Environment
    BY <1>0, <1>2, <1>3, EnvironmentFrame
  <1>4. CASE \E t \in Trade!Tasks \ {u} : Trade!TaskStep(t)
    <2> PICK t \in Trade!Tasks \ {u} : Trade!TaskStep(t)
      BY <1>4
    <2> QED
      BY <1>0, <1>1, TaskFrame DEF Excused
  <1> QED
    BY <1>3, <1>4

(* A reconciliation that goes on to the order has found the leverage asked *)
(* for, and no late commit is left to change it.                           *)
LEMMA Reconciled ==
  ASSUME TradeCore, LateIsKnown, NEW t \in Entries, Sized(t), Trade!Reconcile(t),
         pc'[t] = "place"
  PROVE  leverage = want[t] /\ (late = {} \/ Excused)
  <1> USE TradeConstants DEF TradeCore, Trade!TypeOK
  <1>1. pc[t] = "reconcile" /\ Trade!LevShown = want[t] /\ want[t] \in Levels
    BY DEF Trade!Reconcile, Trade!Goto, Trade!End
  <1>2. leverage = want[t] /\ exposure # 0
    BY <1>1 DEF Trade!LevShown
  <1>3. ASSUME t \in late PROVE Excused
    BY <1>1, <1>2, <1>3 DEF Sized, Unknown, Matches, LateIsKnown
  <1>4. late \subseteq {t} \/ Excused
    BY <1>1 DEF Sized, Unknown
  <1> QED
    BY <1>2, <1>3, <1>4

LEMMA LateStep ==
  TradeCore /\ Undisturbed /\ Levered /\ [Trade!Next]_Trade!vars => LateIsKnown'
  <1> SUFFICES ASSUME TradeCore, Undisturbed, Levered, [Trade!Next]_Trade!vars
               PROVE  LateIsKnown'
    OBVIOUS
  <1>0. (locked => locked') /\ (locked' => kill' \/ reopened') /\ (reopened' => locked')
    BY LockStays DEF Levered
  <1> USE TradeConstants
  <1>1. ASSUME NEW t \in Trade!Tasks, Trade!TaskStep(t) PROVE LateIsKnown'
    <2>1. Remote => reset' = 0 /\ \A u \in Entries : reset0'[u] = 0
      <3>1. CASE Trade!Call(t)
        BY <3>1 DEF Trade!Call, Levered, LateIsKnown, TradeCore, Trade!TypeOK, Trade!guards
      <3>2. CASE UNCHANGED reset0
        BY <1>1, <3>2, TaskFrame DEF Levered, LateIsKnown
      <3> QED
        BY <1>1, <3>1, <3>2, TaskFrame
    <2>2. \/ late' = late
          \/ t \in Entries /\ Remote /\ late' = late \cup {t} /\ pc'[t] = "reconcile"
      BY <1>1 DEF Trade!TaskStep, Trade!Call, Trade!ReadPositions, Trade!ReadRaises,
         Trade!ReadOrders, Trade!Check, Trade!Enter, Trade!ApplyLeverage, Trade!Confirm,
         Trade!Reconcile, Trade!DelayedCheck, Trade!Place, Trade!CompareBeforeRollback,
         Trade!Undo, Trade!VerifyRollback, Trade!Amend, Trade!market, Trade!Goto,
         TradeCore, Trade!TypeOK
    <2>3. foreign' = foreign /\ (adrift => adrift') /\ late \subseteq Entries
      BY <1>1, TaskFrame DEF TradeCore, Trade!TypeOK
    <2>4. ASSUME NEW u \in late'
          PROVE  locked' \/ foreign' \/ adrift' \/ pc'[u] \in Unknown
      <3>1. CASE u \notin late
        BY <2>2, <2>4, <3>1 DEF Unknown
      <3>2. CASE u \in late /\ (locked \/ foreign \/ adrift)
        BY <1>0, <2>3, <3>2
      <3>3. CASE u \in late /\ pc[u] \in Unknown /\ u # t
        BY <1>1, <2>3, <3>3, TaskFrame
      <3>4. CASE u \in late /\ u = t /\ pc[t] = "reconcile"
        <4>1. Trade!Reconcile(t)
          BY <1>1, <2>3, <3>4 DEF Trade!TaskStep, Trade!Call, Trade!ReadPositions, Trade!ReadRaises,
             Trade!ReadOrders, Trade!Check, Trade!Enter, Trade!ApplyLeverage, Trade!Confirm,
             Trade!DelayedCheck, Trade!Place, Trade!CompareBeforeRollback, Trade!Undo,
             Trade!VerifyRollback
        <4>2. pc'[t] = "place" \/ pc'[t] = "delay" \/ Trade!Engage
          BY <2>3, <3>4, <4>1 DEF Trade!Reconcile, Trade!Goto, TradeCore, Trade!TypeOK
        <4>3. CASE pc'[t] = "place"
          <5>1. Excused
            BY <2>3, <3>4, <4>1, <4>3, Reconciled DEF Levered
          <5> QED
            BY <1>0, <2>3, <5>1 DEF Excused, Levered, LateIsKnown
        <4> QED
          BY <2>3, <3>4, <4>2, <4>3, Engaging DEF Unknown, TradeCore
      <3>5. CASE u \in late /\ u = t /\ pc[t] = "delay"
        <4>1. Trade!DelayedCheck(t)
          BY <1>1, <2>3, <3>5 DEF Trade!TaskStep, Trade!Call, Trade!ReadPositions, Trade!ReadRaises,
             Trade!ReadOrders, Trade!Check, Trade!Enter, Trade!ApplyLeverage, Trade!Confirm,
             Trade!Reconcile, Trade!Place, Trade!CompareBeforeRollback, Trade!Undo,
             Trade!VerifyRollback
        <4>2. pc'[t] = "delay" \/ adrift' \/ Trade!Engage
          BY <3>5, <4>1 DEF Trade!DelayedCheck, Trade!Delay
        <4> QED
          BY <3>5, <4>2, Engaging DEF Unknown, TradeCore
      <3> QED
        BY <3>1, <3>2, <3>3, <3>4, <3>5 DEF Levered, LateIsKnown, Unknown
    <2>5. late' # {} => Remote
      BY <2>2 DEF Levered, LateIsKnown
    <2> QED
      BY <1>0, <2>1, <2>4, <2>5 DEF LateIsKnown
  <1>2. ASSUME Trade!Environment PROVE LateIsKnown'
    <2>1. pc' = pc /\ reset0' = reset0 /\ adrift' = adrift
      BY <1>2, EnvironmentFrame
    <2>2. late' \subseteq late /\ (foreign => foreign')
      <3>1. CASE Trade!FillResting \/ Trade!CancelResting \/ Trade!StopHit \/ Trade!Reduce
        BY <3>1 DEF Trade!FillResting, Trade!CancelResting, Trade!StopHit, Trade!Reduce,
           Trade!Calm, Trade!history
      <3>2. CASE Trade!ManualClose \/ Trade!Reset \/ Trade!ChangedOutside
        <4>1. late' = late
          BY <3>2 DEF Trade!ManualClose, Trade!Reset, Trade!ChangedOutside
        <4>2. foreign' = foreign \/ foreign' = TRUE
          BY <3>2 DEF Trade!ManualClose, Trade!Reset, Trade!ChangedOutside
        <4> QED
          BY <4>1, <4>2
      <3>3. CASE Trade!LateCommit
        <4>1. late' \subseteq late
          BY <3>3 DEF Trade!LateCommit
        <4> QED
          BY <3>3, <4>1 DEF Trade!LateCommit, Trade!Calm, Trade!history
      <3>4. CASE Trade!LockedElsewhere \/ Trade!OperatorSets
        BY <3>4 DEF Trade!LockedElsewhere, Trade!OperatorSets, Trade!Calm, Trade!history,
           Trade!market
      <3> QED
        BY <1>2, <3>1, <3>2, <3>3, <3>4 DEF Trade!Environment
    <2>3. Remote => reset' = reset
      BY <1>2, EnvironmentFrame DEF Trade!ManualClose, Trade!Reset
    <2> QED
      BY <1>0, <2>1, <2>2, <2>3 DEF Levered, LateIsKnown
  <1>3. CASE UNCHANGED Trade!vars
    BY <1>3 DEF Trade!vars, Trade!guards, Trade!market, Trade!locals, Trade!history, Levered,
       LateIsKnown
  <1> QED
    BY <1>1, <1>2, <1>3 DEF Trade!Next, Trade!Finished

(* What the others do leaves an entry knowing what it knew.                *)
LEMMA SizedStays ==
  ASSUME TradeCore, Undisturbed, Levered, locked => locked', NEW u \in Entries, pc[u] \in Inside,
         Trade!Environment \/ \E t \in Trade!Tasks \ {u} : Trade!TaskStep(t)
  PROVE  Sized(u)'
  <1> USE TradeConstants DEF TradeCore, Trade!TypeOK, Inside, Reads, Acts, Unknown
  <1>1. /\ \/ leverage' = leverage \/ foreign' \/ reset' # reset0'[u]
           \/ \E t \in late : late' = late \ {t}
        /\ resting = 0 => exposure' <= exposure
        /\ late' \subseteq late
        /\ Excused => Excused'
        /\ reset # reset0[u] => reset' # reset0'[u]
        /\ want' = want
        /\ pc'[u] = pc[u] /\ round'[u] = round[u] /\ seen'[u] = seen[u] /\ half'[u] = half[u]
    BY OthersKeep
  <1>2. Sized(u)
    BY DEF Levered
  <1>3. exposure' \in Nat
    BY TradeCoreStep DEF Trade!Next
  <1>4. ASSUME NEW reading, Matches(reading, u), resting = 0,
               late = {} \/ Excused \/ leverage' = leverage
        PROVE  \/ Excused' \/ reset' # reset0'[u]
               \/ reading.lev = None /\ exposure' = 0
               \/ reading.lev = leverage'
    BY <1>1, <1>3, <1>4 DEF Matches, Excused
  <1>5. round[u] >= 2 => resting = 0
    BY DEF NothingRests
  <1>6. round[u] = 3 /\ pc[u] \in Inside \ Unknown => late' = {} \/ Excused'
    BY <1>1, <1>2 DEF Sized
  <1>7. ASSUME round[u] = 2, pc[u] \in {"orders", "check"}
        PROVE  locked' \/ Matches(half[u], u)'
    <2>1. ASSUME NEW t \in late PROVE locked \/ foreign \/ adrift
      <3>1. t \in Entries /\ (pc[t] \in Unknown => t = u)
        BY DEF LockHeld
      <3> QED
        BY <1>7, <3>1 DEF Levered, LateIsKnown
    <2>2. locked \/ late = {} \/ Excused
      BY <2>1 DEF Excused
    <2> QED
      BY <1>1, <1>2, <1>4, <1>5, <1>7, <2>2 DEF Sized, Matches
  <1>8. ASSUME round[u] = 3, pc[u] \in {"pos", "orders", "apply"}
        PROVE  Matches(seen[u], u)'
    BY <1>1, <1>2, <1>4, <1>5, <1>8 DEF Sized, Matches
  <1>9. ASSUME pc[u] \in Unknown
        PROVE  /\ seen[u].lev # want[u]
               /\ late' \subseteq {u} \/ Excused'
               /\ u \in late' => Matches(seen[u], u)'
    <2>1. round[u] = 3 /\ seen[u].lev # want[u] /\ (late \subseteq {u} \/ Excused)
      BY <1>2, <1>9 DEF Sized, Rounds
    <2>2. ASSUME u \in late' PROVE Matches(seen[u], u)'
      <3>1. Matches(seen[u], u)
        BY <1>1, <1>2, <1>9, <2>2 DEF Sized
      <3>2. CASE Excused
        BY <1>1, <3>2 DEF Matches
      <3>3. CASE late \subseteq {u}
        <4>1. ~ \E t \in late : late' = late \ {t}
          BY <2>2, <3>3
        <4>2. leverage' = leverage \/ foreign' \/ reset' # reset0'[u]
          BY <1>1, <4>1
        <4> QED
          BY <1>1, <1>4, <1>5, <2>1, <3>1, <4>2 DEF Matches, Excused
      <3> QED
        BY <2>1, <3>2, <3>3
    <2> QED
      BY <1>1, <2>1, <2>2
  <1>10. ASSUME pc[u] \in {"confirm", "place"}
         PROVE  Excused' \/ reset' # reset0'[u] \/ leverage' = want[u]
    BY <1>1, <1>2, <1>10 DEF Sized, Rounds, Excused
  <1> QED
    BY <1>1, <1>6, <1>7, <1>8, <1>9, <1>10 DEF Sized

(* What an entry does itself is based on what it knows.                    *)
LEMMA SizedStep ==
  ASSUME TradeCore, Levered, NEW u \in Entries, Trade!TaskStep(u)
  PROVE  Sized(u)'
  <1> USE TradeConstants DEF TradeCore, Trade!TypeOK
  <1>1. Sized(u) /\ (pc[u] \in {"call", "wait"} => round[u] = 1) /\ (pc[u] = "check" => round[u] # 3)
    BY DEF Levered, Rounds
  <1>2. /\ UNCHANGED <<want, foreign, reopened, reset>> /\ pc[u] # "done"
        /\ Trade!Call(u) \/ UNCHANGED reset0
        /\ adrift' = adrift \/ (adrift' /\ pc[u] = "delay")
    BY TaskFrame
  <1>14. (Excused => Excused') /\ (pc[u] # "delay" => Excused' = Excused)
    BY <1>2 DEF Excused
  <1>3. CASE pc'[u] \notin Inside
    BY <1>3 DEF Sized, Inside, Reads, Acts, Unknown
  <1>4. CASE Trade!Call(u) \/ Trade!ReadRaises(u) \/ Trade!VerifyRollback(u)
    <2>1. pc'[u] \notin Inside
      BY <1>4 DEF Trade!Call, Trade!ReadRaises, Trade!VerifyRollback, Trade!End, Trade!Goto,
         Inside, Reads, Acts
    <2> QED
      BY <1>3, <2>1
  <1>5. CASE Trade!Enter(u)
    <2>1. pc'[u] = "pos" /\ round'[u] = 1
      BY <1>1, <1>5 DEF Trade!Enter, Trade!Goto
    <2> QED
      BY <2>1 DEF Sized, Unknown
  <1>6. CASE Trade!ReadPositions(u)
    <2>1. /\ pc[u] = "pos" /\ pc'[u] = "orders"
          /\ UNCHANGED <<exposure, leverage, late, round, seen, reset0>>
      BY <1>6 DEF Trade!ReadPositions, Trade!Goto, Trade!market
    <2>2. half'[u].lev = Trade!LevShown
      BY <1>6, PositionsRead
    <2> QED
      BY <1>1, <1>2, <1>14, <2>1, <2>2 DEF Sized, Matches, Trade!LevShown, Unknown, Inside, Reads, Acts
  <1>7. CASE Trade!ReadOrders(u)
    <2>1. /\ pc[u] = "orders" /\ UNCHANGED <<exposure, leverage, late, locked, round, seen, reset0>>
          /\ pc'[u] = "done" \/ (pc'[u] = "apply" /\ round[u] = 3)
               \/ (pc'[u] = "check" /\ round[u] # 3)
      BY <1>7 DEF Trade!ReadOrders, Trade!Goto, Trade!End, Trade!market, Trade!guards
    <2>2. half'[u].lev = half[u].lev
      BY <1>7, OrdersRead
    <2> QED
      BY <1>1, <1>2, <1>14, <2>1, <2>2 DEF Sized, Matches, Unknown, Inside, Reads, Acts
  <1>8. CASE Trade!Check(u)
    <2>1. /\ pc[u] = "check" /\ UNCHANGED <<exposure, leverage, late, reset0>>
      BY <1>8 DEF Trade!Check, Trade!market
    <2>2. CASE pc'[u] = "pos" /\ round'[u] = 2
      BY <2>2 DEF Sized, Unknown
    <2>3. CASE pc'[u] = "pos" /\ round[u] = 2 /\ half[u] = seen[u] /\ seen' = seen /\ ~kill
      <3>1. locked => Excused
        BY <2>3 DEF Levered, LateIsKnown, Excused
      <3>2. ASSUME NEW t \in late PROVE Excused
        <4>1. t \in Entries /\ (pc[t] \in Unknown => t = u)
          BY <2>1 DEF LockHeld, Unknown, Inside, Reads, Acts
        <4> QED
          BY <2>1, <3>1, <4>1 DEF Levered, LateIsKnown, Excused, Unknown
      <3>3. Matches(seen[u], u)
        BY <1>1, <2>1, <2>3, <3>1 DEF Sized, Matches
      <3> QED
        BY <1>2, <1>14, <2>1, <2>3, <3>2, <3>3 DEF Sized, Matches, Unknown
    <2>4. \/ pc'[u] = "done"
          \/ pc'[u] = "pos" /\ round'[u] = 2
          \/ pc'[u] = "pos" /\ round[u] = 2 /\ half[u] = seen[u] /\ seen' = seen /\ ~kill
      BY <1>8 DEF Trade!Check, Trade!Prepared, Trade!AmendChecked, Trade!Denied, Trade!Allowed,
         Trade!Goto, Trade!End
    <2> QED
      BY <1>3, <2>2, <2>3, <2>4 DEF Inside, Reads, Acts
  <1>9. CASE Trade!ApplyLeverage(u)
    <2>1. /\ pc[u] = "apply" /\ UNCHANGED <<exposure, round, seen, reset0>> /\ round[u] = 3
          /\ want[u] \in Levels
          /\ \/ /\ seen[u].lev = want[u] /\ pc'[u] = "place" /\ UNCHANGED <<leverage, late>>
             \/ /\ seen[u].lev # want[u]
                /\ \/ leverage' = want[u] /\ pc'[u] \in {"confirm", "reconcile"} /\ UNCHANGED late
                   \/ /\ pc'[u] = "reconcile" /\ leverage' = leverage
                      /\ late' \in {late, late \cup {u}}
      BY <1>9 DEF Trade!ApplyLeverage, Trade!Goto, Trade!locals, Rounds, Acts
    <2>2. Matches(seen[u], u) /\ (late = {} \/ Excused)
      BY <1>1, <2>1 DEF Sized, Unknown, Inside, Acts
    <2>3. Excused' = Excused
      BY <1>14, <2>1
    <2>4. late' = {} \/ late' = {u} \/ Excused
      BY <2>1, <2>2
    <2>5. u \in late' => Matches(seen[u], u)'
      BY <1>2, <2>1, <2>2, <2>3 DEF Matches
    <2>6. pc'[u] \in {"confirm", "place"} =>
            late' = late /\ (Excused \/ reset # reset0[u] \/ leverage' = want[u])
      BY <2>1, <2>2 DEF Matches
    <2>7. pc'[u] \in {"confirm", "place"} \/ (pc'[u] = "reconcile" /\ seen[u].lev # want[u])
      BY <2>1
    <2> QED
      BY <1>2, <2>1, <2>2, <2>3, <2>4, <2>5, <2>6, <2>7 DEF Sized, Unknown
  <1>10. CASE Trade!Confirm(u)
    <2>1. /\ pc[u] = "confirm" /\ UNCHANGED <<leverage, late, round, seen, reset0>>
          /\ pc'[u] \in {"place", "done"}
      BY <1>10 DEF Trade!Confirm, Trade!Goto, Trade!End, Trade!market
    <2> QED
      BY <1>1, <1>2, <1>14, <2>1 DEF Sized, Unknown, Inside, Reads, Acts
  <1>11. CASE Trade!Reconcile(u)
    <2>1. /\ pc[u] = "reconcile" /\ UNCHANGED <<exposure, leverage, late, round, seen, reset0>>
          /\ pc'[u] \in {"place", "delay", "done"}
      BY <1>11 DEF Trade!Reconcile, Trade!Goto, Trade!End, Trade!market
    <2>2. CASE pc'[u] = "place"
      BY <1>1, <1>2, <1>14, <1>11, <2>1, <2>2, Reconciled DEF Sized, Levered, Unknown
    <2>3. CASE pc'[u] = "delay"
      BY <1>1, <1>2, <1>14, <2>1, <2>3 DEF Sized, Matches, Unknown
    <2> QED
      BY <1>3, <2>1, <2>2, <2>3 DEF Inside, Reads, Acts
  <1>12. CASE Trade!DelayedCheck(u)
    <2>1. /\ pc[u] = "delay" /\ UNCHANGED <<exposure, leverage, late, round, seen, reset0>>
          /\ pc'[u] \in {"delay", "done"}
      BY <1>12 DEF Trade!DelayedCheck, Trade!Delay, Trade!Goto, Trade!End, Trade!market
    <2> QED
      BY <1>1, <1>2, <1>14, <1>3, <2>1 DEF Sized, Matches, Unknown, Inside, Reads, Acts
  <1>13. CASE Trade!Place(u) \/ Trade!CompareBeforeRollback(u) \/ Trade!Undo(u)
    <2>1. /\ pc[u] \in {"place", "cas", "undo"} /\ UNCHANGED <<late, round>>
          /\ pc'[u] \in {"cas", "undo", "verify", "done"}
      BY <1>13 DEF Trade!Place, Trade!CompareBeforeRollback, Trade!Undo, Trade!Goto, Trade!End,
         Trade!market
    <2> QED
      BY <1>1, <1>2, <1>14, <2>1 DEF Sized, Unknown, Inside, Reads, Acts
  <1> QED
    BY <1>4, <1>5, <1>6, <1>7, <1>8, <1>9, <1>10, <1>11, <1>12, <1>13 DEF Trade!TaskStep

LEMMA LeverageStep ==
  TradeCore /\ Undisturbed /\ Levered /\ [Trade!Next]_Trade!vars => Levered'
  <1> SUFFICES ASSUME TradeCore, Undisturbed, Levered, [Trade!Next]_Trade!vars,
                      NEW u \in Entries
               PROVE  Sized(u)'
    BY LateStep DEF Levered
  <1>0. locked => locked'
    BY LockStays DEF Levered
  <1>1. ASSUME NEW t \in Trade!Tasks, Trade!TaskStep(t) PROVE Sized(u)'
    <2>1. CASE t = u
      BY <1>1, <2>1, SizedStep
    <2>2. CASE t # u /\ pc[u] \in Inside
      BY <1>0, <1>1, <2>2, SizedStays
    <2>3. CASE t # u /\ pc[u] \notin Inside
      <3>1. pc'[u] \notin Inside
        BY <1>1, <2>3, TaskFrame, TradeConstants
      <3> QED
        BY <3>1 DEF Sized, Inside, Reads, Acts, Unknown
    <2> QED
      BY <2>1, <2>2, <2>3
  <1>2. ASSUME Trade!Environment PROVE Sized(u)'
    <2>1. CASE pc[u] \in Inside
      BY <1>0, <1>2, <2>1, SizedStays
    <2>2. CASE pc[u] \notin Inside
      <3>1. pc'[u] \notin Inside
        BY <1>2, <2>2, EnvironmentFrame
      <3> QED
        BY <3>1 DEF Sized, Inside, Reads, Acts, Unknown
    <2> QED
      BY <2>1, <2>2
  <1>3. CASE UNCHANGED Trade!vars
    BY <1>3 DEF Trade!vars, Trade!guards, Trade!market, Trade!locals, Trade!history, Levered,
       Sized, Matches, Excused
  <1> QED
    BY <1>1, <1>2, <1>3 DEF Trade!Next, Trade!Finished

-----------------------------------------------------------------------------
(* Type correctness of the transaction, for any tasks and bounds; its lock *)
(* has one holder, who is the only entry that reads or acts.               *)
THEOREM TransactionTyped == Trade!Spec => []TradeCore
<1> QED
  BY TradeCoreInit, TradeCoreStep, PTL DEF Trade!Spec

(* place_order and the amendments: what the risk rules checked three jobs  *)
(* earlier still holds when the order is created.  Inductive with what the *)
(* readings have seen: the position can only have become smaller since.    *)
THEOREM ExposureKept == Trade!Spec => []ExposureBounded
<1>1. Trade!Init => Covered
  <2> SUFFICES ASSUME Trade!Init PROVE Covered
    OBVIOUS
  <2>1. exposure + resting <= Limit
    BY TradeConstants DEF Trade!Init
  <2> QED
    BY <2>1, TradeConstants DEF Trade!Init, Covered, HalfCovers, SeenCovers, ExposureBounded,
       Trade!ExposureBounded, Trade!Exposure, Inside, Reads, Acts
<1>2. Covered => ExposureBounded
  BY DEF Covered
<1> QED
  BY <1>1, <1>2, TradeCoreInit, TradeCoreStep, ExposureStep, PTL DEF Trade!Spec

LEMMA UndisturbedInit == Trade!Init => Undisturbed
  BY TradeConstants DEF Trade!Init, Undisturbed, InterruptionShows, NoStaleWrite,
     Trade!NoStaleWrite, Trade!Running

(* close_position and paper_reset raise a generation that every pending    *)
(* order and amendment compares inside the job that sends it: none that    *)
(* has been overtaken is sent.                                             *)
THEOREM StaleNeverSent == Trade!Spec => []NoStaleWrite
<1>1. Undisturbed => NoStaleWrite
  BY DEF Undisturbed
<1> QED
  BY <1>1, UndisturbedInit, TradeCoreInit, TradeCoreStep, GenerationStep, PTL DEF Trade!Spec

(* Once a transaction of the contract has engaged the risk lock no opening *)
(* order is created on it until the operator releases the lock, and where  *)
(* the jobs run inline the same goes for every lock: whoever has passed    *)
(* its last check holds the contract's lock, and so is who engages.        *)
THEOREM LockStops == Trade!Spec => NoEntryUnderLock
<1>1. Trade!Init => ChecksHold
  BY TradeConstants DEF Trade!Init, ChecksHold, Uncommitted
<1>2. TradeCore /\ ChecksHold /\ [Trade!Next]_Trade!vars =>
        [shut \/ (~Remote /\ kill) => ~Trade!Grows]_Trade!vars
  <2> SUFFICES ASSUME TradeCore, ChecksHold, [Trade!Next]_Trade!vars, Trade!Grows
               PROVE  ~shut /\ (~Remote => ~kill)
    OBVIOUS
  <2> PICK t \in Entries : pc[t] = "place"
    BY OnlyPlaceGrows
  <2> QED
    BY DEF TradeCore, Rounds, Acts, ChecksHold, Uncommitted
<1> QED
  BY <1>1, <1>2, TradeCoreInit, TradeCoreStep, LockStep, PTL
  DEF Trade!Spec, NoEntryUnderLock, Trade!NoEntryUnderLock

(* What the end of an entry that creates no order leaves behind.           *)
LEMMA EndsClosed ==
  ASSUME TradeCore, LateIsKnown, NEW t \in Entries, Trade!TaskStep(t),
         pc[t] \in {"confirm", "reconcile", "delay", "place", "cas", "undo", "verify"},
         pc[t] = "place" => modified[t] /\ ~Trade!Intervened(t),
         pc'[t] = "done", ~Trade!Grows, seen[t].lev # None
  PROVE  kill' \/ reopened \/ leverage' = seen[t].lev
  <1> USE TradeConstants DEF TradeCore, Trade!TypeOK, Trade!Goto, Trade!End
  <1>1. Trade!Engage => kill' \/ reopened
    BY Engaging DEF LateIsKnown
  <1>2. CASE Trade!Confirm(t) \/ Trade!Reconcile(t)
    BY <1>1, <1>2 DEF Trade!Confirm, Trade!Reconcile
  <1>3. CASE Trade!DelayedCheck(t)
    BY <1>1, <1>3 DEF Trade!DelayedCheck, Trade!Delay, Trade!LevShown, Trade!market
  <1>4. CASE Trade!Place(t)
    <2>1. Trade!Created => Trade!Grows
      BY DEF Trade!Created, Trade!Grows
    <2> QED
      BY <1>1, <1>4, <2>1 DEF Trade!Place, Trade!RollsBack
  <1>5. CASE Trade!CompareBeforeRollback(t) \/ Trade!Undo(t)
    BY <1>1, <1>5 DEF Trade!CompareBeforeRollback, Trade!Undo
  <1>6. CASE Trade!VerifyRollback(t)
    BY <1>1, <1>6 DEF Trade!VerifyRollback, Trade!LevShown, Trade!market
  <1> QED
    BY <1>2, <1>3, <1>4, <1>5, <1>6 DEF Trade!TaskStep, Trade!Call, Trade!ReadPositions,
       Trade!ReadRaises, Trade!ReadOrders, Trade!Check, Trade!Enter, Trade!ApplyLeverage

(* An order is created at the leverage it was sized for, whatever          *)
(* set_leverage answered, unless others have changed it, a request that    *)
(* was declared not applied was still under way, or the operator has       *)
(* released the lock that stood before one; a transaction that has touched *)
(* the leverage and creates no order leaves the old one or the lock behind.*)
THEOREM LeverageKept == Trade!Spec => LeverageHolds
<1>1. Trade!Init => Levered
  <2> SUFFICES ASSUME Trade!Init PROVE Levered
    OBVIOUS
  <2>1. ~locked /\ late = {} /\ ~reopened /\ reset = 0 /\ \A t \in Entries : reset0[t] = 0
    BY DEF Trade!Init, Trade!Tasks
  <2>2. \A t \in Entries : pc[t] = "call" /\ round[t] = 1
    BY DEF Trade!Init, Trade!Tasks
  <2> QED
    BY <2>1, <2>2 DEF Levered, LateIsKnown, Sized, Inside, Reads, Acts, Unknown
<1>2. TradeCore /\ Levered /\ [Trade!Next]_Trade!vars =>
        [\A t \in Entries : pc[t] = "place" /\ pc'[t] = "done" /\ Trade!Grows =>
           foreign \/ adrift \/ reopened \/ leverage = want[t]]_Trade!vars
  <2> SUFFICES ASSUME TradeCore, Levered, [Trade!Next]_Trade!vars, NEW u \in Entries,
                      pc[u] = "place", pc'[u] = "done", Trade!Grows
               PROVE  foreign \/ adrift \/ reopened \/ leverage = want[u]
    OBVIOUS
  <2> PICK t \in Entries : /\ pc[t] = "place" /\ ~Trade!Intervened(t)
                           /\ \A v \in Trade!Tasks \ {t} : pc'[v] = pc[v]
    BY OnlyPlaceGrows
  <2>1. u = t
    BY TradeConstants
  <2> QED
    BY <2>1 DEF Levered, Sized, Excused, Trade!Intervened
<1>3. TradeCore /\ Levered /\ [Trade!Next]_Trade!vars =>
        [\A t \in Entries :
           /\ pc[t] \in {"confirm", "reconcile", "delay", "place", "cas", "undo", "verify"}
           /\ pc[t] = "place" => modified[t] /\ ~Trade!Intervened(t)
           /\ pc'[t] = "done" /\ ~Trade!Grows /\ seen[t].lev # None
           => kill' \/ reopened \/ leverage' = seen[t].lev]_Trade!vars
  <2> SUFFICES ASSUME TradeCore, Levered, [Trade!Next]_Trade!vars, NEW u \in Entries,
                      pc[u] \in {"confirm", "reconcile", "delay", "place", "cas", "undo", "verify"},
                      pc[u] = "place" => modified[u] /\ ~Trade!Intervened(u),
                      pc'[u] = "done", ~Trade!Grows, seen[u].lev # None
               PROVE  kill' \/ reopened \/ leverage' = seen[u].lev
    OBVIOUS
  <2>1. Trade!TaskStep(u)
    <3>1. pc'[u] # pc[u]
      OBVIOUS
    <3>2. ASSUME NEW t \in Trade!Tasks, Trade!TaskStep(t) PROVE t = u
      BY <3>1, <3>2, TaskFrame, TradeConstants
    <3> QED
      BY <3>1, <3>2, EnvironmentFrame DEF Trade!Next, Trade!Finished, Trade!vars
  <2> QED
    BY <2>1, EndsClosed DEF Levered
<1> QED
  BY <1>1, <1>2, <1>3, UndisturbedInit, TradeCoreInit, TradeCoreStep, GenerationStep, LeverageStep,
     PTL
  DEF Trade!Spec, LeverageHolds, Trade!LeverageHolds, Trade!PlacedAtLeverage, Trade!FailClosed

-----------------------------------------------------------------------------
(* The inductive invariant of the replacement of a protection.             *)

Position == [size : Nat, dir : {1, -1}, entry : Nat]
TriggerOrder ==
  {o \in [id : Nat, kind : {"stop_loss", "take_profit"}, price : Nat] :
     o.kind = "stop_loss" => o.price \in StopLevels}
Stages == {"idle", "orders", "assess", "position"} \cup Swap!Swapping \cup Swap!Outcomes
Before == {"idle", "orders", "assess", "position", "protection"}
Call == [at : Stages, read : Position, group : SUBSET TriggerOrder, wanted : Seq(TriggerOrder),
         old : SUBSET TriggerOrder, created : SUBSET TriggerOrder, failed : BOOLEAN]

SwapTyped ==
  /\ pos \in Position /\ orders \subseteq TriggerOrder
  /\ upd \in Call /\ faults \in Nat
  /\ had \in BOOLEAN /\ base \subseteq TriggerOrder /\ moved \in BOOLEAN

(* The wanted group begins with its stop; nothing has been sent before the *)
(* last comparison, and what has been created is told from what was there. *)
GroupWanted ==
  /\ upd.at \in {"position", "protection"} =>
       upd.wanted # <<>> /\ Head(upd.wanted).kind = "stop_loss"
  /\ upd.at = "create" =>
       \/ Swap!Stops(upd.created) # {}
       \/ upd.wanted # <<>> /\ Head(upd.wanted).kind = "stop_loss"
  /\ upd.at \in Before => upd.old = {} /\ upd.created = {} /\ ~upd.failed
  /\ upd.created \cap (upd.old \cup base) = {}

(* A position that had a stop has one that the call does not cancel: while *)
(* orders are created or rolled back, one that it has not created itself;  *)
(* after that the created ones, or one that came later.                    *)
StopStands ==
  /\ had => pos.size > 0
  /\ had => Swap!Stops(orders) # {}
  /\ had /\ (upd.at = "rollback" \/ (upd.at = "create" /\ upd.wanted # <<>>)) =>
       Swap!Stops(orders) \ upd.created # {}
  /\ upd.at = "create" =>
       \/ upd.created \subseteq orders
       \/ had => Swap!Stops(orders) \ (upd.old \cup upd.created) # {}
  /\ upd.at \in {"orders", "assess", "position", "protection", "create"} =>
       (pos.size > 0 /\ Swap!Stops(orders) \ upd.created # {} => had)

(* What stands while the exchange does not act.                            *)
GroupStands ==
  ~moved =>
    /\ upd.at = "create" =>
         /\ orders = upd.old \cup upd.created
         /\ upd.wanted # <<>> => upd.old = base
    /\ upd.at = "rollback" =>
         /\ base \subseteq orders
         /\ ~upd.failed => orders = base \cup upd.created
    /\ upd.at \in {"create_failed", "create_unknown"} => base \subseteq orders
    /\ upd.at = "create_failed" /\ ~upd.failed => orders = base
    /\ upd.at = "ok" => orders = upd.created
    /\ upd.at \in {"ok", "cancel_partial", "cancel_unknown"} =>
         upd.created \subseteq orders /\ Swap!Stops(upd.created) # {}

(* A planned loss within the limit, or no larger than that of a group.     *)
Fits(p, os, stop) ==
  \/ Swap!Stops(os) = {}
  \/ Swap!Risk(p, stop) <= Swap!Max({Swap!Risk(p, Swap!EffectiveStop(os, p.dir)), RiskLimit})
WantedFits(p, os) == \A i \in DOMAIN upd.wanted :
  upd.wanted[i].kind = "stop_loss" => Fits(p, os, upd.wanted[i].price)

StopsFit ==
  /\ upd.at = "position" => WantedFits(upd.read, upd.group)
  /\ upd.at = "protection" /\ ~moved => WantedFits(pos, upd.group)
  /\ upd.at = "create" /\ ~moved => WantedFits(pos, base)
  /\ upd.at \in {"create", "rollback"} \cup Swap!Outcomes /\ ~moved =>
       \A o \in Swap!Stops(orders \cup upd.created) \ base : Fits(pos, base, o.price)

-----------------------------------------------------------------------------
(* The largest and the smallest of a finite set of numbers.                *)

(* One of the sets F[x] contains no other.                                 *)
HasSmallest(S, F) == \E x \in S : \A z \in S : ~(F[z] \subseteq F[x] /\ F[z] # F[x])

LEMMA SmallestPart ==
  ASSUME NEW S, IsFiniteSet(S), S # {}, NEW F \in [S -> SUBSET S]
  PROVE  HasSmallest(S, F)
  <1> DEFINE R == StrictSubsetOrdering(S)
             Parts == {F[x] : x \in S}
  <1>1. IsWellFoundedOn(R, FiniteSubsetsOf(S))
    BY FS_StrictSubsetOrderingWellFounded
  <1>2. Parts \subseteq FiniteSubsetsOf(S) /\ Parts # {}
    BY FS_Subset DEF FiniteSubsetsOf
  <1>3. \E a \in Parts : \A b \in Parts : ~ (<<b, a>> \in R)
    <2> HIDE DEF R, Parts
    <2> QED
      BY <1>1, <1>2, WFMin
  <1> PICK x \in S : \A b \in Parts : ~ (<<b, F[x]>> \in R)
    BY <1>3
  <1>4. ASSUME NEW z \in S, F[z] \subseteq F[x], F[z] # F[x] PROVE FALSE
    <2>1. <<F[z], F[x]>> \in (SUBSET S) \X (SUBSET S) /\ F[z] \in Parts
      OBVIOUS
    <2> QED
      BY <1>4, <2>1 DEF StrictSubsetOrdering
  <1> QED
    BY <1>4 DEF HasSmallest

LEMMA LargestExists ==
  ASSUME NEW S, S \subseteq Int, IsFiniteSet(S), S # {}
  PROVE  \E x \in S : \A y \in S : x >= y
  <1> DEFINE Above == [x \in S |-> {y \in S : y > x}]
  <1>1. Above \in [S -> SUBSET S]
    OBVIOUS
  <1>2. HasSmallest(S, Above)
    <2> HIDE DEF Above
    <2> QED
      BY <1>1, SmallestPart
  <1> PICK x \in S : \A z \in S : ~(Above[z] \subseteq Above[x] /\ Above[z] # Above[x])
    <2> HIDE DEF Above
    <2> QED
      BY <1>2 DEF HasSmallest
  <1>3. ASSUME NEW y \in S, y > x PROVE FALSE
    <2>1. /\ \A z \in S : (z \in Above[x] <=> z > x) /\ (z \in Above[y] <=> z > y)
          /\ Above[x] \subseteq S /\ Above[y] \subseteq S
      OBVIOUS
    <2>2. Above[y] \subseteq Above[x] /\ y \in Above[x] /\ y \notin Above[y]
      <3> HIDE DEF Above
      <3>1. ASSUME NEW z \in Above[y] PROVE z \in Above[x]
        <4>1. z \in S /\ z > y
          BY <2>1
        <4>2. z \in Int /\ y \in Int /\ x \in Int
          BY <4>1
        <4>3. z > x
          BY <1>3, <4>1, <4>2
        <4> QED
          BY <2>1, <4>1, <4>3
      <3>2. y \in Above[x] /\ y \notin Above[y]
        <4>1. y \in Int
          OBVIOUS
        <4> QED
          BY <1>3, <2>1, <4>1
      <3> QED
        BY <3>1, <3>2
    <2> HIDE DEF Above
    <2> QED
      BY <2>2
  <1> QED
    BY <1>3

LEMMA SmallestExists ==
  ASSUME NEW S, S \subseteq Int, IsFiniteSet(S), S # {}
  PROVE  \E x \in S : \A y \in S : x <= y
  <1> DEFINE Below == [x \in S |-> {y \in S : y < x}]
  <1>1. Below \in [S -> SUBSET S]
    OBVIOUS
  <1>2. HasSmallest(S, Below)
    <2> HIDE DEF Below
    <2> QED
      BY <1>1, SmallestPart
  <1> PICK x \in S : \A z \in S : ~(Below[z] \subseteq Below[x] /\ Below[z] # Below[x])
    <2> HIDE DEF Below
    <2> QED
      BY <1>2 DEF HasSmallest
  <1>3. ASSUME NEW y \in S, y < x PROVE FALSE
    <2>1. /\ \A z \in S : (z \in Below[x] <=> z < x) /\ (z \in Below[y] <=> z < y)
          /\ Below[x] \subseteq S /\ Below[y] \subseteq S
      OBVIOUS
    <2>2. Below[y] \subseteq Below[x] /\ y \in Below[x] /\ y \notin Below[y]
      <3> HIDE DEF Below
      <3>1. ASSUME NEW z \in Below[y] PROVE z \in Below[x]
        <4>1. z \in S /\ z < y
          BY <2>1
        <4>2. z \in Int /\ y \in Int /\ x \in Int
          BY <4>1
        <4>3. z < x
          BY <1>3, <4>1, <4>2
        <4> QED
          BY <2>1, <4>1, <4>3
      <3>2. y \in Below[x] /\ y \notin Below[y]
        <4>1. y \in Int
          OBVIOUS
        <4> QED
          BY <1>3, <2>1, <4>1
      <3> QED
        BY <3>1, <3>2
    <2> HIDE DEF Below
    <2> QED
      BY <2>2
  <1> QED
    BY <1>3

LEMMA Extremes ==
  ASSUME NEW S, S \subseteq Int, IsFiniteSet(S), S # {}
  PROVE  /\ Swap!Max(S) \in S /\ \A y \in S : Swap!Max(S) >= y
         /\ Swap!Min(S) \in S /\ \A y \in S : Swap!Min(S) <= y
  BY LargestExists, SmallestExists DEF Swap!Max, Swap!Min

LEMMA MaxOfTwo ==
  ASSUME NEW a \in Int, NEW b \in Int
  PROVE  /\ Swap!Max({a, b}) \in {a, b} /\ Swap!Max({a, b}) \in Int
         /\ Swap!Max({a, b}) >= a /\ Swap!Max({a, b}) >= b
  <1>1. IsFiniteSet({a, b}) /\ {a, b} \subseteq Int /\ {a, b} # {}
    <2>1. IsFiniteSet({a})
      BY FS_Singleton
    <2>2. IsFiniteSet({a} \cup {b}) /\ {a} \cup {b} = {a, b}
      BY <2>1, FS_AddElement
    <2> QED
      BY <2>2
  <1>2. Swap!Max({a, b}) \in {a, b} /\ \A y \in {a, b} : Swap!Max({a, b}) >= y
    BY <1>1, Extremes
  <1> QED
    BY <1>2

(* What an order that is created, or that the exchange attaches, is not.   *)
LEMMA FreshId ==
  ASSUME SwapTyped, Swap!FreeIds # {}
  PROVE  /\ Swap!Min(Swap!FreeIds) \in Nat
         /\ \A o \in orders \cup upd.group \cup upd.old \cup upd.created \cup base :
              o.id # Swap!Min(Swap!FreeIds)
  <1> DEFINE taken == {o.id : o \in orders \cup upd.group \cup upd.old \cup upd.created \cup base}
             free == (1..MaxIds) \ taken
  <1>1. Swap!FreeIds = free
    BY DEF Swap!FreeIds
  <1>2. \A o \in orders \cup upd.group \cup upd.old \cup upd.created \cup base : o.id \in taken
    OBVIOUS
  <1>3. MaxIds \in Int /\ 1 \in Int
    BY ProtectionAssumption
  <1>4. IsFiniteSet(1..MaxIds)
    BY <1>3, FS_Interval
  <1> HIDE DEF taken
  <1>5. free \in SUBSET (1..MaxIds) /\ free \subseteq Int
    OBVIOUS
  <1> HIDE DEF free
  <1>6. IsFiniteSet(free)
    BY <1>4, <1>5, FS_Subset
  <1>7. Swap!Min(free) \in free
    BY <1>1, <1>5, <1>6, Extremes
  <1>8. Swap!Min(free) \in 1..MaxIds /\ Swap!Min(free) \notin taken
    BY <1>7 DEF free
  <1>9. Swap!Min(free) \in Nat
    BY <1>3, <1>8
  <1> QED
    BY <1>1, <1>2, <1>8, <1>9

LEMMA AttachedFresh ==
  ASSUME SwapTyped, NEW os \in Swap!Attached
  PROVE  /\ os \subseteq TriggerOrder
         /\ \A o \in os : o \notin orders \cup upd.old \cup upd.created
  <1>1. CASE os = {}
    BY <1>1
  <1>2. CASE os # {}
    <2>1. Swap!FreeIds # {}
      BY <1>2 DEF Swap!Attached
    <2> PICK s \in StopLevels : os = {Swap!Stop(Swap!Min(Swap!FreeIds), s)}
      BY <1>2 DEF Swap!Attached
    <2>2. s \in Nat
      BY ProtectionAssumption
    <2>3. Swap!Min(Swap!FreeIds) \in Nat
      BY <2>1, FreshId
    <2> DEFINE new == Swap!Stop(Swap!Min(Swap!FreeIds), s)
    <2>4. new \in TriggerOrder /\ new.id = Swap!Min(Swap!FreeIds)
      BY <2>2, <2>3 DEF TriggerOrder, Swap!Stop, Swap!Order
    <2>5. new \notin orders \cup upd.old \cup upd.created
      BY <2>1, <2>4, FreshId
    <2> QED
      BY <2>4, <2>5
  <1> QED
    BY <1>1, <1>2

-----------------------------------------------------------------------------
(* Planned losses.                                                         *)

LEMMA RiskTyped ==
  ASSUME NEW p \in Position, NEW s \in Nat
  PROVE  Swap!Risk(p, s) \in Nat
  <1> DEFINE d == IF p.dir > 0 THEN p.entry - s ELSE s - p.entry
  <1>1. d \in Int /\ p.size \in Nat
    BY DEF Position
  <1>2. Swap!Max({0, d}) \in Nat
    <2>1. d \in Int /\ 0 \in Int
      BY <1>1
    <2> HIDE DEF d
    <2>2. Swap!Max({0, d}) \in Int /\ Swap!Max({0, d}) >= 0
      BY <2>1, MaxOfTwo
    <2> QED
      BY <2>2
  <1>3. \A m, n \in Nat : m * n \in Nat
    OBVIOUS
  <1> QED
    BY <1>1, <1>2, <1>3 DEF Swap!Risk

(* The stop that fires first loses least.                                  *)
LEMMA RiskFalls ==
  ASSUME NEW p \in Position, NEW s \in Nat, NEW r \in Nat,
         IF p.dir > 0 THEN r >= s ELSE r <= s
  PROVE  Swap!Risk(p, r) <= Swap!Risk(p, s)
  <1> DEFINE d(x) == IF p.dir > 0 THEN p.entry - x ELSE x - p.entry
  <1>1. d(r) \in Int /\ d(s) \in Int /\ d(r) <= d(s) /\ p.size \in Nat
    BY DEF Position
  <1> DEFINE a == Swap!Max({0, d(r)})
             b == Swap!Max({0, d(s)})
  <1>2. a \in Nat /\ b \in Nat /\ a <= b
    <2> HIDE DEF d
    <2>1. /\ a \in {0, d(r)} /\ a >= 0 /\ a >= d(r)
          /\ b \in {0, d(s)} /\ b >= 0 /\ b >= d(s)
      <3>1. 0 \in Int
        OBVIOUS
      <3> QED
        BY <1>1, <3>1, MaxOfTwo
    <2> HIDE DEF a, b
    <2> QED
      BY <1>1, <2>1
  <1>3. a * p.size <= b * p.size
    <2> \A m, n, k \in Nat : m <= n => m * k <= n * k
      OBVIOUS
    <2> HIDE DEF a, b
    <2> QED
      BY <1>1, <1>2
  <1> QED
    BY <1>3 DEF Swap!Risk

LEMMA Effective ==
  ASSUME NEW os, os \subseteq TriggerOrder, Swap!Stops(os) # {}, NEW dir
  PROVE  \E e \in Swap!Stops(os) :
           /\ Swap!EffectiveStop(os, dir) = e.price /\ e.price \in Nat
           /\ \A o \in Swap!Stops(os) :
                IF dir > 0 THEN e.price >= o.price ELSE e.price <= o.price
  <1> DEFINE prices == {o.price : o \in Swap!Stops(os)}
  <1>1. prices \subseteq StopLevels /\ prices # {}
    BY DEF Swap!Stops, TriggerOrder
  <1>2. IsFiniteSet(prices) /\ prices \subseteq Int /\ prices \subseteq Nat
    <2> HIDE DEF prices
    <2>1. prices \in SUBSET StopLevels /\ IsFiniteSet(StopLevels) /\ StopLevels \subseteq Nat
      BY <1>1, ProtectionAssumption
    <2>2. IsFiniteSet(prices)
      BY <2>1, FS_Subset
    <2> QED
      BY <2>1, <2>2
  <1>3. /\ Swap!Max(prices) \in prices /\ \A y \in prices : Swap!Max(prices) >= y
        /\ Swap!Min(prices) \in prices /\ \A y \in prices : Swap!Min(prices) <= y
    <2> HIDE DEF prices
    <2> QED
      BY <1>1, <1>2, Extremes
  <1>4. Swap!EffectiveStop(os, dir) = IF dir > 0 THEN Swap!Max(prices) ELSE Swap!Min(prices)
    BY DEF Swap!EffectiveStop
  <1>5. PICK e \in Swap!Stops(os) : e.price = Swap!EffectiveStop(os, dir)
    BY <1>3, <1>4
  <1>6. \A o \in Swap!Stops(os) : o.price \in prices
    OBVIOUS
  <1> QED
    BY <1>2, <1>3, <1>4, <1>5, <1>6

(* assess_tpsl_risk permits only what fits.                                *)
LEMMA PermittedFits ==
  ASSUME NEW p \in Position, NEW os, os \subseteq TriggerOrder, NEW s \in StopLevels,
         NEW degraded \in BOOLEAN, Swap!Permitted(p, os, s, degraded)
  PROVE  Fits(p, os, s)
  <1> SUFFICES ASSUME Swap!Stops(os) # {}
               PROVE  Swap!Risk(p, s) <=
                        Swap!Max({Swap!Risk(p, Swap!EffectiveStop(os, p.dir)), RiskLimit})
    BY DEF Fits
  <1>1. Swap!EffectiveStop(os, p.dir) \in Nat /\ s \in Nat /\ RiskLimit \in Nat
    BY Effective, ProtectionAssumption
  <1> DEFINE current == Swap!Risk(p, Swap!EffectiveStop(os, p.dir))
             risk == Swap!Risk(p, s)
  <1>2. current \in Nat /\ risk \in Nat
    BY <1>1, RiskTyped
  <1>3. risk <= current \/ risk <= RiskLimit \/ risk < current
    BY DEF Swap!Permitted
  <1> HIDE DEF current, risk
  <1>4. /\ Swap!Max({current, RiskLimit}) \in Int
        /\ Swap!Max({current, RiskLimit}) >= current /\ Swap!Max({current, RiskLimit}) >= RiskLimit
    <2>1. current \in Int /\ RiskLimit \in Int
      BY <1>1, <1>2
    <2> QED
      BY <2>1, MaxOfTwo
  <1>5. risk <= Swap!Max({current, RiskLimit})
    BY <1>1, <1>2, <1>3, <1>4
  <1> QED
    BY <1>5 DEF current, risk

-----------------------------------------------------------------------------
(* What a step of the replacement keeps.                                   *)

SwapCore == SwapTyped /\ GroupWanted /\ StopStands /\ GroupStands /\ StopsFit

LEMMA SwapInit == Swap!Init => SwapCore
  <1> SUFFICES ASSUME Swap!Init PROVE SwapCore
    OBVIOUS
  <1> USE DEF Swap!Init, Swap!Idle, Swap!Flat
  <1>1. SwapTyped
    <2>1. <<>> \in Seq(TriggerOrder)
      OBVIOUS
    <2> QED
      BY <2>1 DEF SwapTyped, Position, Call, Stages
  <1>2. GroupWanted
    BY DEF GroupWanted, Before
  <1>3. StopStands /\ GroupStands /\ StopsFit
    BY DEF StopStands, GroupStands, StopsFit, Swap!Outcomes
  <1> QED
    BY <1>1, <1>2, <1>3 DEF SwapCore

(* The exchange: it removes stops only with the position, and what it      *)
(* attaches is not an order of the call.                                   *)
LEMMA ExchangeKeeps ==
  ASSUME SwapCore, NEW p \in Position, NEW os, os \subseteq TriggerOrder, Swap!Exchange(p, os),
         \/ p.size = 0
         \/ pos.size = 0 /\ os \cap orders = {}
         \/ pos.size > 0 /\ orders \subseteq os,
         \A o \in os \ orders : o \notin upd.old \cup upd.created
  PROVE  SwapCore'
  <1> USE DEF SwapCore
  <1>1. /\ pos' = p /\ orders' = os /\ upd' = upd /\ faults' = faults /\ base' = base
        /\ moved' = (upd.at \in Swap!Swapping \cup Swap!Outcomes)
        /\ had' = (p.size # 0 /\ (had \/ Swap!Stops(os) \ upd.created # {}))
        /\ p.size \in Nat /\ pos.size \in Nat
    BY DEF Swap!Exchange, SwapTyped, Position
  <1>2. SwapTyped'
    <2>1. had' \in BOOLEAN /\ moved' \in BOOLEAN
      BY <1>1
    <2> QED
      BY <1>1, <2>1 DEF SwapTyped
  <1>3. GroupWanted'
    BY <1>1 DEF GroupWanted
  <1>4. StopStands'
    <2>0. had' <=> p.size # 0 /\ (had \/ Swap!Stops(os) \ upd.created # {})
      BY <1>1
    <2>1. ASSUME had' PROVE p.size > 0 /\ (had \/ Swap!Stops(os) \ upd.created # {})
      BY <1>1, <2>0, <2>1
    <2>2. had => orders \subseteq os \/ p.size = 0
      BY <1>1 DEF StopStands
    <2>3. orders \subseteq os => Swap!Stops(orders) \subseteq Swap!Stops(os)
      BY DEF Swap!Stops
    <2>4. ASSUME had' PROVE Swap!Stops(os) # {}
      BY <2>1, <2>2, <2>3, <2>4 DEF StopStands
    <2>5. ASSUME had', upd.at = "rollback" \/ (upd.at = "create" /\ upd.wanted # <<>>)
          PROVE  Swap!Stops(os) \ upd.created # {}
      BY <2>1, <2>2, <2>3, <2>5 DEF StopStands
    <2>6. ASSUME upd.at = "create", had', ~(upd.created \subseteq os)
          PROVE  Swap!Stops(os) \ (upd.old \cup upd.created) # {}
      <3>1. CASE had
        BY <2>1, <2>2, <2>3, <2>6, <3>1 DEF StopStands
      <3>2. CASE ~had
        <4> PICK s \in Swap!Stops(os) \ upd.created : TRUE
          BY <2>1, <2>6, <3>2
        <4>1. s \notin orders
          <5>1. CASE pos.size > 0
            BY <2>6, <3>2, <5>1 DEF StopStands, Swap!Stops
          <5>2. CASE pos.size = 0
            BY <1>1, <2>1, <2>6, <5>2 DEF Swap!Stops
          <5> QED
            BY <1>1, <5>1, <5>2
        <4> QED
          BY <4>1 DEF Swap!Stops
      <3> QED
        BY <3>1, <3>2
    <2>7. p.size > 0 /\ Swap!Stops(os) \ upd.created # {} => had'
      BY <1>1, <2>0
    <2> QED
      BY <1>1, <2>1, <2>4, <2>5, <2>6, <2>7 DEF StopStands
  <1>5. ASSUME ~moved' PROVE upd.at \notin Swap!Swapping \cup Swap!Outcomes
    BY <1>1, <1>5
  <1>6. GroupStands'
    BY <1>1, <1>5 DEF GroupStands, Swap!Swapping, Swap!Outcomes
  <1>7. StopsFit'
    BY <1>1, <1>5 DEF StopsFit, WantedFits, Swap!Swapping, Swap!Outcomes
  <1> QED
    BY <1>2, <1>3, <1>4, <1>6, <1>7

LEMMA ExchangeActs ==
  ASSUME SwapCore,
         Swap!PositionOpens \/ Swap!OrderAdds \/ Swap!PositionReduces \/ Swap!PositionCloses
  PROVE  SwapCore'
  <1>0. /\ pos \in Position /\ orders \subseteq TriggerOrder /\ SwapTyped
    BY DEF SwapCore, SwapTyped, Position
  <1>1. CASE Swap!PositionOpens
    <2> PICK d \in Directions, e \in EntryPrices, os \in Swap!Attached :
               Swap!Exchange([size |-> 1, dir |-> d, entry |-> e], os)
      BY <1>1 DEF Swap!PositionOpens
    <2>1. [size |-> 1, dir |-> d, entry |-> e] \in Position
      BY ProtectionAssumption DEF Position
    <2>2. pos.size = 0
      BY <1>1 DEF Swap!PositionOpens, Swap!Flat
    <2>3. os \subseteq TriggerOrder /\ \A o \in os : o \notin orders \cup upd.old \cup upd.created
      BY <1>0, AttachedFresh
    <2> QED
      BY <2>1, <2>2, <2>3, ExchangeKeeps
  <1>2. CASE Swap!OrderAdds
    <2> PICK e \in EntryPrices, os \in Swap!Attached :
               Swap!Exchange([pos EXCEPT !.size = @ + 1, !.entry = e], orders \cup os)
      BY <1>2 DEF Swap!OrderAdds
    <2>1. [pos EXCEPT !.size = @ + 1, !.entry = e] \in Position
      <3> DEFINE larger == [pos EXCEPT !.size = @ + 1]
      <3>1. larger \in Position /\ e \in Nat
        BY <1>0, ProtectionAssumption DEF Position
      <3>2. [larger EXCEPT !.entry = e] = [pos EXCEPT !.size = @ + 1, !.entry = e]
        BY <1>0 DEF Position
      <3> HIDE DEF larger
      <3>3. [larger EXCEPT !.entry = e] \in Position
        BY <3>1 DEF Position
      <3> QED
        BY <3>2, <3>3
    <2>2. pos.size > 0
      <3>1. pos.size \in 1..(MaxSize - 1) /\ MaxSize \in Nat
        BY <1>2, ProtectionAssumption DEF Swap!OrderAdds
      <3> QED
        BY <3>1
    <2>3. os \subseteq TriggerOrder /\ \A o \in os : o \notin orders \cup upd.old \cup upd.created
      BY <1>0, AttachedFresh
    <2>4. orders \cup os \subseteq TriggerOrder /\ orders \subseteq orders \cup os
      BY <1>0, <2>3
    <2> QED
      BY <2>1, <2>2, <2>3, <2>4, ExchangeKeeps
  <1>3. CASE Swap!PositionReduces
    <2>1. [pos EXCEPT !.size = @ - 1] \in Position /\ pos.size > 0
      BY <1>0, <1>3 DEF Position, Swap!PositionReduces
    <2> QED
      BY <1>0, <1>3, <2>1, ExchangeKeeps DEF Swap!PositionReduces
  <1>4. CASE Swap!PositionCloses
    <2>1. Swap!Flat \in Position /\ Swap!Flat.size = 0 /\ Swap!Exchange(Swap!Flat, {})
      BY <1>4 DEF Swap!PositionCloses, Swap!Flat, Position
    <2> QED
      BY <2>1, ExchangeKeeps
  <1> QED
    BY <1>1, <1>2, <1>3, <1>4

(* The call reads, is assessed, and reads again.                           *)
LEMMA ReadingKeeps ==
  ASSUME SwapCore, Swap!ReadPosition \/ Swap!ReadOrders
  PROVE  SwapCore'
  <1> USE DEF SwapCore
  <1>0. <<>> \in Seq(TriggerOrder)
    OBVIOUS
  <1>1. CASE Swap!ReadPosition
    <2>1. /\ upd.at = "idle" /\ pos.size > 0
          /\ upd' = [Swap!Idle EXCEPT !.at = "orders", !.read = pos]
          /\ had' = (Swap!Stops(orders) # {}) /\ UNCHANGED <<pos, orders, faults, base, moved>>
      BY <1>1 DEF Swap!ReadPosition, Swap!world
    <2>2. /\ upd'.at = "orders" /\ upd'.old = {} /\ upd'.created = {} /\ upd'.failed = FALSE
          /\ upd' \in Call /\ upd'.wanted = <<>>
      BY <1>0, <2>1 DEF SwapTyped, Call, Stages, Swap!Idle
    <2>3. had' \in BOOLEAN /\ (had' <=> Swap!Stops(orders) # {})
      BY <2>1
    <2>4. SwapTyped'
      BY <2>1, <2>2, <2>3 DEF SwapTyped
    <2>5. GroupWanted' /\ GroupStands' /\ StopsFit'
      BY <2>1, <2>2 DEF GroupWanted, GroupStands, StopsFit, Swap!Outcomes
    <2>6. StopStands'
      BY <2>1, <2>2, <2>3 DEF StopStands
    <2> QED
      BY <2>4, <2>5, <2>6
  <1>2. CASE Swap!ReadOrders
    <2>1. /\ upd.at = "orders" /\ upd' = [upd EXCEPT !.at = "assess", !.group = orders]
          /\ UNCHANGED <<pos, orders, faults, had, base, moved>>
      BY <1>2 DEF Swap!ReadOrders, Swap!world, Swap!past
    <2>2. /\ upd'.at = "assess" /\ upd'.old = {} /\ upd'.created = {} /\ upd'.failed = FALSE
          /\ upd' \in Call
      BY <2>1 DEF SwapTyped, Call, Stages, GroupWanted, Before
    <2>4. SwapTyped'
      BY <2>1, <2>2 DEF SwapTyped
    <2>5. GroupWanted' /\ GroupStands' /\ StopsFit'
      BY <2>1, <2>2 DEF GroupWanted, GroupStands, StopsFit, Swap!Outcomes
    <2>6. StopStands'
      BY <2>1, <2>2 DEF StopStands, GroupWanted, Before
    <2> QED
      BY <2>4, <2>5, <2>6
  <1> QED
    BY <1>1, <1>2

LEMMA IdleKeeps ==
  ASSUME SwapCore, upd' = Swap!Idle, UNCHANGED <<pos, orders>>, faults' \in Nat,
         \/ UNCHANGED <<had, base, moved>>
         \/ had' = FALSE /\ base' = {} /\ moved' = FALSE
  PROVE  SwapCore'
  <1> USE DEF SwapCore
  <1>1. /\ upd'.at = "idle" /\ upd'.old = {} /\ upd'.created = {} /\ upd'.failed = FALSE
        /\ upd' \in Call
    <2>1. <<>> \in Seq(TriggerOrder)
      OBVIOUS
    <2> QED
      BY <2>1 DEF Swap!Idle, Swap!Flat, Call, Stages, Position
  <1>2. SwapTyped'
    BY <1>1 DEF SwapTyped
  <1>3. GroupWanted' /\ GroupStands' /\ StopsFit'
    BY <1>1 DEF GroupWanted, GroupStands, StopsFit, Swap!Outcomes
  <1>4. StopStands'
    BY <1>1 DEF StopStands
  <1> QED
    BY <1>2, <1>3, <1>4

LEMMA AssessKeeps ==
  ASSUME SwapCore, Swap!Assess
  PROVE  SwapCore'
  <1> USE DEF SwapCore
  <1> PICK stop \in StopLevels, target \in BOOLEAN, degraded \in BOOLEAN :
        LET wanted == <<Swap!Stop(0, stop)>> \o (IF target THEN <<Swap!Target(0)>> ELSE <<>>)
        IN /\ faults' = IF degraded THEN faults + 1 ELSE faults
           /\ upd' = IF Swap!Permitted(upd.read, upd.group, stop, degraded)
                     THEN [upd EXCEPT !.at = "position", !.wanted = wanted] ELSE Swap!Idle
    BY DEF Swap!Assess
  <1> DEFINE wanted == <<Swap!Stop(0, stop)>> \o (IF target THEN <<Swap!Target(0)>> ELSE <<>>)
  <1>1. upd.at = "assess" /\ UNCHANGED <<pos, orders, had, base, moved>>
    BY DEF Swap!Assess, Swap!world, Swap!past
  <1>2. faults' \in Nat
    BY DEF SwapTyped
  <1>3. CASE ~Swap!Permitted(upd.read, upd.group, stop, degraded)
    BY <1>1, <1>2, <1>3, IdleKeeps
  <1>4. CASE Swap!Permitted(upd.read, upd.group, stop, degraded)
    <2>1. wanted = IF target THEN <<Swap!Stop(0, stop), Swap!Target(0)>>
                   ELSE <<Swap!Stop(0, stop)>>
      <3>1. ASSUME NEW a, NEW b PROVE <<a>> \o <<b>> = <<a, b>>
        <4>1. /\ <<a>> \in Seq({a, b}) /\ <<b>> \in Seq({a, b}) /\ <<a, b>> \in Seq({a, b})
              /\ Len(<<a>>) = 1 /\ Len(<<b>>) = 1 /\ Len(<<a, b>>) = 2
          OBVIOUS
        <4>2. \A i \in 1..2 : (<<a>> \o <<b>>)[i] = <<a, b>>[i]
          BY <4>1
        <4>3. <<a>> \o <<b>> \in Seq({a, b}) /\ Len(<<a>> \o <<b>>) = 2
          BY <4>1
        <4> QED
          BY <4>1, <4>2, <4>3, SeqEqual
      <3>2. \A a : <<a>> \o <<>> = <<a>>
        OBVIOUS
      <3> QED
        BY <3>1, <3>2
    <2>2. Swap!Stop(0, stop) \in TriggerOrder /\ Swap!Target(0) \in TriggerOrder
      BY ProtectionAssumption DEF Swap!Stop, Swap!Target, Swap!Order, TriggerOrder
    <2>3. /\ wanted \in Seq(TriggerOrder) /\ wanted # <<>> /\ Head(wanted).kind = "stop_loss"
          /\ \A i \in DOMAIN wanted : wanted[i].kind = "stop_loss" => wanted[i].price = stop
      <3>1. CASE target
        BY <2>1, <2>2, <3>1 DEF Swap!Stop, Swap!Target, Swap!Order
      <3>2. CASE ~target
        BY <2>1, <2>2, <3>2 DEF Swap!Stop, Swap!Order
      <3> QED
        BY <3>1, <3>2
    <2> HIDE DEF wanted
    <2>4. upd' = [upd EXCEPT !.at = "position", !.wanted = wanted]
      BY <1>4 DEF wanted
    <2>5. /\ upd'.at = "position" /\ upd'.wanted = wanted /\ upd'.old = {} /\ upd'.created = {}
          /\ upd'.failed = FALSE /\ upd'.read = upd.read /\ upd'.group = upd.group /\ upd' \in Call
      BY <1>1, <2>3, <2>4 DEF SwapTyped, Call, Stages, GroupWanted, Before
    <2>6. SwapTyped'
      BY <1>1, <1>2, <2>5 DEF SwapTyped
    <2>7. GroupWanted' /\ GroupStands'
      BY <1>1, <2>3, <2>5 DEF GroupWanted, GroupStands
    <2>8. StopStands'
      BY <1>1, <2>5 DEF StopStands, GroupWanted, Before
    <2>9. StopsFit'
      <3>1. upd.read \in Position /\ upd.group \subseteq TriggerOrder
        BY DEF SwapTyped, Call
      <3>2. Fits(upd.read, upd.group, stop)
        BY <1>4, <3>1, PermittedFits
      <3>3. \A i \in DOMAIN wanted : wanted[i].kind = "stop_loss" =>
              Fits(upd.read, upd.group, wanted[i].price)
        BY <2>3, <3>2
      <3> QED
        BY <2>5, <3>3 DEF StopsFit, WantedFits, Fits, Swap!Outcomes
    <2> QED
      BY <2>6, <2>7, <2>8, <2>9
  <1> QED
    BY <1>3, <1>4

LEMMA RecheckKeeps ==
  ASSUME SwapCore, Swap!RecheckPosition \/ Swap!RecheckOrders
  PROVE  SwapCore'
  <1> USE DEF SwapCore
  <1>1. CASE Swap!RecheckPosition
    <2>1. upd.at = "position" /\ UNCHANGED <<pos, orders, faults, had, base>>
      BY <1>1 DEF Swap!RecheckPosition, Swap!world
    <2>2. CASE ~Swap!SamePosition
      BY <1>1, <2>1, <2>2, IdleKeeps DEF Swap!RecheckPosition, SwapTyped
    <2>3. CASE Swap!SamePosition
      <3>1. /\ upd' = [upd EXCEPT !.at = "protection", !.read = Swap!Flat]
            /\ moved' = (pos.entry # upd.read.entry)
        BY <1>1, <2>3 DEF Swap!RecheckPosition
      <3>2. /\ upd'.at = "protection" /\ upd'.wanted = upd.wanted /\ upd'.old = {}
            /\ upd'.created = {} /\ upd'.failed = FALSE /\ upd'.group = upd.group /\ upd' \in Call
        <4>1. upd \in Call /\ upd.old = {} /\ upd.created = {} /\ upd.failed = FALSE
          BY <2>1 DEF SwapTyped, Call, GroupWanted, Before
        <4>2. Swap!Flat \in Position /\ "protection" \in Stages
          BY DEF Swap!Flat, Position, Stages, Swap!Swapping
        <4> QED
          BY <3>1, <4>1, <4>2 DEF Call
      <3>3. moved' \in BOOLEAN
        BY <3>1
      <3>4. SwapTyped'
        BY <2>1, <3>2, <3>3 DEF SwapTyped
      <3>5. GroupWanted' /\ GroupStands'
        BY <2>1, <3>2 DEF GroupWanted, GroupStands
      <3>6. StopStands'
        BY <2>1, <3>2 DEF StopStands, GroupWanted, Before
      <3>7. StopsFit'
        <4>1. ASSUME ~moved' PROVE WantedFits(upd.read, upd.group) /\ pos = upd.read
          <5>1. pos \in Position /\ upd.read \in Position
            BY DEF SwapTyped, Call
          <5>2. pos.size = upd.read.size /\ pos.dir = upd.read.dir /\ pos.entry = upd.read.entry
            BY <2>3, <3>1, <4>1 DEF Swap!SamePosition
          <5> QED
            BY <2>1, <5>1, <5>2 DEF StopsFit, Position
        <4> QED
          BY <2>1, <3>2, <4>1 DEF StopsFit, WantedFits, Fits, Swap!Outcomes
      <3> QED
        BY <3>4, <3>5, <3>6, <3>7
    <2> QED
      BY <2>2, <2>3
  <1>2. CASE Swap!RecheckOrders
    <2>1. upd.at = "protection" /\ UNCHANGED <<pos, orders, faults>>
      BY <1>2 DEF Swap!RecheckOrders, Swap!world
    <2>2. CASE orders # upd.group
      BY <1>2, <2>1, <2>2, IdleKeeps DEF Swap!RecheckOrders, SwapTyped
    <2>3. CASE orders = upd.group
      <3>1. /\ upd' = [upd EXCEPT !.at = "create", !.group = {}, !.old = orders]
            /\ base' = orders /\ UNCHANGED <<had, moved>>
        BY <1>2, <2>3 DEF Swap!RecheckOrders
      <3>2. /\ upd'.at = "create" /\ upd'.wanted = upd.wanted /\ upd'.old = orders
            /\ upd'.created = {} /\ upd'.failed = FALSE /\ upd' \in Call
        <4>1. upd \in Call /\ upd.created = {} /\ upd.failed = FALSE /\ orders \subseteq TriggerOrder
          BY <2>1 DEF SwapTyped, Call, GroupWanted, Before
        <4>2. "create" \in Stages
          BY DEF Stages, Swap!Swapping
        <4> QED
          BY <3>1, <4>1, <4>2 DEF Call
      <3>4. SwapTyped'
        BY <2>1, <3>1, <3>2 DEF SwapTyped
      <3>5. GroupWanted' /\ GroupStands'
        BY <2>1, <3>1, <3>2 DEF GroupWanted, GroupStands, Before
      <3>6. StopStands'
        BY <2>1, <3>1, <3>2 DEF StopStands, GroupWanted, Before
      <3>7. StopsFit'
        BY <2>1, <2>3, <3>1, <3>2 DEF StopsFit, WantedFits, Fits, Swap!Stops, Swap!Outcomes
      <3> QED
        BY <3>4, <3>5, <3>6, <3>7
    <2> QED
      BY <2>2, <2>3
  <1> QED
    BY <1>1, <1>2

(* The whole group is created before an old order is touched.              *)
LEMMA CreateKeeps ==
  ASSUME SwapCore, Swap!CreateOrder
  PROVE  SwapCore'
  <1> USE DEF SwapCore
  <1> DEFINE new == [Head(upd.wanted) EXCEPT !.id = Swap!Min(Swap!FreeIds)]
             next == [upd EXCEPT !.at = "create", !.wanted = Tail(upd.wanted),
                                 !.created = upd.created \cup {new}]
  <1>1. /\ upd.at = "create" /\ upd.wanted # <<>> /\ upd.wanted \in Seq(TriggerOrder)
        /\ UNCHANGED <<pos, had, base, moved>> /\ faults' \in Nat
    BY DEF Swap!CreateOrder, Swap!Done, Swap!Refused, Swap!Unanswered, Swap!world, Swap!past,
       SwapTyped, Call
  <1>2. /\ new \in TriggerOrder /\ new.id = Swap!Min(Swap!FreeIds)
        /\ new.kind = Head(upd.wanted).kind /\ new.price = Head(upd.wanted).price
        /\ new \notin orders \cup upd.old \cup upd.created \cup base
    <2>1. Swap!FreeIds # {} /\ Head(upd.wanted) \in TriggerOrder
      BY <1>1 DEF Swap!CreateOrder
    <2>2. /\ Swap!Min(Swap!FreeIds) \in Nat
          /\ \A o \in orders \cup upd.old \cup upd.created \cup base : o.id # Swap!Min(Swap!FreeIds)
      BY <2>1, FreshId
    <2> QED
      BY <2>1, <2>2 DEF TriggerOrder
  <1>3. \/ /\ pos.size > 0 /\ orders' = orders \cup {new}
           /\ upd' = [upd EXCEPT !.wanted = Tail(@), !.created = @ \cup {new}]
        \/ orders' = orders /\ upd' = [upd EXCEPT !.at = "rollback"]
        \/ orders' \in {orders, orders \cup {new}} /\ upd' = [upd EXCEPT !.at = "create_unknown"]
    BY DEF Swap!CreateOrder, Swap!Done, Swap!Refused, Swap!Unanswered, Swap!world
  <1> HIDE DEF new
  <1>4. upd \in Call /\ orders \subseteq TriggerOrder
    BY DEF SwapTyped
  <1>5. CASE /\ pos.size > 0 /\ orders' = orders \cup {new}
             /\ upd' = [upd EXCEPT !.wanted = Tail(@), !.created = @ \cup {new}]
    <2>1. Tail(upd.wanted) \in Seq(TriggerOrder)
      BY <1>1
    <2>2. /\ upd'.at = "create" /\ upd'.wanted = Tail(upd.wanted) /\ upd'.old = upd.old
          /\ upd'.created = upd.created \cup {new} /\ upd' \in Call
      BY <1>1, <1>2, <1>4, <1>5, <2>1 DEF Call
    <2>3. SwapTyped'
      BY <1>1, <1>2, <1>4, <1>5, <2>2 DEF SwapTyped
    <2>4. GroupWanted'
      <3>1. Swap!Stops(upd.created \cup {new}) # {}
        BY <1>1, <1>2 DEF GroupWanted, Swap!Stops
      <3> QED
        BY <1>1, <1>2, <2>2, <3>1 DEF GroupWanted, Before
    <2>5. StopStands'
      <3>1. Swap!Stops(orders) \ upd.created \subseteq Swap!Stops(orders') \ upd'.created
        BY <1>2, <1>5, <2>2 DEF Swap!Stops
      <3>2. Swap!Stops(orders) \ (upd.old \cup upd.created)
              \subseteq Swap!Stops(orders') \ (upd'.old \cup upd'.created)
        BY <1>2, <1>5, <2>2 DEF Swap!Stops
      <3>3. Swap!Stops(orders') \ upd'.created \subseteq Swap!Stops(orders) \ upd.created
        BY <1>2, <1>5, <2>2 DEF Swap!Stops
      <3>4. upd.created \subseteq orders => upd'.created \subseteq orders'
        BY <1>5, <2>2
      <3> QED
        BY <1>1, <2>2, <3>1, <3>2, <3>3, <3>4 DEF StopStands
    <2>6. GroupStands'
      BY <1>1, <1>5, <2>2 DEF GroupStands
    <2>7. StopsFit'
      <3>1. ASSUME ~moved PROVE Swap!Stops({new}) # {} => Fits(pos, base, new.price)
        BY <1>1, <1>2, <3>1 DEF StopsFit, WantedFits, Swap!Stops
      <3>2. ASSUME ~moved, NEW o \in Swap!Stops(orders' \cup upd'.created) \ base
            PROVE  Fits(pos, base, o.price)
        <4>1. o \in Swap!Stops(orders \cup upd.created) \ base \/ (o = new /\ new \in Swap!Stops({new}))
          BY <1>5, <2>2, <3>2 DEF Swap!Stops
        <4> QED
          BY <1>1, <3>1, <3>2, <4>1 DEF StopsFit
      <3>3. ASSUME ~moved, NEW i \in DOMAIN Tail(upd.wanted),
                   Tail(upd.wanted)[i].kind = "stop_loss"
            PROVE  Fits(pos, base, Tail(upd.wanted)[i].price)
        <4>1. i + 1 \in DOMAIN upd.wanted /\ Tail(upd.wanted)[i] = upd.wanted[i + 1]
          BY <1>1
        <4> QED
          BY <1>1, <3>3, <4>1 DEF StopsFit, WantedFits
      <3> QED
        BY <1>1, <2>2, <3>2, <3>3 DEF StopsFit, WantedFits, Fits
    <2> QED
      BY <2>3, <2>4, <2>5, <2>6, <2>7
  <1>6. CASE orders' = orders /\ upd' = [upd EXCEPT !.at = "rollback"]
    <2>1. /\ upd'.at = "rollback" /\ upd'.wanted = upd.wanted /\ upd'.old = upd.old
          /\ upd'.created = upd.created /\ upd'.failed = upd.failed /\ upd' \in Call
      BY <1>4, <1>6 DEF Call, Stages, Swap!Swapping
    <2>2. SwapTyped'
      BY <1>1, <1>6, <2>1 DEF SwapTyped
    <2>3. GroupWanted'
      BY <2>1, <1>1 DEF GroupWanted, Before
    <2>4. StopStands'
      BY <1>1, <1>6, <2>1 DEF StopStands
    <2>5. GroupStands'
      BY <1>1, <1>6, <2>1 DEF GroupStands, GroupWanted
    <2>6. StopsFit'
      BY <1>1, <1>6, <2>1 DEF StopsFit, Fits
    <2> QED
      BY <2>2, <2>3, <2>4, <2>5, <2>6
  <1>7. CASE /\ orders' \in {orders, orders \cup {new}}
             /\ upd' = [upd EXCEPT !.at = "create_unknown"]
    <2>1. /\ upd'.at = "create_unknown" /\ upd'.wanted = upd.wanted /\ upd'.old = upd.old
          /\ upd'.created = upd.created /\ upd'.failed = upd.failed /\ upd' \in Call
      BY <1>4, <1>7 DEF Call, Stages, Swap!Outcomes
    <2>2. orders \subseteq orders' /\ orders' \subseteq orders \cup {new}
      BY <1>7
    <2>3. SwapTyped'
      BY <1>1, <1>2, <1>4, <2>1, <2>2 DEF SwapTyped
    <2>4. GroupWanted'
      BY <2>1, <1>1 DEF GroupWanted, Before
    <2>5. StopStands'
      <3>1. Swap!Stops(orders) \subseteq Swap!Stops(orders')
        BY <2>2 DEF Swap!Stops
      <3> QED
        BY <1>1, <2>1, <3>1 DEF StopStands
    <2>6. GroupStands'
      BY <1>1, <2>1, <2>2 DEF GroupStands
    <2>7. StopsFit'
      <3>1. ASSUME ~moved PROVE Swap!Stops({new}) # {} => Fits(pos, base, new.price)
        BY <1>1, <1>2, <3>1 DEF StopsFit, WantedFits, Swap!Stops
      <3>2. ASSUME ~moved, NEW o \in Swap!Stops(orders' \cup upd'.created) \ base
            PROVE  Fits(pos, base, o.price)
        <4>1. o \in Swap!Stops(orders \cup upd.created) \ base \/ (o = new /\ new \in Swap!Stops({new}))
          BY <2>1, <2>2, <3>2 DEF Swap!Stops
        <4> QED
          BY <1>1, <3>1, <3>2, <4>1 DEF StopsFit
      <3> QED
        BY <1>1, <2>1, <3>2 DEF StopsFit, Fits
    <2> QED
      BY <2>3, <2>4, <2>5, <2>6, <2>7
  <1> QED
    BY <1>3, <1>5, <1>6, <1>7

(* What has been created is cancelled again.                               *)
LEMMA RollBackKeeps ==
  ASSUME SwapCore, Swap!RollBack
  PROVE  SwapCore'
  <1> USE DEF SwapCore
  <1>1. /\ upd.at = "rollback" /\ UNCHANGED <<pos, had, base, moved>> /\ faults' \in Nat
        /\ upd \in Call /\ orders \subseteq TriggerOrder
    <2>1. \E u, os : Swap!Done(u, os) \/ Swap!Refused(u) \/ Swap!Unanswered(u, os)
      BY DEF Swap!RollBack
    <2>2. UNCHANGED <<pos, had, base, moved>> /\ faults' \in {faults, faults + 1}
      BY <2>1 DEF Swap!Done, Swap!Refused, Swap!Unanswered, Swap!world, Swap!past
    <2> QED
      BY <2>2 DEF Swap!RollBack, SwapTyped
  <1>2. CASE upd.created = {} /\ orders' = orders /\ upd' = [upd EXCEPT !.at = "create_failed"]
    <2>1. /\ upd'.at = "create_failed" /\ upd'.wanted = upd.wanted /\ upd'.old = upd.old
          /\ upd'.created = {} /\ upd'.failed = upd.failed /\ upd' \in Call
      BY <1>1, <1>2 DEF Call, Stages, Swap!Outcomes
    <2>2. SwapTyped'
      BY <1>1, <1>2, <2>1 DEF SwapTyped
    <2>3. GroupWanted'
      BY <2>1, <1>1 DEF GroupWanted, Before
    <2>4. StopStands'
      BY <1>1, <1>2, <2>1 DEF StopStands
    <2>5. GroupStands'
      BY <1>1, <1>2, <2>1 DEF GroupStands
    <2>6. StopsFit'
      BY <1>1, <1>2, <2>1 DEF StopsFit, Fits
    <2> QED
      BY <2>2, <2>3, <2>4, <2>5, <2>6
  <1>3. ASSUME NEW o \in upd.created, NEW failed \in BOOLEAN,
               upd' = [upd EXCEPT !.created = upd.created \ {o}, !.failed = failed],
               \/ orders' = orders /\ failed
               \/ orders' = orders \ {o} /\ (failed \/ (failed = upd.failed /\ o \in orders))
        PROVE  SwapCore'
    <2>1. /\ upd'.at = "rollback" /\ upd'.wanted = upd.wanted /\ upd'.old = upd.old
          /\ upd'.created = upd.created \ {o} /\ upd'.failed = failed /\ upd' \in Call
      BY <1>1, <1>3 DEF Call
    <2>2. orders \ {o} \subseteq orders' /\ orders' \subseteq orders
      BY <1>3
    <2>3. SwapTyped'
      BY <1>1, <2>1, <2>2 DEF SwapTyped
    <2>4. GroupWanted'
      BY <2>1, <1>1 DEF GroupWanted, Before
    <2>5. StopStands'
      <3>1. Swap!Stops(orders) \ upd.created \subseteq Swap!Stops(orders') \ upd'.created
        BY <1>3, <2>1, <2>2 DEF Swap!Stops
      <3> QED
        BY <1>1, <2>1, <3>1 DEF StopStands
    <2>6. GroupStands'
      <3>1. o \notin base
        BY <1>3 DEF GroupWanted
      <3>2. ASSUME ~moved, ~failed PROVE orders' = base \cup upd'.created
        BY <1>1, <1>3, <2>1, <3>1, <3>2 DEF GroupStands, Call
      <3> QED
        BY <1>1, <2>1, <2>2, <3>1, <3>2 DEF GroupStands
    <2>7. StopsFit'
      BY <1>1, <2>1, <2>2 DEF StopsFit, Fits, Swap!Stops
    <2> QED
      BY <2>3, <2>4, <2>5, <2>6, <2>7
  <1>4. ASSUME NEW o \in upd.created,
               LET next == [upd EXCEPT !.created = @ \ {o}]
               IN \/ o \in orders /\ Swap!Done(next, orders \ {o})
                  \/ o \notin orders /\ Swap!Done(Swap!Remember(next), orders)
                  \/ Swap!Refused(Swap!Remember(next))
                  \/ Swap!Unanswered(Swap!Remember(next), orders \ {o})
        PROVE  SwapCore'
    <2> DEFINE next == [upd EXCEPT !.created = @ \ {o}]
    <2>1. /\ next = [upd EXCEPT !.created = upd.created \ {o}, !.failed = upd.failed]
          /\ Swap!Remember(next) = [upd EXCEPT !.created = upd.created \ {o}, !.failed = TRUE]
      BY <1>1 DEF Swap!Remember, Call
    <2>2. \/ o \in orders /\ upd' = next /\ orders' = orders \ {o}
          \/ upd' = Swap!Remember(next) /\ orders' \in {orders, orders \ {o}}
      BY <1>4 DEF Swap!Done, Swap!Refused, Swap!Unanswered, Swap!world
    <2>3. upd.failed \in BOOLEAN
      BY <1>1 DEF Call
    <2> QED
      BY <1>3, <2>1, <2>2, <2>3
  <1> QED
    BY <1>2, <1>4 DEF Swap!RollBack, Swap!Done

(* The old group goes when all of the new one stands.                      *)
LEMMA CancelKeeps ==
  ASSUME SwapCore, Swap!CancelOld
  PROVE  SwapCore'
  <1> USE DEF SwapCore
  <1>1. /\ upd.at = "create" /\ upd.wanted = <<>> /\ UNCHANGED <<pos, had, base, moved>>
        /\ faults' \in Nat /\ upd \in Call /\ orders \subseteq TriggerOrder
        /\ Swap!Stops(upd.created) # {} /\ upd.created \cap upd.old = {}
    BY DEF Swap!CancelOld, Swap!AllCreated, Swap!Done, Swap!Refused, Swap!Unanswered, Swap!world,
       Swap!past, SwapTyped, GroupWanted
  <1>2. PICK o : /\ orders \ {o} \subseteq orders' /\ orders' \subseteq orders
                 /\ orders' = orders \/ o \in upd.old
                 /\ \/ upd' = [upd EXCEPT !.old = @ \ {o}] /\ orders' = orders \ {o}
                    \/ /\ \E stage \in {"ok", "cancel_partial", "cancel_unknown"} :
                            upd' = [upd EXCEPT !.at = stage]
                       /\ upd'.at = "ok" => upd.old = {}
    BY <1>1 DEF Swap!CancelOld, Swap!Done, Swap!Refused, Swap!Unanswered, Swap!world, Call
  <1>3. had => Swap!Stops(orders') # {}
    BY <1>1, <1>2 DEF StopStands, Swap!Stops
  <1>4. upd.created \subseteq orders => upd.created \subseteq orders'
    BY <1>1, <1>2
  <1>5. CASE upd' = [upd EXCEPT !.old = @ \ {o}] /\ orders' = orders \ {o}
    <2>1. /\ upd'.at = "create" /\ upd'.wanted = <<>> /\ upd'.old = upd.old \ {o}
          /\ upd'.created = upd.created /\ upd'.failed = upd.failed /\ upd' \in Call
      BY <1>1, <1>5 DEF Call
    <2>2. SwapTyped'
      BY <1>1, <1>2, <2>1 DEF SwapTyped
    <2>3. GroupWanted'
      BY <1>1, <2>1 DEF GroupWanted, Before
    <2>4. StopStands'
      BY <1>1, <1>2, <1>3, <1>4, <2>1 DEF StopStands, Swap!Stops
    <2>5. GroupStands'
      BY <1>1, <1>2, <1>5, <2>1 DEF GroupStands
    <2>6. StopsFit'
      BY <1>1, <1>2, <2>1 DEF StopsFit, WantedFits, Fits, Swap!Stops
    <2> QED
      BY <2>2, <2>3, <2>4, <2>5, <2>6
  <1>6. ASSUME NEW stage \in {"ok", "cancel_partial", "cancel_unknown"},
               upd' = [upd EXCEPT !.at = stage]
        PROVE  SwapCore'
    <2>1. /\ upd'.at = stage /\ upd'.wanted = <<>> /\ upd'.old = upd.old
          /\ upd'.created = upd.created /\ upd'.failed = upd.failed /\ upd' \in Call
      BY <1>1, <1>6 DEF Call, Stages, Swap!Outcomes
    <2>2. SwapTyped'
      BY <1>1, <1>2, <2>1 DEF SwapTyped
    <2>3. GroupWanted'
      BY <1>1, <2>1 DEF GroupWanted, Before
    <2>4. StopStands'
      BY <1>1, <1>3, <2>1 DEF StopStands
    <2>5. GroupStands'
      <3>1. stage = "ok" /\ ~moved => orders' = upd.created
        <4>1. upd'.at # "create"
          BY <2>1
        <4>2. stage = "ok" => upd.old = {} /\ orders' = orders
          BY <1>1, <1>2, <2>1, <4>1 DEF Call
        <4> QED
          BY <1>1, <4>2 DEF GroupStands
      <3>2. ~moved => upd.created \subseteq orders
        BY <1>1 DEF GroupStands
      <3> QED
        BY <1>1, <1>4, <2>1, <3>1, <3>2 DEF GroupStands
    <2>6. StopsFit'
      BY <1>1, <1>2, <2>1 DEF StopsFit, Fits, Swap!Stops
    <2> QED
      BY <2>2, <2>3, <2>4, <2>5, <2>6
  <1> QED
    BY <1>2, <1>5, <1>6

LEMMA SwapStep == SwapCore /\ [Swap!Next]_Swap!vars => SwapCore'
  <1> SUFFICES ASSUME SwapCore, [Swap!Next]_Swap!vars PROVE SwapCore'
    OBVIOUS
  <1>1. CASE Swap!Return
    BY <1>1, IdleKeeps DEF Swap!Return, Swap!world, SwapCore, SwapTyped
  <1>2. CASE UNCHANGED Swap!vars
    <2> USE <1>2 DEF Swap!vars, SwapCore
    <2>1. SwapTyped' /\ GroupWanted' /\ StopStands'
      BY DEF SwapTyped, GroupWanted, StopStands
    <2>2. GroupStands'
      BY DEF GroupStands
    <2>3. StopsFit'
      BY DEF StopsFit, WantedFits, Fits
    <2> QED
      BY <2>1, <2>2, <2>3
  <1> QED
    BY <1>1, <1>2, ExchangeActs, ReadingKeeps, AssessKeeps, RecheckKeeps, CreateKeeps,
       RollBackKeeps, CancelKeeps DEF Swap!Next

(* Type correctness of the replacement: its readings, the group it wants,  *)
(* the orders it has created and those it has still to cancel.             *)
THEOREM SwapTypeCorrect == Swap!Spec => []SwapTyped
<1>1. SwapCore => SwapTyped
  BY DEF SwapCore
<1> QED
  BY <1>1, SwapInit, SwapStep, PTL DEF Swap!Spec

(* _swap_tpsl_group creates the whole group before it cancels an old order,*)
(* and rolls back only what it has created: whatever calls are refused or  *)
(* stay unanswered, a position that had a stop has one.                    *)
THEOREM NoNakedWindow == Swap!Spec => []NeverBare
<1>1. SwapCore => NeverBare
  BY DEF SwapCore, StopStands, NeverBare, Swap!NeverBare
<1> QED
  BY <1>1, SwapInit, SwapStep, PTL DEF Swap!Spec

(* What update_tpsl answers is what has happened, unless the exchange has  *)
(* acted since it compared: success means the wanted group and no other,   *)
(* and a rollback reported as whole leaves the old group.                  *)
THEOREM AnswersAreTrue == Swap!Spec => []ToldTrue
<1>1. SwapCore => ToldTrue
  <2> SUFFICES ASSUME SwapCore, ~moved
               PROVE  /\ upd.at = "ok" => orders = upd.created
                      /\ upd.at = "create_failed" /\ ~upd.failed => orders = base
                      /\ upd.at = "create_unknown" => base \subseteq orders
                      /\ upd.at \in {"cancel_partial", "cancel_unknown"} =>
                           upd.created \subseteq orders
    BY DEF ToldTrue, Swap!ToldTrue
  <2> QED
    BY DEF SwapCore, GroupStands
<1> QED
  BY <1>1, SwapInit, SwapStep, PTL DEF Swap!Spec

(* stop_update_rejection compares one planned loss; whatever of the old    *)
(* and of the new group stands when the call ends, the stop that fires     *)
(* first loses no more than before, or no more than the limit.             *)
THEOREM LossStaysLimited == Swap!Spec => []WidenedWithinLimit
<1>1. SwapCore => WidenedWithinLimit
  <2> DEFINE before == Swap!Risk(pos, Swap!EffectiveStop(base, pos.dir))
             after == Swap!Risk(pos, Swap!EffectiveStop(orders, pos.dir))
  <2> SUFFICES ASSUME SwapCore, ~moved, upd.at \in {"create", "rollback"} \cup Swap!Outcomes,
                      Swap!Stops(base) # {}, Swap!Stops(orders) # {}
               PROVE  after <= Swap!Max({before, RiskLimit})
    BY DEF WidenedWithinLimit, Swap!WidenedWithinLimit
  <2>1. pos \in Position /\ orders \subseteq TriggerOrder /\ base \subseteq TriggerOrder
    BY DEF SwapCore, SwapTyped
  <2>2. PICK e \in Swap!Stops(orders) :
          /\ Swap!EffectiveStop(orders, pos.dir) = e.price /\ e.price \in Nat
          /\ \A o \in Swap!Stops(orders) :
               IF pos.dir > 0 THEN e.price >= o.price ELSE e.price <= o.price
    BY <2>1, Effective
  <2>3. PICK b \in Swap!Stops(base) :
          /\ Swap!EffectiveStop(base, pos.dir) = b.price /\ b.price \in Nat
          /\ \A o \in Swap!Stops(base) :
               IF pos.dir > 0 THEN b.price >= o.price ELSE b.price <= o.price
    BY <2>1, Effective
  <2>4. after \in Nat /\ before \in Nat /\ RiskLimit \in Nat
    BY <2>1, <2>2, <2>3, RiskTyped, ProtectionAssumption
  <2>5. /\ Swap!Max({before, RiskLimit}) \in Int /\ Swap!Max({before, RiskLimit}) >= before
    <3> HIDE DEF before
    <3>1. before \in Int /\ RiskLimit \in Int
      BY <2>4
    <3> QED
      BY <3>1, MaxOfTwo
  <2>6. ASSUME NEW s \in Nat, Fits(pos, base, s),
               IF pos.dir > 0 THEN e.price >= s ELSE e.price <= s
        PROVE  after <= Swap!Max({before, RiskLimit})
    <3>1. after <= Swap!Risk(pos, s) /\ Swap!Risk(pos, s) \in Nat
      BY <2>1, <2>2, <2>6, RiskFalls, RiskTyped
    <3>2. Swap!Risk(pos, s) <= Swap!Max({before, RiskLimit})
      BY <2>6 DEF Fits
    <3> HIDE DEF after, before
    <3> QED
      BY <2>4, <2>5, <3>1, <3>2
  <2>7. ASSUME NEW o \in Swap!Stops(orders \cup upd.created) \ base
        PROVE  Fits(pos, base, o.price)
    BY DEF SwapCore, StopsFit
  <2>8. CASE e \notin base
    BY <2>2, <2>6, <2>7, <2>8 DEF Swap!Stops
  <2>9. CASE base \subseteq orders
    <3>1. IF pos.dir > 0 THEN e.price >= b.price ELSE e.price <= b.price
      BY <2>2, <2>9 DEF Swap!Stops
    <3>2. after <= before
      BY <2>1, <2>2, <2>3, <3>1, RiskFalls
    <3> HIDE DEF after, before
    <3> QED
      BY <2>4, <2>5, <3>2
  <2>10. CASE upd.created \subseteq orders /\ Swap!Stops(upd.created) # {}
    <3> PICK s \in Swap!Stops(upd.created) : TRUE
      BY <2>10
    <3>1. s \in Swap!Stops(orders) /\ s \notin base
      BY <2>10 DEF Swap!Stops, SwapCore, GroupWanted
    <3>2. s.price \in Nat
      BY <2>1, <3>1, ProtectionAssumption DEF Swap!Stops, TriggerOrder
    <3>3. Fits(pos, base, s.price)
      BY <2>7, <3>1 DEF Swap!Stops
    <3> QED
      BY <2>2, <2>6, <3>1, <3>2, <3>3
  <2>11. base \subseteq orders \/ (upd.created \subseteq orders /\ Swap!Stops(upd.created) # {})
    BY DEF SwapCore, GroupStands, GroupWanted, Swap!Outcomes
  <2> QED
    BY <2>9, <2>10, <2>11
<1> QED
  BY <1>1, SwapInit, SwapStep, PTL DEF Swap!Spec
===========================================================================
