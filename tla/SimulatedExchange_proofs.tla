----------------------- MODULE SimulatedExchange_proofs -----------------------
(***************************************************************************)
(* Proofs about the simulated exchange, for any of its constants.          *)
(*                                                                         *)
(* First what becomes of a fill (FillPersist): no fill is lost, none is    *)
(* booked twice, and a manual close keeps its mark unless its own write    *)
(* raised, for every number of fills, drains and manual closes, with       *)
(* resets and ambiguous commits.                                           *)
(*                                                                         *)
(* Then the matching engine (PaperEngine).  A tick is a scan over a copy   *)
(* of the book, and everything it fills may take other orders of the copy  *)
(* away: the inductive invariant says that a due order is either still     *)
(* ahead in the copy or no longer in the book (Ahead), and that nothing    *)
(* due is left behind the scan (Matched, Stopped).  A position keeps its   *)
(* stop because every order that may open exposure rests together with its *)
(* own (Justified).                                                        *)
(***************************************************************************)
EXTENDS SimulatedExchange, Sequences, SequenceTheorems, WellFoundedInduction, TLAPS

-----------------------------------------------------------------------------
(***************************************************************************)
(* The recording of fills.                                                 *)
(***************************************************************************)

(* The tasks in their critical section, which is not where a task is idle  *)
(* or waits for the lock.                                                  *)
Active == {"placed", "work", "others", "mine"}

LockInv == \A t \in Tasks : pc[t] \in Active <=> holder = t

(* Which tasks are where, and what they can hold there.                    *)
HandInv ==
  /\ \A t \in Tasks : pc[t] \in {"placed", "others", "mine"} => t \in Closers
  /\ \A t \in Tasks : pc[t] \in {"idle", "waiting", "placed"} => work[t] = {}
  /\ \A t \in Closers : pc[t] \notin {"others", "mine"} => mine[t] = {}
  /\ \A t \in Closers : pc[t] = "mine" => mine[t] \subseteq work[t]

(* Only fills that were made are anywhere, and a fill that is counted has  *)
(* a row.                                                                  *)
MadeInv ==
  /\ buffer \subseteq Made /\ pending \subseteq Made
  /\ \A t \in Tasks : work[t] \subseteq Made
  /\ \A t \in Closers : mine[t] \subseteq Made
  /\ \A f \in Fills : copies[f] > 0 => rows[f] # {}
  /\ \A f \in Fills : rows[f] # {} => f \in Made

(* Where the fill of a manual close can be until its own write raises.     *)
Marked(f) == kind[f] = "close" /\ f \notin lost /\ f \notin raised
CloseInv ==
  \A f \in Made : Marked(f) =>
    /\ f \notin pending
    /\ f \in buffer => \E t \in Closers : pc[t] = "placed" /\ f \in ownFill[t]
    /\ \A t \in Tasks : f \in work[t] => pc[t] = "mine" /\ f \in mine[t]
    /\ rows[f] \subseteq {"user_close"}

(* What fails while a manual close writes its own fills, it has noticed.   *)
WarnInv == \A t \in Closers : pc[t] = "mine" /\ pending # {} => failed[t]

IInv ==
  /\ TypeOK /\ LockInv /\ HandInv /\ MadeInv
  /\ NoFillLost /\ RecordedOnce /\ CloseInv /\ WarnInv
-----------------------------------------------------------------------------
(* What a new fill and a new row do to the types.                          *)
TypeFills ==
  /\ nextFill \in 0..MaxFills /\ fillSeq \in Nat
  /\ kind \in [Fills -> Kinds] /\ seq \in [Fills -> Nat]
  /\ buffer \subseteq Fills

LEMMA NewFillType ==
  ASSUME TypeOK, NEW k \in Kinds, NewFill(k)
  PROVE  TypeFills' /\ nextFill + 1 \in Fills
<1>1. nextFill + 1 \in Fills
  BY FillPersistAssumption DEF FillPersistAssumption, TypeOK, NewFill, Fills
<1>2. kind' \in [Fills -> Kinds]
  BY <1>1 DEF TypeOK, NewFill
<1>3. seq' \in [Fills -> Nat]
  BY <1>1 DEF TypeOK, NewFill
<1>4. nextFill' \in 0..MaxFills /\ fillSeq' \in Nat /\ buffer' \subseteq Fills
  BY <1>1 DEF TypeOK, NewFill, Fills
<1> QED
  BY <1>1, <1>2, <1>3, <1>4 DEF TypeFills

LEMMA InsertType ==
  ASSUME TypeOK, NEW t \in Tasks, NEW f \in Fills, UNCHANGED tableVars \/ Insert(t, f)
  PROVE  copies' \in [Fills -> Nat] /\ rows' \in [Fills -> SUBSET Sources]
<1>1. SourceFor(t, f) \in Sources
  BY DEF SourceFor, TradeSource, Sources
<1>2. CASE Insert(t, f)
  BY <1>1, <1>2 DEF TypeOK, Insert
<1>3. CASE UNCHANGED tableVars
  BY <1>3 DEF TypeOK, tableVars
<1> QED
  BY <1>2, <1>3

LEMMA NewFillEffect ==
  ASSUME TypeOK, NEW k, NewFill(k)
  PROVE  Made' = Made \cup {nextFill + 1} /\ buffer' = buffer \cup {nextFill + 1}
BY DEF TypeOK, NewFill, Made

LEMMA InsertEffect ==
  ASSUME TypeOK, NEW t \in Tasks, NEW f \in Fills, Insert(t, f)
  PROVE  copies'[f] = copies[f] + 1 /\ rows'[f] # {}
BY DEF TypeOK, Insert

(* The unique index: a fill that may be inserted has no row.               *)
LEMMA FreshInsert ==
  ASSUME TypeOK, MadeInv, NEW t \in Tasks, NEW f \in Fills, Writing(t, f),
         TradeId(f) \notin Stored
  PROVE  copies[f] = 0
<1>1. f \in Made /\ copies[f] \in Nat /\ (copies[f] > 0 => rows[f] # {})
  BY DEF TypeOK, MadeInv, Writing
<1>2. rows[f] = {}
  BY <1>1 DEF Stored
<1> QED
  BY <1>1, <1>2

(* Every step keeps the types.                                             *)
LEMMA TypeStep ==
  ASSUME TypeOK, [Next]_vars
  PROVE  TypeOK'
<1> USE FillPersistAssumption DEF taskVars, fillVars, tableVars, Made, Fills, Tasks,
          TypeOK, PCs, Kinds, Sources
<1>1. ASSUME NEW k \in EngineKinds, EngineFill(k) PROVE TypeOK'
  <2>1. k \in Kinds
    OBVIOUS
  <2>2. NewFill(k)
    BY <1>1 DEF EngineFill
  <2>3. TypeFills'
    BY <2>1, <2>2, NewFillType
  <2> QED
    BY <1>1, <2>3 DEF EngineFill, TypeFills
<1>2. CASE ResetAccount
  BY <1>2 DEF ResetAccount
<1>3. ASSUME NEW t \in Tasks, Called(t) PROVE TypeOK'
  BY <1>3 DEF Called
<1>4. ASSUME NEW t \in Drainers, DrainBegins(t) PROVE TypeOK'
  BY <1>4 DEF DrainBegins, LockFree
<1>5. ASSUME NEW t \in Tasks, NEW f \in Fills, WriteSucceeds(t, f) PROVE TypeOK'
  <2>1. copies' \in [Fills -> Nat] /\ rows' \in [Fills -> SUBSET Sources]
    BY <1>5, InsertType DEF WriteSucceeds
  <2> QED
    BY <1>5, <2>1 DEF WriteSucceeds, Writing
<1>6. ASSUME NEW t \in Tasks, NEW f \in Fills, WriteRaises(t, f) PROVE TypeOK'
  <2>1. tableVars' = tableVars \/ Insert(t, f)
    BY <1>6 DEF WriteRaises
  <2>2. copies' \in [Fills -> Nat] /\ rows' \in [Fills -> SUBSET Sources]
    BY <2>1, InsertType
  <2> QED
    BY <1>6, <2>2 DEF WriteRaises, Writing, Requeued
<1>7. ASSUME NEW t \in Drainers, DrainReturns(t) PROVE TypeOK'
  BY <1>7 DEF DrainReturns
<1>8. ASSUME NEW t \in Closers, CloseOrders(t) PROVE TypeOK'
  <2>1. CASE NewFill("close") /\ ownFill' = [ownFill EXCEPT ![t] = {nextFill + 1}]
    <3>1. TypeFills' /\ nextFill + 1 \in Fills
      BY <2>1, NewFillType
    <3> QED
      BY SMTT(30), <1>8, <2>1, <3>1 DEF CloseOrders, TypeFills
  <2>2. CASE UNCHANGED <<fillVars, buffer>> /\ ownFill' = [ownFill EXCEPT ![t] = {}]
    BY <1>8, <2>2 DEF CloseOrders
  <2> QED
    BY <1>8, <2>1, <2>2 DEF CloseOrders
<1>9. ASSUME NEW t \in Closers, CloseRefused(t) PROVE TypeOK'
  BY <1>9 DEF CloseRefused
<1>10. ASSUME NEW t \in Closers, CloseDrains(t) PROVE TypeOK'
  BY <1>10 DEF CloseDrains
<1>11. ASSUME NEW t \in Closers, CloseWritesOwn(t) PROVE TypeOK'
  BY <1>11 DEF CloseWritesOwn
<1>12. ASSUME NEW t \in Closers, CloseReturns(t) PROVE TypeOK'
  BY <1>12 DEF CloseReturns, Warning
<1>13. CASE UNCHANGED vars
  BY <1>13 DEF vars
<1> QED
  BY <1>1, <1>2, <1>3, <1>4, <1>5, <1>6, <1>7, <1>8,
     <1>9, <1>10, <1>11, <1>12, <1>13 DEF Next

(* The lock has one holder, the task in its critical section.              *)
LEMMA LockStep ==
  ASSUME TypeOK, HandInv, LockInv, [Next]_vars
  PROVE  LockInv'
<1> USE FillPersistAssumption DEF taskVars, fillVars, tableVars, Made, Fills, Tasks,
          TypeOK, HandInv, LockInv, PCs, Active
<1>1. ASSUME NEW k \in EngineKinds, EngineFill(k) PROVE LockInv'
  BY <1>1 DEF EngineFill, NewFill
<1>2. CASE ResetAccount
  BY <1>2 DEF ResetAccount
<1>3. ASSUME NEW t \in Tasks, Called(t) PROVE LockInv'
  BY <1>3 DEF Called
<1>4. ASSUME NEW t \in Drainers, DrainBegins(t) PROVE LockInv'
  BY <1>4 DEF DrainBegins, LockFree
<1>5. ASSUME NEW t \in Tasks, NEW f \in Fills, WriteSucceeds(t, f) PROVE LockInv'
  BY <1>5 DEF WriteSucceeds, Writing, Insert
<1>6. ASSUME NEW t \in Tasks, NEW f \in Fills, WriteRaises(t, f) PROVE LockInv'
  BY <1>6 DEF WriteRaises, Writing, Insert, Requeued
<1>7. ASSUME NEW t \in Drainers, DrainReturns(t) PROVE LockInv'
  BY <1>7 DEF DrainReturns
<1>8. ASSUME NEW t \in Closers, CloseOrders(t) PROVE LockInv'
  BY <1>8 DEF CloseOrders, NewFill
<1>9. ASSUME NEW t \in Closers, CloseRefused(t) PROVE LockInv'
  BY <1>9 DEF CloseRefused
<1>10. ASSUME NEW t \in Closers, CloseDrains(t) PROVE LockInv'
  BY <1>10 DEF CloseDrains
<1>11. ASSUME NEW t \in Closers, CloseWritesOwn(t) PROVE LockInv'
  BY <1>11 DEF CloseWritesOwn
<1>12. ASSUME NEW t \in Closers, CloseReturns(t) PROVE LockInv'
  BY <1>12 DEF CloseReturns, Warning
<1>13. CASE UNCHANGED vars
  BY <1>13 DEF vars
<1> QED
  BY <1>1, <1>2, <1>3, <1>4, <1>5, <1>6, <1>7, <1>8,
     <1>9, <1>10, <1>11, <1>12, <1>13 DEF Next

(* Tasks outside their critical section hold no fills.                     *)
LEMMA HandStep ==
  ASSUME TypeOK, HandInv, [Next]_vars
  PROVE  HandInv'
<1> USE FillPersistAssumption DEF taskVars, fillVars, tableVars, Made, Fills, Tasks,
          TypeOK, HandInv, PCs
<1>1. ASSUME NEW k \in EngineKinds, EngineFill(k) PROVE HandInv'
  BY <1>1 DEF EngineFill, NewFill
<1>2. CASE ResetAccount
  BY <1>2 DEF ResetAccount
<1>3. ASSUME NEW t \in Tasks, Called(t) PROVE HandInv'
  BY <1>3 DEF Called
<1>4. ASSUME NEW t \in Drainers, DrainBegins(t) PROVE HandInv'
  BY <1>4 DEF DrainBegins, LockFree
<1>5. ASSUME NEW t \in Tasks, NEW f \in Fills, WriteSucceeds(t, f) PROVE HandInv'
  BY <1>5 DEF WriteSucceeds, Writing, Insert
<1>6. ASSUME NEW t \in Tasks, NEW f \in Fills, WriteRaises(t, f) PROVE HandInv'
  BY <1>6 DEF WriteRaises, Writing, Insert, Requeued
<1>7. ASSUME NEW t \in Drainers, DrainReturns(t) PROVE HandInv'
  BY <1>7 DEF DrainReturns
<1>8. ASSUME NEW t \in Closers, CloseOrders(t) PROVE HandInv'
  BY <1>8 DEF CloseOrders, NewFill
<1>9. ASSUME NEW t \in Closers, CloseRefused(t) PROVE HandInv'
  BY <1>9 DEF CloseRefused
<1>10. ASSUME NEW t \in Closers, CloseDrains(t) PROVE HandInv'
  BY <1>10 DEF CloseDrains
<1>11. ASSUME NEW t \in Closers, CloseWritesOwn(t) PROVE HandInv'
  BY <1>11 DEF CloseWritesOwn
<1>12. ASSUME NEW t \in Closers, CloseReturns(t) PROVE HandInv'
  BY <1>12 DEF CloseReturns, Warning
<1>13. CASE UNCHANGED vars
  BY <1>13 DEF vars
<1> QED
  BY <1>1, <1>2, <1>3, <1>4, <1>5, <1>6, <1>7, <1>8,
     <1>9, <1>10, <1>11, <1>12, <1>13 DEF Next

(* Fills that were not made are nowhere.                                    *)
LEMMA MadeStep ==
  ASSUME TypeOK, HandInv, MadeInv, [Next]_vars
  PROVE  MadeInv'
<1> USE FillPersistAssumption DEF taskVars, fillVars, tableVars, Made, Fills, Tasks,
          TypeOK, HandInv, MadeInv, PCs
<1>1. ASSUME NEW k \in EngineKinds, EngineFill(k) PROVE MadeInv'
  BY <1>1 DEF EngineFill, NewFill
<1>2. CASE ResetAccount
  BY <1>2 DEF ResetAccount
<1>3. ASSUME NEW t \in Tasks, Called(t) PROVE MadeInv'
  BY <1>3 DEF Called
<1>4. ASSUME NEW t \in Drainers, DrainBegins(t) PROVE MadeInv'
  BY <1>4 DEF DrainBegins, LockFree
<1>5. ASSUME NEW t \in Tasks, NEW f \in Fills, WriteSucceeds(t, f) PROVE MadeInv'
  <2>1. f \in Made /\ work' = [work EXCEPT ![t] = @ \ {f}]
    BY <1>5 DEF WriteSucceeds, Writing
  <2>2. ASSUME NEW g \in Fills
        PROVE  (copies'[g] > 0 => rows'[g] # {}) /\ (rows'[g] # {} => g \in Made)
    <3>1. CASE UNCHANGED tableVars
      BY <3>1
    <3>2. CASE Insert(t, f) /\ g = f
      BY <2>1, <3>2, InsertEffect
    <3>3. CASE Insert(t, f) /\ g # f
      BY <3>3 DEF Insert
    <3> QED
      BY <1>5, <3>1, <3>2, <3>3 DEF WriteSucceeds
  <2>3. \A s \in Tasks : work'[s] \subseteq Made
    BY <2>1
  <2>4. \A s \in Closers : mine'[s] \subseteq Made
    BY <1>5 DEF WriteSucceeds
  <2> QED
    BY <1>5, <2>1, <2>2, <2>3, <2>4 DEF WriteSucceeds
<1>6. ASSUME NEW t \in Tasks, NEW f \in Fills, WriteRaises(t, f) PROVE MadeInv'
  <2>1. f \in Made /\ work' = [work EXCEPT ![t] = @ \ {f}]
    BY <1>6 DEF WriteRaises, Writing
  <2>2. ASSUME NEW g \in Fills
        PROVE  (copies'[g] > 0 => rows'[g] # {}) /\ (rows'[g] # {} => g \in Made)
    <3>1. CASE UNCHANGED tableVars
      BY <3>1
    <3>2. CASE Insert(t, f) /\ g = f
      BY <2>1, <3>2, InsertEffect
    <3>3. CASE Insert(t, f) /\ g # f
      BY <3>3 DEF Insert
    <3> QED
      BY <1>6, <3>1, <3>2, <3>3 DEF WriteRaises
  <2>3. \A s \in Tasks : work'[s] \subseteq Made
    BY <2>1
  <2>4. \A s \in Closers : mine'[s] \subseteq Made
    BY <1>6 DEF WriteRaises
  <2> QED
    BY <1>6, <2>1, <2>2, <2>3, <2>4 DEF WriteRaises, Requeued
<1>7. ASSUME NEW t \in Drainers, DrainReturns(t) PROVE MadeInv'
  BY <1>7 DEF DrainReturns
<1>8. ASSUME NEW t \in Closers, CloseOrders(t) PROVE MadeInv'
  <2>1. Made \subseteq Made' /\ buffer' \subseteq Made'
    BY <1>8, NewFillEffect DEF CloseOrders
  <2> QED
    BY <1>8, <2>1 DEF CloseOrders
<1>9. ASSUME NEW t \in Closers, CloseRefused(t) PROVE MadeInv'
  BY <1>9 DEF CloseRefused
<1>10. ASSUME NEW t \in Closers, CloseDrains(t) PROVE MadeInv'
  BY <1>10 DEF CloseDrains
<1>11. ASSUME NEW t \in Closers, CloseWritesOwn(t) PROVE MadeInv'
  <2>1. mine[t] \subseteq Made
    BY DEF MadeInv
  <2> QED
    BY <1>11, <2>1 DEF CloseWritesOwn
<1>12. ASSUME NEW t \in Closers, CloseReturns(t) PROVE MadeInv'
  BY <1>12 DEF CloseReturns, Warning
<1>13. CASE UNCHANGED vars
  BY <1>13 DEF vars
<1> QED
  BY <1>1, <1>2, <1>3, <1>4, <1>5, <1>6, <1>7, <1>8,
     <1>9, <1>10, <1>11, <1>12, <1>13 DEF Next

(* No step drops a fill.                                                    *)
LEMMA LossStep ==
  ASSUME TypeOK, HandInv, MadeInv, NoFillLost, [Next]_vars
  PROVE  NoFillLost'
<1> USE FillPersistAssumption DEF taskVars, fillVars, tableVars, Made, Fills, Tasks,
          TypeOK, HandInv, MadeInv, NoFillLost, InHand, PCs
<1>1. ASSUME NEW k \in EngineKinds, EngineFill(k) PROVE NoFillLost'
  <2>1. Made' = Made \cup {nextFill + 1} /\ buffer' = buffer \cup {nextFill + 1}
    BY <1>1, NewFillEffect DEF EngineFill
  <2> QED
    BY <1>1, <2>1 DEF EngineFill
<1>2. CASE ResetAccount
  BY <1>2 DEF ResetAccount
<1>3. ASSUME NEW t \in Tasks, Called(t) PROVE NoFillLost'
  BY <1>3 DEF Called
<1>4. ASSUME NEW t \in Drainers, DrainBegins(t) PROVE NoFillLost'
  BY <1>4 DEF DrainBegins, LockFree
<1>5. ASSUME NEW t \in Tasks, NEW f \in Fills, WriteSucceeds(t, f) PROVE NoFillLost'
  <2> SUFFICES ASSUME NEW g \in Made
               PROVE  (InHand(g) \/ g \in buffer \cup pending \cup lost \/ rows[g] # {})'
    BY <1>5 DEF WriteSucceeds
  <2>1. CASE g = f
    BY <1>5, <2>1, InsertEffect DEF WriteSucceeds
  <2>2. CASE g # f
    <3>1. rows'[g] = rows[g]
      BY <1>5, <2>2 DEF WriteSucceeds, Insert
    <3>2. InHand(g) => InHand(g)'
      BY <1>5, <2>2 DEF WriteSucceeds
    <3> QED
      BY <1>5, <3>1, <3>2 DEF WriteSucceeds
  <2> QED
    BY <2>1, <2>2
<1>6. ASSUME NEW t \in Tasks, NEW f \in Fills, WriteRaises(t, f) PROVE NoFillLost'
  <2> SUFFICES ASSUME NEW g \in Made
               PROVE  (InHand(g) \/ g \in buffer \cup pending \cup lost \/ rows[g] # {})'
    BY <1>6 DEF WriteRaises
  <2>1. CASE g = f
    BY <1>6, <2>1, InsertEffect DEF WriteRaises, Requeued
  <2>2. CASE g # f
    <3>1. rows'[g] = rows[g]
      BY <1>6, <2>2 DEF WriteRaises, Insert
    <3>2. InHand(g) => InHand(g)'
      BY <1>6, <2>2 DEF WriteRaises
    <3> QED
      BY <1>6, <3>1, <3>2 DEF WriteRaises, Requeued
  <2> QED
    BY <2>1, <2>2
<1>7. ASSUME NEW t \in Drainers, DrainReturns(t) PROVE NoFillLost'
  BY <1>7 DEF DrainReturns
<1>8. ASSUME NEW t \in Closers, CloseOrders(t) PROVE NoFillLost'
  <2>1. \/ Made' = Made \cup {nextFill + 1} /\ buffer' = buffer \cup {nextFill + 1}
        \/ Made' = Made /\ buffer' = buffer
    BY <1>8, NewFillEffect DEF CloseOrders
  <2> QED
    BY <1>8, <2>1 DEF CloseOrders
<1>9. ASSUME NEW t \in Closers, CloseRefused(t) PROVE NoFillLost'
  BY <1>9 DEF CloseRefused
<1>10. ASSUME NEW t \in Closers, CloseDrains(t) PROVE NoFillLost'
  <2> SUFFICES ASSUME NEW g \in Made
               PROVE  (InHand(g) \/ g \in buffer \cup pending \cup lost \/ rows[g] # {})'
    BY <1>10 DEF CloseDrains
  <2>1. work[t] = {} /\ mine[t] = {}
    BY <1>10 DEF CloseDrains
  <2>2. CASE g \in buffer \cup pending
    <3>1. g \in work'[t] \/ g \in mine'[t]
      BY <1>10, <2>2 DEF CloseDrains
    <3> QED
      BY <3>1
  <2>3. CASE g \notin buffer \cup pending /\ InHand(g)
    <3>1. \A u \in Tasks \ {t} : work'[u] = work[u]
      BY <1>10 DEF CloseDrains
    <3>2. \A u \in Closers \ {t} : mine'[u] = mine[u]
      BY <1>10 DEF CloseDrains
    <3> QED
      BY <2>1, <2>3, <3>1, <3>2
  <2> QED
    BY <1>10, <2>2, <2>3 DEF CloseDrains
<1>11. ASSUME NEW t \in Closers, CloseWritesOwn(t) PROVE NoFillLost'
  BY <1>11 DEF CloseWritesOwn
<1>12. ASSUME NEW t \in Closers, CloseReturns(t) PROVE NoFillLost'
  BY <1>12 DEF CloseReturns, Warning
<1>13. CASE UNCHANGED vars
  BY <1>13 DEF vars
<1> QED
  BY <1>1, <1>2, <1>3, <1>4, <1>5, <1>6, <1>7, <1>8,
     <1>9, <1>10, <1>11, <1>12, <1>13 DEF Next

(* The unique key stops a second row.                                       *)
LEMMA OnceStep ==
  ASSUME TypeOK, MadeInv, RecordedOnce, [Next]_vars
  PROVE  RecordedOnce'
<1> USE FillPersistAssumption DEF taskVars, fillVars, tableVars, Made, Fills, Tasks,
          TypeOK, MadeInv, RecordedOnce, PCs
<1>1. ASSUME NEW k \in EngineKinds, EngineFill(k) PROVE RecordedOnce'
  BY <1>1 DEF EngineFill, NewFill
<1>2. CASE ResetAccount
  BY <1>2 DEF ResetAccount
<1>3. ASSUME NEW t \in Tasks, Called(t) PROVE RecordedOnce'
  BY <1>3 DEF Called
<1>4. ASSUME NEW t \in Drainers, DrainBegins(t) PROVE RecordedOnce'
  BY <1>4 DEF DrainBegins, LockFree
<1>5. ASSUME NEW t \in Tasks, NEW f \in Fills, WriteSucceeds(t, f) PROVE RecordedOnce'
  <2>1. Insert(t, f) /\ copies[f] = 0
    BY <1>5, FreshInsert DEF WriteSucceeds
  <2> QED
    BY <2>1 DEF Insert
<1>6. ASSUME NEW t \in Tasks, NEW f \in Fills, WriteRaises(t, f) PROVE RecordedOnce'
  <2>1. CASE UNCHANGED tableVars
    BY <2>1
  <2>2. CASE Insert(t, f) /\ TradeId(f) \notin Stored
    <3>1. copies[f] = 0
      BY <1>6, <2>2, FreshInsert DEF WriteRaises
    <3>2. \A g \in Fills \ {f} : copies'[g] = copies[g]
      BY <2>2 DEF Insert
    <3>3. copies'[f] = 1
      BY <2>2, <3>1 DEF Insert
    <3> QED
      BY <3>2, <3>3
  <2> QED
    BY <1>6, <2>1, <2>2 DEF WriteRaises
<1>7. ASSUME NEW t \in Drainers, DrainReturns(t) PROVE RecordedOnce'
  BY <1>7 DEF DrainReturns
<1>8. ASSUME NEW t \in Closers, CloseOrders(t) PROVE RecordedOnce'
  BY <1>8 DEF CloseOrders, NewFill
<1>9. ASSUME NEW t \in Closers, CloseRefused(t) PROVE RecordedOnce'
  BY <1>9 DEF CloseRefused
<1>10. ASSUME NEW t \in Closers, CloseDrains(t) PROVE RecordedOnce'
  BY <1>10 DEF CloseDrains
<1>11. ASSUME NEW t \in Closers, CloseWritesOwn(t) PROVE RecordedOnce'
  BY <1>11 DEF CloseWritesOwn
<1>12. ASSUME NEW t \in Closers, CloseReturns(t) PROVE RecordedOnce'
  BY <1>12 DEF CloseReturns, Warning
<1>13. CASE UNCHANGED vars
  BY <1>13 DEF vars
<1> QED
  BY <1>1, <1>2, <1>3, <1>4, <1>5, <1>6, <1>7, <1>8,
     <1>9, <1>10, <1>11, <1>12, <1>13 DEF Next

(* The fill of a manual close stays with its task.                          *)
LEMMA CloseStep ==
  ASSUME TypeOK, LockInv, HandInv, MadeInv, CloseInv, [Next]_vars
  PROVE  CloseInv'
<1> USE FillPersistAssumption DEF taskVars, fillVars, tableVars, Made, Fills, Tasks,
          TypeOK, LockInv, HandInv, MadeInv, CloseInv, Marked, Active, PCs
<1>1. ASSUME NEW k \in EngineKinds, EngineFill(k) PROVE CloseInv'
  BY <1>1 DEF EngineFill, NewFill
<1>2. CASE ResetAccount
  BY <1>2 DEF ResetAccount
<1>3. ASSUME NEW t \in Tasks, Called(t) PROVE CloseInv'
  BY <1>3 DEF Called
<1>4. ASSUME NEW t \in Drainers, DrainBegins(t) PROVE CloseInv'
  BY <1>4 DEF DrainBegins, LockFree
<1>5. ASSUME NEW t \in Tasks, NEW f \in Fills, WriteSucceeds(t, f) PROVE CloseInv'
  BY SMTT(30), <1>5 DEF WriteSucceeds, Writing, Insert, SourceFor
<1>6. ASSUME NEW t \in Tasks, NEW f \in Fills, WriteRaises(t, f) PROVE CloseInv'
  BY SMTT(30), <1>6 DEF WriteRaises, Writing, Insert, Requeued, SourceFor
<1>7. ASSUME NEW t \in Drainers, DrainReturns(t) PROVE CloseInv'
  BY <1>7 DEF DrainReturns
<1>8. ASSUME NEW t \in Closers, CloseOrders(t) PROVE CloseInv'
  <2>1. pc' = [pc EXCEPT ![t] = "placed"] /\ pc[t] = "waiting" /\ work' = work
    BY <1>8 DEF CloseOrders
  <2>2. \A f \in Made : Marked(f) => f \notin buffer
    BY <1>8 DEF CloseOrders
  <2>3. CASE NewFill("close") /\ ownFill' = [ownFill EXCEPT ![t] = {nextFill + 1}]
    <3>1. CloseInv' <=> \A f \in Made' : Marked(f)' =>
            /\ f \notin pending
            /\ f \in buffer' => \E u \in Closers : pc'[u] = "placed" /\ f \in ownFill'[u]
            /\ \A u \in Tasks : f \in work[u] => pc'[u] = "mine" /\ f \in mine[u]
            /\ rows[f] \subseteq {"user_close"}
      BY <1>8 DEF CloseOrders
    <3>2. nextFill + 1 \in buffer' /\ pc'[t] = "placed" /\ nextFill + 1 \in ownFill'[t]
      BY <1>8, <2>1, <2>3 DEF CloseOrders, NewFill
    <3>3. /\ nextFill + 1 \notin pending /\ rows[nextFill + 1] = {}
          /\ \A u \in Tasks : nextFill + 1 \notin work[u]
      BY <2>3 DEF NewFill
    <3>4. ASSUME NEW f \in Made, Marked(f)' PROVE Marked(f) /\ f \notin buffer'
      BY <1>8, <2>2, <2>3, <3>4 DEF CloseOrders, NewFill
    <3>5. Made' = Made \cup {nextFill + 1}
      BY <2>3 DEF NewFill
    <3> QED
      BY <2>1, <3>1, <3>2, <3>3, <3>4, <3>5
  <2>4. CASE UNCHANGED <<fillVars, buffer>> /\ ownFill' = [ownFill EXCEPT ![t] = {}]
    BY <1>8, <2>1, <2>2, <2>4 DEF CloseOrders
  <2> QED
    BY <1>8, <2>3, <2>4 DEF CloseOrders
<1>9. ASSUME NEW t \in Closers, CloseRefused(t) PROVE CloseInv'
  BY <1>9 DEF CloseRefused
<1>10. ASSUME NEW t \in Closers, CloseDrains(t) PROVE CloseInv'
  BY <1>10 DEF CloseDrains
<1>11. ASSUME NEW t \in Closers, CloseWritesOwn(t) PROVE CloseInv'
  BY <1>11 DEF CloseWritesOwn
<1>12. ASSUME NEW t \in Closers, CloseReturns(t) PROVE CloseInv'
  BY <1>12 DEF CloseReturns, Warning
<1>13. CASE UNCHANGED vars
  BY <1>13 DEF vars
<1> QED
  BY <1>1, <1>2, <1>3, <1>4, <1>5, <1>6, <1>7, <1>8,
     <1>9, <1>10, <1>11, <1>12, <1>13 DEF Next

(* Failures are noticed.                                                    *)
LEMMA WarnStep ==
  ASSUME TypeOK, LockInv, HandInv, WarnInv, [Next]_vars
  PROVE  WarnInv'
<1> USE FillPersistAssumption DEF taskVars, fillVars, tableVars, Made, Fills, Tasks,
          TypeOK, LockInv, HandInv, WarnInv, Active, PCs
<1>1. ASSUME NEW k \in EngineKinds, EngineFill(k) PROVE WarnInv'
  BY <1>1 DEF EngineFill, NewFill
<1>2. CASE ResetAccount
  BY <1>2 DEF ResetAccount
<1>3. ASSUME NEW t \in Tasks, Called(t) PROVE WarnInv'
  BY <1>3 DEF Called
<1>4. ASSUME NEW t \in Drainers, DrainBegins(t) PROVE WarnInv'
  BY <1>4 DEF DrainBegins, LockFree
<1>5. ASSUME NEW t \in Tasks, NEW f \in Fills, WriteSucceeds(t, f) PROVE WarnInv'
  BY <1>5 DEF WriteSucceeds, Writing, Insert
<1>6. ASSUME NEW t \in Tasks, NEW f \in Fills, WriteRaises(t, f) PROVE WarnInv'
  BY <1>6 DEF WriteRaises, Writing, Insert, Requeued
<1>7. ASSUME NEW t \in Drainers, DrainReturns(t) PROVE WarnInv'
  BY <1>7 DEF DrainReturns
<1>8. ASSUME NEW t \in Closers, CloseOrders(t) PROVE WarnInv'
  BY <1>8 DEF CloseOrders, NewFill
<1>9. ASSUME NEW t \in Closers, CloseRefused(t) PROVE WarnInv'
  BY <1>9 DEF CloseRefused
<1>10. ASSUME NEW t \in Closers, CloseDrains(t) PROVE WarnInv'
  BY <1>10 DEF CloseDrains
<1>11. ASSUME NEW t \in Closers, CloseWritesOwn(t) PROVE WarnInv'
  BY <1>11 DEF CloseWritesOwn
<1>12. ASSUME NEW t \in Closers, CloseReturns(t) PROVE WarnInv'
  BY <1>12 DEF CloseReturns, Warning
<1>13. CASE UNCHANGED vars
  BY <1>13 DEF vars
<1> QED
  BY <1>1, <1>2, <1>3, <1>4, <1>5, <1>6, <1>7, <1>8,
     <1>9, <1>10, <1>11, <1>12, <1>13 DEF Next

-----------------------------------------------------------------------------
(* The initial state.                                                      *)
LEMMA InitInv ==
  ASSUME Init
  PROVE  IInv
<1> USE FillPersistAssumption DEF Init, Made, Fills, Tasks
<1>1. TypeOK
  BY DEF FillPersistAssumption, TypeOK, PCs, Kinds, Sources
<1>2. LockInv
  BY DEF FillPersistAssumption, LockInv, Active
<1>3. HandInv /\ MadeInv /\ WarnInv
  BY DEF HandInv, MadeInv, WarnInv
<1>4. NoFillLost /\ RecordedOnce /\ CloseInv
  BY DEF NoFillLost, RecordedOnce, CloseInv
<1> QED
  BY <1>1, <1>2, <1>3, <1>4 DEF IInv

(* The inductive invariant holds in every reachable state.                 *)
THEOREM Invariance == Spec => []IInv
<1>1. Init => IInv
  BY InitInv
<1>2. IInv /\ [Next]_vars => IInv'
  <2> SUFFICES ASSUME IInv, [Next]_vars PROVE IInv'
    OBVIOUS
  <2> USE DEF IInv
  <2>1. TypeOK' /\ LockInv' /\ HandInv'
    BY TypeStep, LockStep, HandStep
  <2>2. MadeInv' /\ NoFillLost' /\ RecordedOnce'
    BY MadeStep, LossStep, OnceStep
  <2>3. CloseInv' /\ WarnInv'
    BY CloseStep, WarnStep
  <2> QED
    BY <2>1, <2>2, <2>3
<1> QED
  BY <1>1, <1>2, PTL DEF Spec

(* The variables of persist_locked and of manual_close keep their types.   *)
THEOREM TypeCorrect == Spec => []TypeOK
<1>1. IInv => TypeOK
  BY DEF IInv
<1> QED
  BY <1>1, Invariance, PTL

(* drain_persist, persist_locked and manual_close never drop a fill: it is *)
(* buffered, queued, held by the task that writes it, or written.          *)
THEOREM NothingLost == Spec => []NoFillLost
<1>1. IInv => NoFillLost
  BY DEF IInv
<1> QED
  BY <1>1, Invariance, PTL

(* No retry books a fill twice, though its first write may have been       *)
(* committed when it raised.                                               *)
THEOREM BookedOnce == Spec => []RecordedOnce
<1>1. IInv => RecordedOnce
  BY DEF IInv
<1> QED
  BY <1>1, Invariance, PTL

(* The lock keeps the mark of a manual close whose own write did not raise. *)
THEOREM MarkKept == Spec => []UserCloseUnlessRetried
<1>1. IInv => UserCloseUnlessRetried
  BY DEF IInv, CloseInv, Marked, UserCloseUnlessRetried
<1> QED
  BY <1>1, Invariance, PTL

(* manual_close warns whenever its own fill is still unwritten.            *)
THEOREM FailureWarned == Spec => OwnFailureWarned
<1>1. IInv /\ [Next]_vars =>
        [\A t \in Closers : pc[t] = "mine" /\ pc'[t] = "idle"
           /\ ownFill[t] \cap pending' # {} => warned'[t]]_vars
  <2> SUFFICES ASSUME IInv, Next, NEW t \in Closers, pc[t] = "mine", pc'[t] = "idle",
                      ownFill[t] \cap pending' # {}
               PROVE  warned'[t]
    OBVIOUS
  <2>1. CloseReturns(t)
    <3> USE DEF IInv, TypeOK, Tasks, PCs
    <3>1. ASSUME NEW k \in EngineKinds, EngineFill(k) PROVE FALSE
      BY <3>1 DEF EngineFill, NewFill, taskVars
    <3>2. CASE ResetAccount
      BY <3>2 DEF ResetAccount, taskVars
    <3>3. ASSUME NEW u \in Tasks, Called(u) PROVE FALSE
      BY <3>3 DEF Called
    <3>4. ASSUME NEW u \in Drainers, DrainBegins(u) PROVE FALSE
      BY <3>4 DEF DrainBegins, LockFree
    <3>5. ASSUME NEW u \in Tasks, NEW f \in Fills, WriteSucceeds(u, f) PROVE FALSE
      BY <3>5 DEF WriteSucceeds, Writing, Insert
    <3>6. ASSUME NEW u \in Tasks, NEW f \in Fills, WriteRaises(u, f) PROVE FALSE
      BY <3>6 DEF WriteRaises, Writing, Insert, Requeued
    <3>7. ASSUME NEW u \in Drainers, DrainReturns(u) PROVE FALSE
      BY <3>7 DEF DrainReturns, HandInv
    <3>8. ASSUME NEW u \in Closers, CloseOrders(u) PROVE FALSE
      BY <3>8 DEF CloseOrders, NewFill
    <3>9. ASSUME NEW u \in Closers, CloseRefused(u) PROVE FALSE
      BY <3>9 DEF CloseRefused
    <3>10. ASSUME NEW u \in Closers, CloseDrains(u) PROVE FALSE
      BY <3>10 DEF CloseDrains
    <3>11. ASSUME NEW u \in Closers, CloseWritesOwn(u) PROVE FALSE
      BY <3>11 DEF CloseWritesOwn
    <3>12. ASSUME NEW u \in Closers, CloseReturns(u) PROVE CloseReturns(t)
      BY <3>12 DEF CloseReturns
    <3> QED
      BY <3>1, <3>2, <3>3, <3>4, <3>5, <3>6, <3>7, <3>8,
         <3>9, <3>10, <3>11, <3>12 DEF Next
  <2> QED
    BY <2>1 DEF IInv, TypeOK, WarnInv, CloseReturns, Warning
<1> QED
  BY <1>1, Invariance, PTL DEF Spec, OwnFailureWarned

-----------------------------------------------------------------------------
(***************************************************************************)
(* The matching engine.                                                    *)
(***************************************************************************)
(* What Drop leaves of a book.  It is a recursive function over the length *)
(* of the book; the inductions go over the least number that a claim fails *)
(* for.                                                                    *)

(* The orders of a sequence.                                               *)
Elements(s) == {s[i] : i \in 1..Len(s)}

(* The first m orders of s but those of `ids'.                             *)
Kept(s, ids, m) == {s[i] : i \in {j \in 1..m : s[j].id \notin ids}}

(* The recursion of Drop over the first m orders of a book s.              *)
Scan(s, ids, m, f) ==
  f = [n \in 0..m |-> IF n = 0 THEN <<>>
                      ELSE IF s[n].id \in ids THEN f[n - 1] ELSE Append(f[n - 1], s[n])]

(* A non-empty set of numbers has a smallest one.                          *)
LEMMA LeastNumber ==
  ASSUME NEW T \in SUBSET Nat, T # {}
  PROVE  \E m \in T : \A n \in T : m <= n
  <1>1. IsWellFoundedOn(OpToRel(<, Nat), Nat)
    BY NatLessThanWellFounded
  <1>2. T \subseteq Nat
    OBVIOUS
  <1>3. \E m \in T : \A n \in T : ~ (<<n, m>> \in OpToRel(<, Nat))
    BY <1>1, <1>2, WFMin, Zenon
  <1>4. PICK m \in T : \A n \in T : ~ (<<n, m>> \in OpToRel(<, Nat))
    BY <1>3
  <1>5. ASSUME NEW n \in T PROVE m <= n
    <2>1. n \in Nat /\ m \in Nat
      BY <1>2
    <2>2. ~ (n < m)
      BY <1>4, <2>1, Zenon DEF OpToRel
    <2>. QED BY <2>1, <2>2
  <1>. QED BY <1>5

(* The recursion over an empty prefix of the book.                         *)
LEMMA ScanStarts ==
  ASSUME NEW s, NEW ids
  PROVE  \E f : Scan(s, ids, 0, f)
  <1> DEFINE g == [n \in 0..0 |-> <<>>]
  <1>1. g = [n \in 0..0 |-> IF n = 0 THEN <<>>
                            ELSE IF s[n].id \in ids THEN g[n - 1] ELSE Append(g[n - 1], s[n])]
    OBVIOUS
  <1>2. Scan(s, ids, 0, g)
    BY <1>1, Zenon DEF Scan
  <1>. QED BY <1>2, Zenon

(* A solution for m orders extends to one for m + 1.                       *)
LEMMA ScanGoesOn ==
  ASSUME NEW s, NEW ids, NEW m \in Nat, NEW f, Scan(s, ids, m, f)
  PROVE  \E h : Scan(s, ids, m + 1, h)
  <1> DEFINE last == IF s[m + 1].id \in ids THEN f[m] ELSE Append(f[m], s[m + 1])
             h == [n \in 0..(m + 1) |-> IF n = m + 1 THEN last ELSE f[n]]
             step(n) == IF n = 0 THEN <<>>
                        ELSE IF s[n].id \in ids THEN h[n - 1] ELSE Append(h[n - 1], s[n])
             before(n) == IF n = 0 THEN <<>>
                          ELSE IF s[n].id \in ids THEN f[n - 1] ELSE Append(f[n - 1], s[n])
  <1>1. f = [n \in 0..m |-> before(n)]
    BY Zenon DEF Scan
  <1>2. ASSUME NEW n \in 0..(m + 1) PROVE h[n] = step(n)
    <2>1. CASE n = m + 1
      <3>1. n # 0 /\ n - 1 = m /\ m \in 0..(m + 1) /\ m # m + 1
        BY <2>1
      <3>2. h[n - 1] = f[m] /\ h[n] = last
        BY <2>1, <3>1
      <3>. QED BY <2>1, <3>1, <3>2
    <2>2. CASE n # m + 1
      <3>1. n \in 0..m
        BY <2>2
      <3>2. h[n] = f[n] /\ f[n] = before(n)
        BY <1>1, <2>2, <3>1
      <3>3. n # 0 => n - 1 \in 0..(m + 1) /\ n - 1 # m + 1
        BY <3>1
      <3>4. n # 0 => h[n - 1] = f[n - 1]
        BY <3>3
      <3> HIDE DEF h
      <3>. QED BY <3>2, <3>4
    <2>. QED BY <2>1, <2>2
  <1>3. h = [n \in 0..(m + 1) |-> h[n]]
    OBVIOUS
  <1>4. h = [n \in 0..(m + 1) |-> step(n)]
    <2> HIDE DEF h, step
    <2>. QED BY <1>2, <1>3
  <1>5. Scan(s, ids, m + 1, h)
    BY <1>4, Zenon DEF Scan
  <1>. QED BY <1>5, Zenon

(* The recursion has a solution, however long the book is.                 *)
LEMMA ScanExists ==
  ASSUME NEW s, NEW ids, NEW m \in Nat
  PROVE  \E f : Scan(s, ids, m, f)
  <1> DEFINE T == {n \in Nat : ~ \E f : Scan(s, ids, n, f)}
  <1>1. SUFFICES ASSUME T # {} PROVE FALSE
    OBVIOUS
  <1>2. T \in SUBSET Nat
    OBVIOUS
  <1>3. PICK n \in T : \A k \in T : n <= k
    <2> HIDE DEF T
    <2>. QED BY <1>1, <1>2, LeastNumber
  <1>4. n \in Nat /\ n # 0
    BY <1>3, ScanStarts
  <1>5. n - 1 \in Nat /\ (n - 1) + 1 = n /\ ~ (n <= n - 1)
    BY <1>4
  <1>6. PICK f : Scan(s, ids, n - 1, f)
    BY <1>3, <1>5
  <1>7. \E h : Scan(s, ids, (n - 1) + 1, h)
    BY <1>5, <1>6, ScanGoesOn
  <1>. QED BY <1>3, <1>5, <1>7

(* What a sequence holds after an Append.                                  *)
LEMMA AppendElements ==
  ASSUME NEW S, NEW s \in Seq(S), NEW e \in S
  PROVE  Append(s, e) \in Seq(S) /\ Elements(Append(s, e)) = Elements(s) \cup {e}
  <1>1. Append(s, e) \in Seq(S) /\ Len(Append(s, e)) = Len(s) + 1 /\ Len(s) \in Nat
    OBVIOUS
  <1>2. ASSUME NEW i \in 1..Len(s) PROVE Append(s, e)[i] = s[i]
    OBVIOUS
  <1>3. Append(s, e)[Len(s) + 1] = e
    OBVIOUS
  <1>4. \A i : i \in 1..(Len(s) + 1) <=> i \in 1..Len(s) \/ i = Len(s) + 1
    BY <1>1
  <1>. QED BY <1>1, <1>2, <1>3, <1>4, Zenon DEF Elements

(* After m orders it holds those of them that are not dropped.             *)
LEMMA ScanKeeps ==
  ASSUME NEW S, NEW s \in Seq(S), NEW ids, NEW f, Scan(s, ids, Len(s), f),
         NEW m \in 0..Len(s)
  PROVE  /\ f[m] \in Seq(S)
         /\ Elements(f[m]) = Kept(s, ids, m)
  <1> DEFINE Good(n) == f[n] \in Seq(S) /\ Elements(f[n]) = Kept(s, ids, n)
             T == {n \in 0..Len(s) : ~Good(n)}
             step(n) == IF n = 0 THEN <<>>
                        ELSE IF s[n].id \in ids THEN f[n - 1] ELSE Append(f[n - 1], s[n])
  <1>1. SUFFICES ASSUME T # {} PROVE FALSE
    OBVIOUS
  <1>2. T \in SUBSET Nat
    OBVIOUS
  <1>3. PICK n \in T : \A k \in T : n <= k
    <2> HIDE DEF T
    <2>. QED BY <1>1, <1>2, LeastNumber
  <1>4. n \in 0..Len(s) /\ ~Good(n)
    BY <1>3
  <1>5. f[n] = step(n)
    <2>1. f = [k \in 0..Len(s) |-> step(k)]
      BY Zenon DEF Scan
    <2>2. f[n] = [k \in 0..Len(s) |-> step(k)][n]
      BY <2>1, Zenon
    <2> HIDE DEF step
    <2>3. [k \in 0..Len(s) |-> step(k)][n] = step(n)
      BY <1>4
    <2>. QED BY <2>2, <2>3
  <1>6. n # 0
    <2> SUFFICES ASSUME n = 0 PROVE Good(n)
      BY <1>4
    <2>1. f[n] = <<>>
      BY <1>5
    <2>2. Elements(<<>>) = {} /\ <<>> \in Seq(S)
      BY DEF Elements
    <2>3. Kept(s, ids, 0) = {}
      BY DEF Kept
    <2>. QED BY <2>1, <2>2, <2>3
  <1>7. n - 1 \in 0..Len(s) /\ ~ (n <= n - 1) /\ n \in 1..Len(s) /\ s[n] \in S
    BY <1>4, <1>6
  <1>8. Good(n - 1)
    <2> HIDE DEF Good
    <2>. QED BY <1>3, <1>7
  <1>9. \A i : i \in 1..n <=> i \in 1..(n - 1) \/ i = n
    BY <1>7
  <1>10. CASE s[n].id \in ids
    <2>1. f[n] = f[n - 1]
      BY <1>5, <1>6, <1>10
    <2>2. Kept(s, ids, n) = Kept(s, ids, n - 1)
      BY <1>9, <1>10, Zenon DEF Kept
    <2>. QED BY <1>4, <1>8, <2>1, <2>2
  <1>11. CASE s[n].id \notin ids
    <2>1. f[n] = Append(f[n - 1], s[n])
      BY <1>5, <1>6, <1>11
    <2>2. Kept(s, ids, n) = Kept(s, ids, n - 1) \cup {s[n]}
      BY <1>9, <1>11, Zenon DEF Kept
    <2>3. f[n] \in Seq(S) /\ Elements(f[n]) = Elements(f[n - 1]) \cup {s[n]}
      BY <1>7, <1>8, <2>1, AppendElements
    <2>. QED BY <1>4, <1>8, <2>2, <2>3
  <1>. QED BY <1>10, <1>11

(* At the end it holds all orders that are not dropped.                    *)
LEMMA ScanResult ==
  ASSUME NEW S, NEW s, s \in Seq(S), NEW ids, NEW f, Scan(s, ids, Len(s), f)
  PROVE  /\ f[Len(s)] \in Seq(S)
         /\ Elements(f[Len(s)]) = {o \in Elements(s) : o.id \notin ids}
  <1>1. Len(s) \in 0..Len(s)
    OBVIOUS
  <1>2. f[Len(s)] \in Seq(S)
        /\ Elements(f[Len(s)]) = Kept(s, ids, Len(s))
    BY <1>1, ScanKeeps
  <1>3. Kept(s, ids, Len(s)) = {o \in Elements(s) : o.id \notin ids}
    BY Zenon DEF Elements, Kept
  <1>. QED BY <1>2, <1>3

(* What is left of the book, and of what it is made.                       *)
LEMMA DropKeeps ==
  ASSUME NEW S, book \in Seq(S), NEW ids
  PROVE  /\ Engine!Drop(ids) \in Seq(S)
         /\ Elements(Engine!Drop(ids)) = {o \in Elements(book) : o.id \notin ids}
  <1> DEFINE f == CHOOSE f : Scan(book, ids, Len(book), f)
  <1>1. Len(book) \in Nat
    OBVIOUS
  <1>2. Scan(book, ids, Len(book), f)
    BY <1>1, ScanExists, Zenon
  <1>3. Engine!Drop(ids) = f[Len(book)]
    BY DEF Engine!Drop, Scan
  <1>4. \E g : Scan(book, ids, Len(book), g) /\ Engine!Drop(ids) = g[Len(book)]
    BY <1>2, <1>3, Zenon
  <1>5. PICK g : Scan(book, ids, Len(book), g) /\ Engine!Drop(ids) = g[Len(book)]
    BY <1>4
  <1>6. g[Len(book)] \in Seq(S)
        /\ Elements(g[Len(book)]) = {o \in Elements(book) : o.id \notin ids}
    BY <1>5, ScanResult
  <1>. QED BY <1>5, <1>6, Zenon

(* The library's name for the same set.                                    *)
LEMMA ToSetIsElements ==
  ASSUME NEW S, NEW s \in Seq(S)
  PROVE  Engine!ToSet(s) = Elements(s)
  <1>1. DOMAIN s = 1..Len(s)
    OBVIOUS
  <1>. QED BY <1>1, Zenon DEF Engine!ToSet, Elements

-----------------------------------------------------------------------------
(* The inductive invariant of the engine.                                  *)

(* Where a tick may be, the resting orders and the ids listed as open.     *)
Phases == {"idle", "match", "tpsl", "liquidation"}
Book == Elements(book)
Open == {i \in OrderIds : results[i] # None /\ results[i].status = "open"}

(* The shape of the state.                                                 *)
Shape ==
  /\ pos \in [Contracts -> Int]
  /\ snap \in [Contracts -> Snaps \cup {None}]
  /\ book \in Seq(Engine!Order)
  /\ results \in [OrderIds -> Engine!Listed \cup {None}]
  /\ tpsl \in SUBSET Engine!Tpsl
  /\ fillCount \in [OrderIds -> Nat]
  /\ overshot \in [Contracts -> BOOLEAN]

(* A tick is over, or it belongs to a contract that has a quote.           *)
TickPlace ==
  /\ tick \in [phase : Phases, contract : Contracts \cup {None}, queue : Seq(OrderIds)]
  /\ \/ tick = Engine!Idle
     \/ /\ tick.phase # "idle" /\ tick.contract \in Contracts
        /\ snap[tick.contract] \in Snaps

(* A resting order that opens exposure has its stop with it, and one that  *)
(* may only reduce does not rest without a position.                       *)
Justified ==
  \A o \in Book :
    /\ o.ro => o.sl = None /\ pos[o.contract] # 0
    /\ ~o.ro => o.sl # None

(* What is due and not yet filled is still ahead of the scan.              *)
Ahead ==
  tick.phase = "match" =>
    \A o \in Book : o.contract = tick.contract /\ Engine!Crossed(o) =>
      o.id \in Elements(tick.queue)

(* What the scan has left behind stays so to the end of the tick.          *)
Matched ==
  tick.phase \in {"tpsl", "liquidation"} =>
    \A o \in Book : o.contract = tick.contract => ~Engine!Crossed(o)

(* No stop that the mark has passed is left on an open position.           *)
Stopped ==
  tick.phase = "liquidation" /\ pos[tick.contract] # 0 =>
    \A t \in tpsl : t.contract = tick.contract /\ t.kind = "stop_loss" =>
      t.direction * (t.trigger - snap[tick.contract].mark) < 0

(* The two properties of the protection, and that of the listings.         *)
Protected == Engine!TpslMatchesPosition /\ Engine!NoNakedPosition
ListedIsOpen == {o.id : o \in Book} = Open

(* What requests and ticks keep alike, and what a scan needs.              *)
Quiet == Shape /\ Justified /\ Protected /\ ListedIsOpen
Scanning == TickPlace /\ Ahead /\ Matched /\ Stopped
EngineInv == Quiet /\ Scanning

-----------------------------------------------------------------------------
(* Typing of an order on the book.                                         *)
LEMMA OrderFields ==
  ASSUME Shape, NEW o \in Book
  PROVE  /\ o \in Engine!Order /\ o.id \in OrderIds /\ o.contract \in Contracts
         /\ o.size \in Sizes /\ o.price \in Prices /\ o.ro \in BOOLEAN
         /\ o.sl \in Prices \cup {None} /\ o.tp \in Prices \cup {None}
  <1>1. PICK i \in 1..Len(book) : o = book[i]
    BY Zenon DEF Book, Elements
  <1>2. o \in Engine!Order
    BY <1>1 DEF Shape
  <1>. QED BY <1>2 DEF Engine!Order

(* The orders of one contract, in terms of Book.                           *)
LEMMA OrdersAre ==
  ASSUME Shape, NEW c
  PROVE  /\ Engine!OrdersOf(c) = {o \in Book : o.contract = c}
         /\ Engine!IdsOf(c) = {o.id : o \in {p \in Book : p.contract = c}}
  <1>1. Engine!ToSet(book) = Book
    BY ToSetIsElements DEF Shape, Book
  <1>. QED BY <1>1, Zenon DEF Engine!OrdersOf, Engine!IdsOf

(* ListedIsOpen is the property of PaperEngine.                            *)
LEMMA ListedMeans ==
  ASSUME Shape
  PROVE  ListedIsOpen <=> Engine!OpenIffListed
  <1>1. Engine!ToSet(book) = Book
    BY ToSetIsElements DEF Shape, Book
  <1>. QED BY <1>1, Zenon DEF ListedIsOpen, Engine!OpenIffListed, Open

(* Orders that leave the book leave the list of open orders with it, and   *)
(* no other listing changes.                                               *)
LEMMA DropListed ==
  ASSUME Shape, ListedIsOpen, NEW D, book' = Engine!Drop(D),
         results' = [i \in OrderIds |-> IF i \in D THEN Engine!Finished ELSE results[i]]
  PROVE  /\ book' \in Seq(Engine!Order)
         /\ results' \in [OrderIds -> Engine!Listed \cup {None}]
         /\ Book' = {o \in Book : o.id \notin D}
         /\ ListedIsOpen'
  <1>1. book' \in Seq(Engine!Order) /\ Book' = {o \in Book : o.id \notin D}
    <2>1. book \in Seq(Engine!Order)
      BY DEF Shape
    <2>. QED BY <2>1, DropKeeps DEF Book
  <1>2. Engine!Finished \in Engine!Listed /\ Engine!Finished.status # "open"
    BY DEF Engine!Finished, Engine!Listed
  <1>3. results' \in [OrderIds -> Engine!Listed \cup {None}]
    <2>1. \A i \in OrderIds : results[i] \in Engine!Listed \cup {None}
      BY DEF Shape
    <2>. QED BY <1>2, <2>1
  <1>4. Open' = Open \ D
    <2>1. ASSUME NEW i \in OrderIds PROVE i \in Open' <=> i \in Open /\ i \notin D
      <3>1. CASE i \in D
        <4>1. results'[i] = Engine!Finished
          BY <3>1
        <4>. QED BY <1>2, <3>1, <4>1 DEF Open
      <3>2. CASE i \notin D
        <4>1. results'[i] = results[i]
          BY <3>2
        <4>. QED BY <3>2, <4>1 DEF Open
      <3>. QED BY <3>1, <3>2
    <2>. QED BY <2>1 DEF Open
  <1>5. {o.id : o \in Book'} = {o.id : o \in Book} \ D
    BY <1>1, Zenon
  <1>6. ListedIsOpen'
    BY <1>4, <1>5 DEF ListedIsOpen
  <1>. QED BY <1>1, <1>3, <1>6

(* A fill of the order `id', as the handlers ask for one: the order is new *)
(* or open, a reduction finds a position and has no stop, and what opens   *)
(* exposure has one.                                                       *)
Fill(id, c, size, ro, sl, tp) ==
  /\ id \in OrderIds /\ c \in Contracts /\ size \in Int /\ ro \in BOOLEAN
  /\ sl \in Prices \cup {None} /\ tp \in Prices \cup {None}
  /\ results[id] = None \/ id \in Open
  /\ ro => sl = None /\ pos[c] # 0
  /\ ~ro => sl # None \/ pos[c] + size = 0

(* The orders that a fill takes from the book.                             *)
Gone(id, c, size) ==
  IF pos[c] + size = 0 THEN Engine!IdsOf(c) \cup {id} ELSE {id}

(* Resting orders are listed as open.                                      *)
LEMMA IdsAreOpen ==
  ASSUME Shape, ListedIsOpen, NEW c
  PROVE  Engine!IdsOf(c) \subseteq Open
  <1>1. Engine!IdsOf(c) = {o.id : o \in {p \in Book : p.contract = c}}
    BY OrdersAre
  <1>. QED BY <1>1, Zenon DEF ListedIsOpen

(* A direction is 1 or -1.                                                 *)
LEMMA SignIs ==
  ASSUME NEW n \in Int
  PROVE  Engine!Sign(n) \in {-1, 1}
  BY DEF Engine!Sign

(* The protection a request asks for.                                      *)
LEMMA GroupIs ==
  ASSUME NEW c, c \in Contracts, NEW d, d \in {-1, 1},
         NEW sl, sl \in Prices, NEW tp, tp \in Prices \cup {None}
  PROVE  /\ Engine!TpslGroup(c, d, sl, tp) \subseteq Engine!Tpsl
         /\ \A t \in Engine!TpslGroup(c, d, sl, tp) : t.contract = c /\ t.direction = d
         /\ \E t \in Engine!TpslGroup(c, d, sl, tp) : t.contract = c /\ t.kind = "stop_loss"
  <1> DEFINE stop == [contract |-> c, direction |-> d, kind |-> "stop_loss", trigger |-> sl]
             target(p) == [contract |-> c, direction |-> d, kind |-> "take_profit",
                           trigger |-> p]
  <1>1. ASSUME NEW t \in Engine!TpslGroup(c, d, sl, tp)
        PROVE  t = stop \/ \E p \in Prices : t = target(p)
    BY DEF Engine!TpslGroup
  <1>2. stop \in Engine!TpslGroup(c, d, sl, tp)
    BY Zenon DEF Engine!TpslGroup
  <1>3. stop \in Engine!Tpsl /\ stop.contract = c /\ stop.direction = d
        /\ stop.kind = "stop_loss"
    BY DEF Engine!Tpsl
  <1>4. ASSUME NEW p \in Prices
        PROVE  target(p) \in Engine!Tpsl /\ target(p).contract = c /\ target(p).direction = d
    BY DEF Engine!Tpsl
  <1> HIDE DEF stop, target
  <1>. QED BY <1>1, <1>2, <1>3, <1>4, Zenon

(* What a fill does to orders and listings.                                *)
LEMMA ExecuteBook ==
  ASSUME Quiet, NEW id, NEW c, NEW size, NEW ro, NEW sl, NEW tp,
         Fill(id, c, size, ro, sl, tp), Engine!Execute(id, c, size, ro, sl, tp)
  PROVE  /\ book' = Engine!Drop(Gone(id, c, size))
         /\ results' = [i \in OrderIds |->
              IF i \in Gone(id, c, size) THEN Engine!Finished ELSE results[i]]
         /\ Gone(id, c, size) \subseteq Open \cup {id} /\ id \in Gone(id, c, size)
         /\ pos' = [pos EXCEPT ![c] = pos[c] + size]
         /\ fillCount' = [fillCount EXCEPT ![id] = fillCount[id] + 1]
  <1>1. Shape /\ ListedIsOpen
    BY DEF Quiet
  <1>2. Gone(id, c, size) \subseteq Open \cup {id} /\ id \in Gone(id, c, size)
    BY <1>1, IdsAreOpen DEF Gone
  <1>3. pos' = [pos EXCEPT ![c] = pos[c] + size]
        /\ fillCount' = [fillCount EXCEPT ![id] = fillCount[id] + 1]
    BY DEF Engine!Execute
  <1>4. CASE pos[c] + size = 0
    <2>1. Engine!Clear(c, {id})
      BY <1>4 DEF Engine!Execute
    <2>2. Gone(id, c, size) = Engine!IdsOf(c) \cup {id}
      BY <1>4 DEF Gone
    <2>3. book' = Engine!Drop(Engine!IdsOf(c) \cup {id})
          /\ results' = [i \in OrderIds |->
               IF i \in Engine!IdsOf(c) \cup {id} THEN Engine!Finished ELSE results[i]]
      BY <2>1 DEF Engine!Clear
    <2>. QED BY <1>2, <1>3, <2>2, <2>3, Zenon
  <1>5. CASE pos[c] + size # 0
    <2>1. book' = Engine!Drop({id}) /\ results' = [results EXCEPT ![id] = Engine!Finished]
      BY <1>5 DEF Engine!Execute
    <2>2. Gone(id, c, size) = {id}
      BY <1>5 DEF Gone
    <2>3. results' = [i \in OrderIds |-> IF i \in {id} THEN Engine!Finished ELSE results[i]]
      <3>1. results = [i \in OrderIds |-> results[i]]
        BY <1>1 DEF Shape
      <3>. QED BY <2>1, <3>1
    <2>. QED BY <1>2, <1>3, <2>1, <2>2, <2>3, Zenon
  <1>. QED BY <1>4, <1>5

(* What a fill does to the protection.                                     *)
LEMMA ExecuteTpsl ==
  ASSUME EngineAssumption, Quiet, NEW id, NEW c, NEW size, NEW ro, NEW sl, NEW tp,
         Fill(id, c, size, ro, sl, tp), Engine!Execute(id, c, size, ro, sl, tp)
  PROVE  /\ tpsl' \in SUBSET Engine!Tpsl /\ Protected'
         /\ overshot' \in [Contracts -> BOOLEAN]
  <1> DEFINE after == pos[c] + size
             d == Engine!Sign(after)
             over == after # 0 /\ (overshot[c] \/ (ro /\ pos[c] # 0
                       /\ Engine!Sign(after) # Engine!Sign(pos[c]))) /\ sl = None
  <1>1. Shape /\ Protected
    BY DEF Quiet
  <1>2. /\ id \in OrderIds /\ c \in Contracts /\ size \in Int /\ pos[c] \in Int
        /\ after \in Int /\ d \in {-1, 1}
    BY <1>1, SignIs DEF Fill, Shape
  <1>3. pos' = [pos EXCEPT ![c] = after] /\ overshot' = [overshot EXCEPT ![c] = over]
    BY Zenon DEF Engine!Execute
  <1>4. pos'[c] = after /\ \A e \in Contracts : e # c => pos'[e] = pos[e]
    BY <1>1, <1>2, <1>3 DEF Shape
  <1>5. overshot'[c] = over /\ \A e \in Contracts : e # c => overshot'[e] = overshot[e]
    BY <1>1, <1>2, <1>3, Zenon DEF Shape
  <1>6. overshot' \in [Contracts -> BOOLEAN]
    <2>1. over \in BOOLEAN
      OBVIOUS
    <2> HIDE DEF over
    <2>. QED BY <1>1, <1>2, <1>3, <2>1 DEF Shape
  <1>7. CASE after = 0
    <2>1. tpsl' = {t \in tpsl : t.contract # c}
      BY <1>7 DEF Engine!Execute, Engine!Clear
    <2>2. Engine!TpslMatchesPosition'
      BY <1>1, <1>4, <2>1 DEF Engine!TpslMatchesPosition, Protected, Shape, Engine!Tpsl
    <2>3. Engine!NoNakedPosition'
      BY <1>1, <1>4, <1>5, <1>7, <2>1 DEF Engine!NoNakedPosition, Protected
    <2>. QED BY <1>1, <1>6, <2>1, <2>2, <2>3 DEF Protected, Shape
  <1>8. CASE after # 0
    <2> DEFINE kept == {t \in tpsl : t.contract # c \/ t.direction = d}
    <2>1. tpsl' = Engine!ApplyTpsl(Engine!ClearStaleTpsl(c, d), c, d, sl, tp)
      BY <1>8 DEF Engine!Execute
    <2>2. Engine!ClearStaleTpsl(c, d) = kept
      BY DEF Engine!ClearStaleTpsl
    <2>3. \A t \in kept : t \in tpsl /\ t.contract \in Contracts
      BY <1>1 DEF Shape, Engine!Tpsl
    <2>4. \A t \in kept : pos'[t.contract] # 0 /\ t.direction = Engine!Sign(pos'[t.contract])
      BY <1>1, <1>4, <1>8, <2>3 DEF Protected, Engine!TpslMatchesPosition
    <2>5. \A t \in tpsl : t.contract # c => t \in kept
      OBVIOUS
    <2>6. CASE sl # None
      <3>1. tpsl' = {t \in kept : t.contract # c \/ t.direction # d}
                      \cup Engine!TpslGroup(c, d, sl, tp)
        BY <2>1, <2>2, <2>6 DEF Engine!ApplyTpsl
      <3>2. sl \in Prices /\ tp \in Prices \cup {None}
        BY <2>6 DEF Fill
      <3> HIDE DEF kept, d
      <3>3. /\ Engine!TpslGroup(c, d, sl, tp) \subseteq Engine!Tpsl
            /\ \A t \in Engine!TpslGroup(c, d, sl, tp) : t.contract = c /\ t.direction = d
            /\ \E t \in Engine!TpslGroup(c, d, sl, tp) : t.contract = c /\ t.kind = "stop_loss"
        <4>1. c \in Contracts /\ d \in {-1, 1} /\ sl \in Prices /\ tp \in Prices \cup {None}
          BY <1>2, <3>2
        <4>. QED BY <4>1, GroupIs
      <3>4. tpsl' \in SUBSET Engine!Tpsl
        BY <1>1, <2>3, <3>1, <3>3, Zenon DEF Shape
      <3>5. Engine!TpslMatchesPosition'
        <4>1. ASSUME NEW t \in tpsl'
              PROVE  pos'[t.contract] # 0 /\ t.direction = Engine!Sign(pos'[t.contract])
          <5>1. CASE t \in kept
            BY <2>4, <5>1
          <5>2. CASE t \in Engine!TpslGroup(c, d, sl, tp)
            BY <1>4, <1>8, <3>3, <5>2 DEF d
          <5>. QED BY <3>1, <5>1, <5>2
        <4>. QED BY <4>1 DEF Engine!TpslMatchesPosition
      <3>6. Engine!NoNakedPosition'
        <4>1. ASSUME NEW e \in Contracts, pos'[e] # 0
              PROVE  (\E t \in tpsl' : t.contract = e /\ t.kind = "stop_loss") \/ overshot'[e]
          <5>1. CASE e = c
            BY <3>1, <3>3, <5>1, Zenon
          <5>2. CASE e # c
            <6>1. (\E t \in tpsl : t.contract = e /\ t.kind = "stop_loss") \/ overshot[e]
              BY <1>1, <1>4, <4>1, <5>2 DEF Protected, Engine!NoNakedPosition
            <6>2. \A t \in tpsl : t.contract = e => t \in tpsl'
              BY <2>5, <3>1, <5>2
            <6>. QED BY <1>5, <5>2, <6>1, <6>2, Zenon
          <5>. QED BY <5>1, <5>2
        <4>. QED BY <4>1, Zenon DEF Engine!NoNakedPosition
      <3>. QED BY <1>6, <3>4, <3>5, <3>6 DEF Protected
    <2>7. CASE sl = None
      <3>1. tpsl' = kept
        BY <2>1, <2>2, <2>7 DEF Engine!ApplyTpsl
      <3>2. ro /\ pos[c] # 0
        BY <1>8, <2>7 DEF Fill
      <3>3. tpsl' \in SUBSET Engine!Tpsl
        BY <1>1, <2>3, <3>1, Zenon DEF Shape
      <3>4. Engine!TpslMatchesPosition'
        BY <2>4, <3>1 DEF Engine!TpslMatchesPosition
      <3>5. ASSUME NEW e \in Contracts, pos'[e] # 0
            PROVE  (\E t \in tpsl' : t.contract = e /\ t.kind = "stop_loss") \/ overshot'[e]
        <4>1. CASE e = c
          <5>1. (\E t \in tpsl : t.contract = c /\ t.kind = "stop_loss") \/ overshot[c]
            BY <1>1, <1>2, <3>2 DEF Protected, Engine!NoNakedPosition
          <5>2. CASE overshot[c] \/ d # Engine!Sign(pos[c])
            <6>1. over
              BY <1>8, <2>7, <3>2, <5>2
            <6>. QED BY <1>5, <4>1, <6>1
          <5>3. CASE ~overshot[c] /\ d = Engine!Sign(pos[c])
            <6>1. PICK t \in tpsl : t.contract = c /\ t.kind = "stop_loss"
              BY <5>1, <5>3
            <6>2. t.direction = d
              BY <1>1, <5>3, <6>1 DEF Protected, Engine!TpslMatchesPosition
            <6>. QED BY <3>1, <4>1, <6>1, <6>2
          <5>. QED BY <5>2, <5>3
        <4>2. CASE e # c
          <5>1. (\E t \in tpsl : t.contract = e /\ t.kind = "stop_loss") \/ overshot[e]
            BY <1>1, <1>4, <3>5, <4>2 DEF Protected, Engine!NoNakedPosition
          <5> HIDE DEF kept
          <5>. QED BY <1>5, <2>5, <3>1, <4>2, <5>1, Zenon
        <4>. QED BY <4>1, <4>2
      <3>6. Engine!NoNakedPosition'
        <4> HIDE DEF kept
        <4>. QED BY <3>5, Zenon DEF Engine!NoNakedPosition
      <3>. QED BY <1>6, <3>3, <3>4, <3>6 DEF Protected
    <2>. QED BY <2>6, <2>7
  <1>. QED BY <1>7, <1>8

(* No closed order changes, and none is filled again.                      *)
Frozen ==
  \A i \in OrderIds :
    results[i] # None /\ results[i].status # "open" =>
      results'[i] = results[i] /\ fillCount'[i] = fillCount[i]

(* A fill keeps the invariant of the books, closed orders as they are, and *)
(* takes its own order from the book.                                      *)
LEMMA ExecuteKeeps ==
  ASSUME EngineAssumption, Quiet, NEW id, NEW c, NEW size, NEW ro, NEW sl, NEW tp,
         Fill(id, c, size, ro, sl, tp), Engine!Execute(id, c, size, ro, sl, tp),
         snap' = snap
  PROVE  /\ Quiet' /\ Frozen
         /\ \A o \in Book' : o \in Book /\ o.id # id
         /\ \A e \in Contracts : e # c => pos'[e] = pos[e]
  <1> DEFINE D == Gone(id, c, size)
  <1>1. Shape /\ ListedIsOpen /\ Justified
    BY DEF Quiet
  <1>2. /\ book' = Engine!Drop(D)
        /\ results' = [i \in OrderIds |-> IF i \in D THEN Engine!Finished ELSE results[i]]
        /\ D \subseteq Open \cup {id} /\ id \in D
        /\ pos' = [pos EXCEPT ![c] = pos[c] + size]
        /\ fillCount' = [fillCount EXCEPT ![id] = fillCount[id] + 1]
    BY ExecuteBook
  <1>3. tpsl' \in SUBSET Engine!Tpsl /\ Protected' /\ overshot' \in [Contracts -> BOOLEAN]
    BY ExecuteTpsl
  <1>4. /\ id \in OrderIds /\ c \in Contracts /\ size \in Int
        /\ results[id] = None \/ id \in Open
    BY DEF Fill
  <1> HIDE DEF D
  <1>5. /\ book' \in Seq(Engine!Order) /\ results' \in [OrderIds -> Engine!Listed \cup {None}]
        /\ Book' = {o \in Book : o.id \notin D} /\ ListedIsOpen'
    BY <1>1, <1>2, DropListed
  <1>6. pos' \in [Contracts -> Int] /\ fillCount' \in [OrderIds -> Nat]
        /\ \A e \in Contracts : e # c => pos'[e] = pos[e]
    BY <1>1, <1>2, <1>4 DEF Shape
  <1>7. Shape'
    BY <1>1, <1>3, <1>5, <1>6 DEF Shape
  <1>8. Frozen
    <2>1. ASSUME NEW i \in OrderIds, results[i] # None, results[i].status # "open"
          PROVE  results'[i] = results[i] /\ fillCount'[i] = fillCount[i]
      <3>1. i \notin Open /\ i # id
        BY <1>4, <2>1 DEF Open
      <3>2. i \notin D
        BY <1>2, <3>1
      <3>3. fillCount'[i] = fillCount[i]
        BY <1>1, <1>2, <3>1 DEF Shape
      <3>. QED BY <1>2, <3>2, <3>3
    <2>. QED BY <2>1 DEF Frozen
  <1>9. Justified'
    <2>1. ASSUME NEW o \in Book'
          PROVE  (o.ro => o.sl = None /\ pos'[o.contract] # 0) /\ (~o.ro => o.sl # None)
      <3>1. o \in Book /\ o.id \notin D
        BY <1>5, <2>1
      <3>2. o.contract \in Contracts
        BY <1>1, <3>1, OrderFields
      <3>3. (o.ro => o.sl = None /\ pos[o.contract] # 0) /\ (~o.ro => o.sl # None)
        BY <1>1, <3>1 DEF Justified
      <3>4. CASE o.contract # c
        BY <1>6, <3>2, <3>3, <3>4
      <3>5. CASE o.contract = c
        <4>1. pos[c] + size # 0
          <5>1. o.id \in Engine!IdsOf(c)
            <6>1. Engine!IdsOf(c) = {p.id : p \in {q \in Book : q.contract = c}}
              BY <1>1, OrdersAre
            <6>. QED BY <3>1, <3>5, <6>1, Zenon
          <5>. QED BY <3>1, <5>1 DEF D, Gone
        <4>2. pos'[c] = pos[c] + size
          BY <1>1, <1>2, <1>4 DEF Shape
        <4>. QED BY <3>3, <3>5, <4>1, <4>2
      <3>. QED BY <3>4, <3>5
    <2>. QED BY <2>1, Zenon DEF Justified
  <1>10. \A o \in Book' : o \in Book /\ o.id # id
    BY <1>2, <1>5
  <1>. QED BY <1>3, <1>5, <1>6, <1>7, <1>8, <1>9, <1>10 DEF Quiet

(* A position that a stop or the liquidation closes takes its orders and   *)
(* its protection along.                                                   *)
LEMMA FlattenKeeps ==
  ASSUME EngineAssumption, Quiet, NEW c \in Contracts, Engine!Flatten(c), snap' = snap
  PROVE  /\ Quiet' /\ Frozen /\ pos'[c] = 0
         /\ \A o \in Book' : o \in Book /\ o.contract # c
  <1> DEFINE D == Engine!IdsOf(c)
  <1>1. Shape /\ ListedIsOpen /\ Justified /\ Protected
    BY DEF Quiet
  <1>2. /\ book' = Engine!Drop(D)
        /\ results' = [i \in OrderIds |-> IF i \in D THEN Engine!Finished ELSE results[i]]
    <2>1. Engine!IdsOf(c) \cup {} = Engine!IdsOf(c)
      OBVIOUS
    <2>2. Engine!Clear(c, {})
      BY DEF Engine!Flatten
    <2>3. book' = Engine!Drop(Engine!IdsOf(c) \cup {})
          /\ results' = [i \in OrderIds |->
               IF i \in Engine!IdsOf(c) \cup {} THEN Engine!Finished ELSE results[i]]
      BY <2>2 DEF Engine!Clear
    <2>. QED BY <2>1, <2>3
  <1>3. /\ pos' = [pos EXCEPT ![c] = 0] /\ overshot' = [overshot EXCEPT ![c] = FALSE]
        /\ tpsl' = {t \in tpsl : t.contract # c} /\ fillCount' = fillCount
    BY DEF Engine!Flatten, Engine!Clear
  <1>4. D \subseteq Open
    BY <1>1, IdsAreOpen
  <1>5. D = {p.id : p \in {q \in Book : q.contract = c}}
    BY <1>1, OrdersAre
  <1> HIDE DEF D
  <1>6. /\ book' \in Seq(Engine!Order) /\ results' \in [OrderIds -> Engine!Listed \cup {None}]
        /\ Book' = {o \in Book : o.id \notin D} /\ ListedIsOpen'
    BY <1>1, <1>2, DropListed
  <1>7. pos' \in [Contracts -> Int] /\ overshot' \in [Contracts -> BOOLEAN]
        /\ pos'[c] = 0 /\ (\A e \in Contracts : e # c => pos'[e] = pos[e])
    BY <1>1, <1>3 DEF Shape
  <1>8. \A e \in Contracts : e # c => overshot'[e] = overshot[e]
    BY <1>1, <1>3, Zenon DEF Shape
  <1>9. tpsl' \in SUBSET Engine!Tpsl /\ \A t \in tpsl : t.contract \in Contracts
    BY <1>1, <1>3 DEF Shape, Engine!Tpsl
  <1>10. Shape'
    BY <1>1, <1>3, <1>6, <1>7, <1>9 DEF Shape
  <1>11. Frozen
    <2>1. ASSUME NEW i \in OrderIds, results[i].status # "open"
          PROVE  results'[i] = results[i]
      BY <1>2, <1>4, <2>1 DEF Open
    <2>. QED BY <1>3, <2>1 DEF Frozen
  <1>12. \A o \in Book' : o \in Book /\ o.contract # c
    BY <1>5, <1>6, Zenon
  <1>13. Justified'
    <2>1. \A o \in Book' : o.contract \in Contracts
      BY <1>1, <1>12, OrderFields
    <2>. QED BY <1>1, <1>7, <1>12, <2>1 DEF Justified
  <1>14. Engine!TpslMatchesPosition'
    BY <1>1, <1>3, <1>7, <1>9 DEF Protected, Engine!TpslMatchesPosition
  <1>15. Engine!NoNakedPosition'
    <2>1. ASSUME NEW e \in Contracts, pos'[e] # 0
          PROVE  (\E t \in tpsl' : t.contract = e /\ t.kind = "stop_loss") \/ overshot'[e]
      <3>1. e # c
        BY <1>7, <2>1
      <3>2. (\E t \in tpsl : t.contract = e /\ t.kind = "stop_loss") \/ overshot[e]
        BY <1>1, <1>7, <2>1, <3>1 DEF Protected, Engine!NoNakedPosition
      <3>3. \A t \in tpsl : t.contract = e => t \in tpsl'
        BY <1>3, <3>1
      <3>. QED BY <1>8, <3>1, <3>2, <3>3, Zenon
    <2>. QED BY <2>1, Zenon DEF Engine!NoNakedPosition
  <1>. QED BY <1>6, <1>7, <1>10, <1>11, <1>12, <1>13, <1>14, <1>15 DEF Quiet, Protected

(* Without a fill, positions and protection stay as they are.              *)
LEMMA ProtectedStays ==
  ASSUME Protected, pos' = pos, tpsl' = tpsl, overshot' = overshot
  PROVE  Protected'
  BY DEF Protected, Engine!TpslMatchesPosition, Engine!NoNakedPosition

(* An order that is cancelled, by a request or by the scan.                *)
LEMMA CancelKeeps ==
  ASSUME EngineAssumption, Quiet, NEW o \in Book, book' = Engine!Drop({o.id}),
         results' = [results EXCEPT ![o.id] = Engine!Finished],
         UNCHANGED <<pos, snap, tpsl, fillCount, overshot>>
  PROVE  Quiet' /\ Frozen /\ \A p \in Book' : p \in Book /\ p.id # o.id
  <1>1. Shape /\ ListedIsOpen /\ Justified /\ Protected
    BY DEF Quiet
  <1>2. o.id \in Open
    BY <1>1, Zenon DEF ListedIsOpen
  <1>3. results' = [i \in OrderIds |-> IF i \in {o.id} THEN Engine!Finished ELSE results[i]]
    <2>1. results = [i \in OrderIds |-> results[i]]
      BY <1>1 DEF Shape
    <2>. QED BY <2>1
  <1>4. /\ book' \in Seq(Engine!Order) /\ results' \in [OrderIds -> Engine!Listed \cup {None}]
        /\ Book' = {p \in Book : p.id \notin {o.id}} /\ ListedIsOpen'
    BY <1>1, <1>3, DropListed
  <1>5. Shape'
    BY <1>1, <1>4 DEF Shape
  <1>6. Justified'
    BY <1>1, <1>4 DEF Justified
  <1>7. Protected'
    BY <1>1, ProtectedStays
  <1>8. Frozen
    BY <1>2, <1>3 DEF Frozen, Open
  <1>. QED BY <1>4, <1>5, <1>6, <1>7, <1>8 DEF Quiet

(* An order that is over as soon as it is placed.                          *)
LEMMA ListedAtOnce ==
  ASSUME EngineAssumption, Quiet, NEW id \in OrderIds, results[id] = None,
         results' = [results EXCEPT ![id] = Engine!Finished],
         UNCHANGED <<pos, snap, book, tpsl, fillCount, overshot>>
  PROVE  Quiet' /\ Frozen
  <1>1. Shape /\ ListedIsOpen /\ Justified /\ Protected
    BY DEF Quiet
  <1>2. Engine!Finished \in Engine!Listed /\ Engine!Finished.status # "open"
    BY DEF Engine!Finished, Engine!Listed
  <1>3. results' \in [OrderIds -> Engine!Listed \cup {None}]
    BY <1>1, <1>2 DEF Shape
  <1>4. results'[id] = Engine!Finished /\ \A i \in OrderIds : i # id => results'[i] = results[i]
    BY <1>1 DEF Shape
  <1>5. Open' = Open
    BY <1>2, <1>4 DEF Open
  <1>6. Book' = Book
    BY DEF Book, Elements
  <1>7. Shape' /\ ListedIsOpen' /\ Justified'
    BY <1>1, <1>3, <1>5, <1>6 DEF Shape, ListedIsOpen, Justified
  <1>8. Protected'
    BY <1>1, ProtectedStays
  <1>9. Frozen
    BY <1>4 DEF Frozen
  <1>. QED BY <1>7, <1>8, <1>9 DEF Quiet

-----------------------------------------------------------------------------
(* The requests.  They come between two ticks.                             *)

(* Between two ticks the invariant of the scan says nothing.               *)
LEMMA BetweenTicks ==
  ASSUME tick' = Engine!Idle
  PROVE  Scanning'
  <1>1. tick' \in [phase : Phases, contract : Contracts \cup {None}, queue : Seq(OrderIds)]
    BY DEF Engine!Idle, Phases
  <1>2. tick'.phase = "idle"
    BY DEF Engine!Idle
  <1>. QED BY <1>1, <1>2 DEF Scanning, TickPlace, Ahead, Matched, Stopped

(* What the tools ask for may be filled.                                   *)
LEMMA RequestFills ==
  ASSUME EngineAssumption, NEW id, id \in OrderIds, NEW c, c \in Contracts,
         NEW n, n \in Sizes, NEW ro, ro \in BOOLEAN, NEW sl, sl \in Prices \cup {None},
         NEW tp, tp \in TakeProfits, Engine!Fresh(id), Engine!Request(c, n, ro, sl)
  PROVE  Fill(id, c, n, ro, sl, tp)
  <1>1. n \in Int /\ tp \in Prices \cup {None}
    BY DEF EngineAssumption
  <1>. QED BY <1>1 DEF Engine!Fresh, Engine!Request, Engine!IsReducing, Fill

(* A market order.                                                         *)
LEMMA MarketKeeps ==
  ASSUME EngineAssumption, Quiet, NEW id \in OrderIds, NEW c \in Contracts, NEW n \in Sizes,
         NEW ro \in BOOLEAN, NEW sl \in Prices \cup {None}, NEW tp \in TakeProfits,
         Engine!PlaceMarket(id, c, n, ro, sl, tp)
  PROVE  Quiet' /\ Frozen
  <1>1. Fill(id, c, n, ro, sl, tp)
    <2>1. Engine!Fresh(id) /\ Engine!Request(c, n, ro, sl)
      BY DEF Engine!PlaceMarket
    <2>. QED BY <2>1, RequestFills
  <1>2. Engine!Execute(id, c, n, ro, sl, tp) /\ snap' = snap
    BY DEF Engine!PlaceMarket
  <1>. QED BY <1>1, <1>2, ExecuteKeeps

(* An order that goes to rest on the book.                                 *)
LEMMA RestKeeps ==
  ASSUME EngineAssumption, Quiet, NEW o \in Engine!Order, results[o.id] = None,
         o.ro => o.sl = None /\ pos[o.contract] # 0, ~o.ro => o.sl # None,
         book' = Append(book, o),
         results' = [results EXCEPT ![o.id] =
                       [status |-> "open", size |-> o.size, price |-> o.price]],
         UNCHANGED <<pos, snap, tpsl, fillCount, overshot>>
  PROVE  Quiet' /\ Frozen
  <1> DEFINE row == [status |-> "open", size |-> o.size, price |-> o.price]
  <1>1. Shape /\ ListedIsOpen /\ Justified /\ Protected
    BY DEF Quiet
  <1>2. o.id \in OrderIds /\ o.size \in Int /\ o.price \in Int
    BY DEF Engine!Order, EngineAssumption
  <1>3. row \in Engine!Listed /\ row.status = "open"
    BY <1>2 DEF Engine!Listed
  <1>4. row # None
    BY <1>3 DEF EngineAssumption, Engine!Listed
  <1>5. results' = [results EXCEPT ![o.id] = row]
    OBVIOUS
  <1> HIDE DEF row
  <1>6. results' \in [OrderIds -> Engine!Listed \cup {None}]
        /\ results'[o.id] = row /\ \A i \in OrderIds : i # o.id => results'[i] = results[i]
    BY <1>1, <1>2, <1>3, <1>5 DEF Shape
  <1>7. Open' = Open \cup {o.id}
    BY <1>2, <1>3, <1>4, <1>6 DEF Open
  <1>8. book' \in Seq(Engine!Order) /\ Book' = Book \cup {o}
    BY <1>1, AppendElements DEF Shape, Book
  <1>9. ListedIsOpen'
    BY <1>1, <1>7, <1>8, Zenon DEF ListedIsOpen
  <1>10. Shape'
    BY <1>1, <1>6, <1>8 DEF Shape
  <1>11. Justified'
    BY <1>1, <1>8 DEF Justified
  <1>12. Protected'
    BY <1>1, ProtectedStays
  <1>13. Frozen
    BY <1>6 DEF Frozen
  <1>. QED BY <1>9, <1>10, <1>11, <1>12, <1>13 DEF Quiet

(* A limit order: filled, dropped or left to rest.                         *)
LEMMA LimitKeeps ==
  ASSUME EngineAssumption, Quiet, NEW id \in OrderIds, NEW c \in Contracts, NEW n \in Sizes,
         NEW p \in Prices, NEW ro \in BOOLEAN, NEW ioc \in BOOLEAN,
         NEW sl \in Prices \cup {None}, NEW tp \in TakeProfits,
         Engine!PlaceLimit(id, c, n, p, ro, sl, tp, ioc)
  PROVE  Quiet' /\ Frozen
  <1> DEFINE o == [id |-> id, contract |-> c, size |-> n, price |-> p,
                   ro |-> ro, sl |-> sl, tp |-> tp]
  <1>1. Fill(id, c, n, ro, sl, tp)
    <2>1. Engine!Fresh(id) /\ Engine!Request(c, n, ro, sl)
      BY DEF Engine!PlaceLimit
    <2>. QED BY <2>1, RequestFills
  <1>2. snap' = snap /\ results[id] = None
    BY DEF Engine!PlaceLimit, Engine!Fresh
  <1>3. CASE Engine!Execute(id, c, n, ro, sl, tp)
    BY <1>1, <1>2, <1>3, ExecuteKeeps
  <1>4. CASE results' = [results EXCEPT ![id] = Engine!Finished]
             /\ UNCHANGED <<pos, book, tpsl, fillCount, overshot>>
    BY <1>2, <1>4, ListedAtOnce
  <1>5. CASE /\ book' = Append(book, o)
             /\ results' = [results EXCEPT ![id] = [status |-> "open", size |-> n, price |-> p]]
             /\ UNCHANGED <<pos, tpsl, fillCount, overshot>>
    <2>1. /\ o \in Engine!Order /\ o.id = id /\ o.contract = c /\ o.size = n
          /\ o.price = p /\ o.ro = ro /\ o.sl = sl
      <3>1. tp \in Prices \cup {None}
        BY DEF EngineAssumption
      <3>. QED BY <3>1 DEF Engine!Order
    <2>2. (ro => sl = None /\ pos[c] # 0) /\ (~ro => sl # None)
      BY DEF Engine!PlaceLimit, Engine!Request, Engine!IsReducing
    <2> HIDE DEF o
    <2>. QED BY <1>2, <1>5, <2>1, <2>2, RestKeeps
  <1>. QED BY <1>3, <1>4, <1>5 DEF Engine!PlaceLimit

(* A close of the whole position.                                          *)
LEMMA CloseKeeps ==
  ASSUME EngineAssumption, Quiet, NEW id \in OrderIds, NEW c \in Contracts,
         Engine!CloseAll(id, c)
  PROVE  Quiet' /\ Frozen
  <1>1. results[id] = None /\ snap' = snap
    BY DEF Engine!CloseAll, Engine!Fresh
  <1>2. CASE Engine!Execute(id, c, -pos[c], FALSE, None, None)
    <2>1. pos[c] \in Int
      BY DEF Quiet, Shape
    <2>2. Fill(id, c, -pos[c], FALSE, None, None)
      BY <1>1, <2>1 DEF Fill
    <2>. QED BY <1>1, <1>2, <2>2, ExecuteKeeps
  <1>3. CASE results' = [results EXCEPT ![id] = Engine!Finished]
             /\ UNCHANGED <<pos, book, tpsl, fillCount, overshot>>
    BY <1>1, <1>3, ListedAtOnce
  <1>. QED BY <1>2, <1>3 DEF Engine!CloseAll

(* An amended order keeps everything but its price.                        *)
LEMMA AmendedBook ==
  ASSUME Shape, NEW i \in DOMAIN book, NEW price \in Prices,
         book' = Engine!Amended(i, price)
  PROVE  /\ book' \in Seq(Engine!Order)
         /\ {o.id : o \in Book'} = {o.id : o \in Book}
         /\ \A o \in Book' : \E p \in Book :
              o.contract = p.contract /\ o.ro = p.ro /\ o.sl = p.sl
  <1> DEFINE o == [book[i] EXCEPT !.price = price]
  <1>1. book \in Seq(Engine!Order) /\ DOMAIN book = 1..Len(book) /\ i \in 1..Len(book)
    BY DEF Shape
  <1>2. book[i] \in Engine!Order
    BY <1>1
  <1>3. /\ o \in Engine!Order /\ o.id = book[i].id /\ o.contract = book[i].contract
        /\ o.ro = book[i].ro /\ o.sl = book[i].sl
    BY <1>2 DEF Engine!Order
  <1>4. book' = [book EXCEPT ![i] = o]
    BY DEF Engine!Amended
  <1> HIDE DEF o
  <1>5. book' \in Seq(Engine!Order) /\ Len(book') = Len(book)
    BY <1>1, <1>3, <1>4
  <1>6. \A k \in 1..Len(book) : book'[k] = IF k = i THEN o ELSE book[k]
    BY <1>1, <1>4
  <1>7. \A k \in 1..Len(book) : /\ book'[k].id = book[k].id
                                /\ book'[k].contract = book[k].contract
                                /\ book'[k].ro = book[k].ro /\ book'[k].sl = book[k].sl
    BY <1>3, <1>6
  <1>8. /\ \A q : q \in Book <=> \E k \in 1..Len(book) : q = book[k]
        /\ \A q : q \in Book' <=> \E k \in 1..Len(book) : q = book'[k]
    BY <1>5, Zenon DEF Book, Elements
  <1>9. /\ \A q \in Book' : \E p \in Book :
             q.id = p.id /\ q.contract = p.contract /\ q.ro = p.ro /\ q.sl = p.sl
        /\ \A p \in Book : \E q \in Book' : q.id = p.id
    BY <1>7, <1>8
  <1>10. {q.id : q \in Book'} = {q.id : q \in Book}
    <2>1. \A x : x \in {q.id : q \in Book'} => x \in {q.id : q \in Book}
      BY <1>9
    <2>2. \A x : x \in {q.id : q \in Book} => x \in {q.id : q \in Book'}
      BY <1>9
    <2>. QED BY <2>1, <2>2, Zenon
  <1>. QED BY <1>5, <1>9, <1>10

(* An amendment: filled, short of balance, or rewritten where it rests.    *)
LEMMA AmendKeeps ==
  ASSUME EngineAssumption, Quiet, NEW i \in DOMAIN book, NEW price \in Prices,
         Engine!AmendOrder(i, price)
  PROVE  Quiet' /\ Frozen
  <1> DEFINE o == [book[i] EXCEPT !.price = price]
  <1>1. Shape /\ ListedIsOpen /\ Justified /\ Protected
    BY DEF Quiet
  <1>2. book[i] \in Book
    <2>1. i \in 1..Len(book)
      BY <1>1 DEF Shape
    <2>. QED BY <2>1, Zenon DEF Book, Elements
  <1>3. book[i] \in Engine!Order
    BY <1>1, <1>2, OrderFields
  <1>4. /\ o.id = book[i].id /\ o.contract = book[i].contract /\ o.size = book[i].size
        /\ o.ro = book[i].ro /\ o.sl = book[i].sl /\ o.tp = book[i].tp
    BY <1>3 DEF Engine!Order
  <1>5. snap' = snap
    BY DEF Engine!AmendOrder
  <1>6. CASE Engine!Execute(o.id, o.contract, o.size, o.ro, o.sl, o.tp)
    <2>1. /\ o.id \in OrderIds /\ o.contract \in Contracts /\ o.size \in Int /\ o.ro \in BOOLEAN
          /\ o.sl \in Prices \cup {None} /\ o.tp \in Prices \cup {None}
      BY <1>1, <1>2, <1>4, OrderFields DEF EngineAssumption
    <2>2. o.id \in Open
      <3>1. book[i].id \in Open
        BY <1>1, <1>2, Zenon DEF ListedIsOpen
      <3>. QED BY <1>4, <3>1
    <2>3. (o.ro => o.sl = None /\ pos[o.contract] # 0) /\ (~o.ro => o.sl # None)
      BY <1>1, <1>2, <1>4 DEF Justified
    <2> HIDE DEF o
    <2>4. Fill(o.id, o.contract, o.size, o.ro, o.sl, o.tp)
      BY <2>1, <2>2, <2>3 DEF Fill
    <2>. QED BY <1>5, <1>6, <2>4, ExecuteKeeps
  <1>7. CASE book' = Engine!Amended(i, price) /\ UNCHANGED <<pos, tpsl, fillCount, overshot>>
             /\ \/ results' = results
                \/ results' = [results EXCEPT ![o.id].size = o.size, ![o.id].price = price]
    <2>1. /\ book' \in Seq(Engine!Order)
          /\ {q.id : q \in Book'} = {q.id : q \in Book}
          /\ \A q \in Book' : \E p \in Book :
               q.contract = p.contract /\ q.ro = p.ro /\ q.sl = p.sl
      BY <1>1, <1>7, AmendedBook
    <2>2. o.id \in Open /\ o.id \in OrderIds /\ o.size \in Int /\ price \in Int
      <3>1. book[i].id \in OrderIds /\ book[i].size \in Int /\ price \in Int
        BY <1>1, <1>2, OrderFields DEF EngineAssumption
      <3>2. book[i].id \in Open
        BY <1>1, <1>2, Zenon DEF ListedIsOpen
      <3>. QED BY <1>4, <3>1, <3>2
    <2> HIDE DEF o
    <2>3. /\ results' \in [OrderIds -> Engine!Listed \cup {None}] /\ Open' = Open
          /\ \A k \in OrderIds : k # o.id => results'[k] = results[k]
      <3>1. CASE results' = results
        BY <1>1, <3>1 DEF Shape, Open
      <3>2. CASE results' = [results EXCEPT ![o.id].size = o.size, ![o.id].price = price]
        <4> DEFINE old == results[o.id]
                   row == [[old EXCEPT !.size = o.size] EXCEPT !.price = price]
        <4>1. old \in Engine!Listed /\ old.status = "open"
          BY <1>1, <2>2 DEF Open, Shape
        <4>2. row \in Engine!Listed /\ row.status = "open"
          BY <2>2, <4>1 DEF Engine!Listed
        <4>3. row # None
          BY <4>2 DEF EngineAssumption, Engine!Listed
        <4>4. results' = [results EXCEPT ![o.id] = row]
          BY <1>1, <2>2, <3>2 DEF Shape
        <4> HIDE DEF row, old
        <4>5. results' \in [OrderIds -> Engine!Listed \cup {None}] /\ results'[o.id] = row
              /\ \A k \in OrderIds : k # o.id => results'[k] = results[k]
          BY <1>1, <2>2, <4>2, <4>4 DEF Shape
        <4>6. Open' = Open
          BY <2>2, <4>2, <4>3, <4>5 DEF Open
        <4>. QED BY <4>5, <4>6
      <3>. QED BY <1>7, <3>1, <3>2
    <2>4. Shape'
      BY <1>1, <1>5, <1>7, <2>1, <2>3 DEF Shape
    <2>5. ListedIsOpen'
      BY <1>1, <2>1, <2>3, Zenon DEF ListedIsOpen
    <2>6. Justified'
      <3>1. ASSUME NEW q \in Book'
            PROVE  (q.ro => q.sl = None /\ pos'[q.contract] # 0) /\ (~q.ro => q.sl # None)
        <4>1. PICK p \in Book : q.contract = p.contract /\ q.ro = p.ro /\ q.sl = p.sl
          BY <2>1, <3>1
        <4>. QED BY <1>1, <1>7, <4>1 DEF Justified
      <3>. QED BY <3>1, Zenon DEF Justified
    <2>7. Protected'
      BY <1>1, <1>7, ProtectedStays
    <2>8. Frozen
      BY <1>7, <2>2, <2>3 DEF Frozen, Open
    <2>. QED BY <2>4, <2>5, <2>6, <2>7, <2>8 DEF Quiet
  <1>. QED BY <1>6, <1>7 DEF Engine!AmendOrder

(* A cancellation.                                                         *)
LEMMA CancelOrderKeeps ==
  ASSUME EngineAssumption, Quiet, NEW i \in DOMAIN book, Engine!CancelOrder(i)
  PROVE  Quiet' /\ Frozen
  <1>1. book[i] \in Book
    <2>1. i \in 1..Len(book)
      BY DEF Quiet, Shape
    <2>. QED BY <2>1, Zenon DEF Book, Elements
  <1>. QED BY <1>1, CancelKeeps DEF Engine!CancelOrder

(* A replacement of the protection.                                        *)
LEMMA UpdateKeeps ==
  ASSUME EngineAssumption, Quiet, NEW c \in Contracts, NEW sl \in Prices,
         NEW tp \in TakeProfits, Engine!UpdateTpsl(c, sl, tp)
  PROVE  Quiet' /\ Frozen
  <1> DEFINE d == Engine!Sign(pos[c])
             group == Engine!TpslGroup(c, d, sl, tp)
             kept == {t \in tpsl : t.contract # c \/ t.direction # d}
  <1>1. Shape /\ ListedIsOpen /\ Justified /\ Protected
    BY DEF Quiet
  <1>2. pos[c] \in Int /\ d \in {-1, 1} /\ tp \in Prices \cup {None} /\ sl # None
    BY <1>1, SignIs DEF Shape, EngineAssumption
  <1>3. pos[c] # 0 /\ UNCHANGED <<pos, snap, book, results, fillCount>>
        /\ overshot' = [overshot EXCEPT ![c] = FALSE]
        /\ tpsl' = Engine!ApplyTpsl(tpsl, c, d, sl, tp)
    BY DEF Engine!UpdateTpsl
  <1>4. tpsl' = kept \cup group
    BY <1>2, <1>3 DEF Engine!ApplyTpsl
  <1>5. /\ group \subseteq Engine!Tpsl
        /\ \A t \in group : t.contract = c /\ t.direction = d
        /\ \E t \in group : t.contract = c /\ t.kind = "stop_loss"
    BY <1>2, GroupIs
  <1>6. kept \subseteq tpsl /\ \A t \in tpsl : t.contract # c => t \in kept
    OBVIOUS
  <1>7. overshot' \in [Contracts -> BOOLEAN]
        /\ \A e \in Contracts : e # c => overshot'[e] = overshot[e]
    BY <1>1, <1>3, Zenon DEF Shape
  <1>8. Book' = Book /\ Open' = Open
    BY <1>3 DEF Book, Elements, Open
  <1> HIDE DEF kept, group
  <1>9. tpsl' \in SUBSET Engine!Tpsl
    BY <1>1, <1>4, <1>5, <1>6, Zenon DEF Shape
  <1>10. Shape' /\ ListedIsOpen' /\ Justified'
    BY <1>1, <1>3, <1>7, <1>8, <1>9 DEF Shape, ListedIsOpen, Justified
  <1>11. Engine!TpslMatchesPosition'
    <2>1. ASSUME NEW t \in tpsl'
          PROVE  pos[t.contract] # 0 /\ t.direction = Engine!Sign(pos[t.contract])
      <3>1. CASE t \in kept
        BY <1>1, <1>6, <3>1 DEF Protected, Engine!TpslMatchesPosition
      <3>2. CASE t \in group
        BY <1>3, <1>5, <3>2
      <3>. QED BY <1>4, <3>1, <3>2
    <2>. QED BY <1>3, <2>1 DEF Engine!TpslMatchesPosition
  <1>12. Engine!NoNakedPosition'
    <2>1. ASSUME NEW e \in Contracts, pos'[e] # 0
          PROVE  (\E t \in tpsl' : t.contract = e /\ t.kind = "stop_loss") \/ overshot'[e]
      <3>1. CASE e = c
        BY <1>4, <1>5, <3>1, Zenon
      <3>2. CASE e # c
        <4>1. (\E t \in tpsl : t.contract = e /\ t.kind = "stop_loss") \/ overshot[e]
          BY <1>1, <1>3, <2>1 DEF Protected, Engine!NoNakedPosition
        <4>2. \A t \in tpsl : t.contract = e => t \in tpsl'
          BY <1>4, <1>6, <3>2
        <4>. QED BY <1>7, <3>2, <4>1, <4>2, Zenon
      <3>. QED BY <3>1, <3>2
    <2>. QED BY <2>1, Zenon DEF Engine!NoNakedPosition
  <1>13. Frozen
    BY <1>3 DEF Frozen
  <1>. QED BY <1>10, <1>11, <1>12, <1>13 DEF Quiet, Protected

(* A reset of the account.                                                 *)
LEMMA ResetKeeps ==
  ASSUME EngineAssumption, Quiet, Engine!ResetAccount
  PROVE  Quiet' /\ Frozen
  <1>1. Shape /\ ListedIsOpen
    BY DEF Quiet
  <1>2. /\ pos' = [c \in Contracts |-> 0] /\ book' = <<>> /\ tpsl' = {}
        /\ overshot' = [c \in Contracts |-> FALSE] /\ snap' = snap /\ fillCount' = fillCount
        /\ results' = [i \in OrderIds |->
             IF results[i] # None /\ results[i].status = "open" THEN Engine!Removed
             ELSE results[i]]
    BY DEF Engine!ResetAccount
  <1>3. Engine!Removed \in Engine!Listed /\ Engine!Removed.status # "open"
    BY DEF Engine!Removed, Engine!Listed
  <1>4. results' \in [OrderIds -> Engine!Listed \cup {None}]
    BY <1>1, <1>2, <1>3 DEF Shape
  <1>5. Open' = {}
    <2>1. ASSUME NEW i \in OrderIds PROVE i \notin Open'
      <3>1. CASE i \in Open
        <4>1. results'[i] = Engine!Removed
          BY <1>2, <3>1 DEF Open
        <4>. QED BY <1>3, <4>1 DEF Open
      <3>2. CASE i \notin Open
        <4>1. results'[i] = results[i]
          BY <1>2, <3>2 DEF Open
        <4>. QED BY <3>2, <4>1 DEF Open
      <3>. QED BY <3>1, <3>2
    <2>. QED BY <2>1 DEF Open
  <1>6. Book' = {}
    BY <1>2 DEF Book, Elements
  <1>7. Shape'
    <2>1. book' \in Seq(Engine!Order) /\ tpsl' \in SUBSET Engine!Tpsl
      BY <1>2
    <2>2. pos' \in [Contracts -> Int] /\ overshot' \in [Contracts -> BOOLEAN]
      BY <1>2
    <2>. QED BY <1>1, <1>2, <1>4, <2>1, <2>2 DEF Shape
  <1>8. ListedIsOpen' /\ Justified'
    BY <1>5, <1>6 DEF ListedIsOpen, Justified
  <1>9. Protected'
    BY <1>2 DEF Protected, Engine!TpslMatchesPosition, Engine!NoNakedPosition
  <1>10. Frozen
    BY <1>2 DEF Frozen
  <1>. QED BY <1>7, <1>8, <1>9, <1>10 DEF Quiet

-----------------------------------------------------------------------------
(* The tick.                                                               *)

(* What is left of a queue without its head.                               *)
LEMMA TailElements ==
  ASSUME NEW S, NEW s \in Seq(S), s # <<>>
  PROVE  /\ Tail(s) \in Seq(S)
         /\ \A x \in Elements(s) : x = Head(s) \/ x \in Elements(Tail(s))
  <1>1. Tail(s) \in Seq(S) /\ Len(Tail(s)) = Len(s) - 1 /\ Head(s) = s[1] /\ Len(s) \in Nat
    OBVIOUS
  <1>2. \A i \in 1..Len(Tail(s)) : Tail(s)[i] = s[i + 1]
    OBVIOUS
  <1>3. ASSUME NEW x \in Elements(s), x # Head(s) PROVE x \in Elements(Tail(s))
    <2>1. PICK i \in 1..Len(s) : x = s[i]
      BY Zenon DEF Elements
    <2>2. i # 1
      BY <1>1, <1>3, <2>1
    <2>3. i - 1 \in 1..Len(Tail(s)) /\ (i - 1) + 1 = i
      BY <1>1, <2>2
    <2>4. Tail(s)[i - 1] = x
      BY <1>2, <2>1, <2>3
    <2>. QED BY <2>3, <2>4, Zenon DEF Elements
  <1>. QED BY <1>1, <1>3

(* A quote arrives: every resting order is ahead of the scan.              *)
LEMMA TickKeeps ==
  ASSUME EngineAssumption, Quiet, NEW c \in Contracts, NEW s \in Snaps, Engine!Tick(c, s)
  PROVE  Quiet' /\ Frozen /\ Scanning' /\ tick'.phase = "match"
  <1> DEFINE queue == [i \in 1..Len(book) |-> book[i].id]
  <1>1. Shape /\ ListedIsOpen /\ Justified /\ Protected
    BY DEF Quiet
  <1>2. /\ snap' = [snap EXCEPT ![c] = s]
        /\ tick' = [phase |-> "match", contract |-> c, queue |-> queue]
        /\ UNCHANGED <<pos, book, results, tpsl, fillCount, overshot>>
    BY DEF Engine!Tick
  <1>3. snap' \in [Contracts -> Snaps \cup {None}] /\ snap'[c] = s
    BY <1>1, <1>2 DEF Shape
  <1>4. Book' = Book /\ Open' = Open
    BY <1>2 DEF Book, Elements, Open
  <1>5. \A i \in 1..Len(book) : book[i].id \in OrderIds
    <2>1. \A i \in 1..Len(book) : book[i] \in Book
      BY Zenon DEF Book, Elements
    <2>. QED BY <1>1, <2>1, OrderFields
  <1>6. queue \in Seq(OrderIds) /\ Len(queue) = Len(book)
    <2>1. Len(book) \in Nat
      BY <1>1 DEF Shape
    <2>. QED BY <1>5, <2>1
  <1>7. \A o \in Book : o.id \in Elements(queue)
    <2>1. ASSUME NEW o \in Book PROVE o.id \in Elements(queue)
      <3>1. PICK i \in 1..Len(book) : o = book[i]
        BY Zenon DEF Book, Elements
      <3>2. o.id = queue[i]
        BY <3>1
      <3> HIDE DEF queue
      <3>. QED BY <1>6, <3>2, Zenon DEF Elements
    <2>. QED BY <2>1
  <1> HIDE DEF queue
  <1>8. Shape' /\ ListedIsOpen' /\ Justified'
    BY <1>1, <1>2, <1>3, <1>4 DEF Shape, ListedIsOpen, Justified
  <1>9. Protected'
    BY <1>1, <1>2, ProtectedStays
  <1>10. tick' \in [phase : Phases, contract : Contracts \cup {None}, queue : Seq(OrderIds)]
    BY <1>2, <1>6 DEF Phases
  <1>11. tick'.phase = "match" /\ tick'.contract = c /\ tick'.queue = queue
    BY <1>2
  <1>12. TickPlace'
    BY <1>3, <1>10, <1>11 DEF TickPlace
  <1>13. Ahead'
    BY <1>4, <1>7, <1>11 DEF Ahead
  <1>14. Matched' /\ Stopped'
    BY <1>11 DEF Matched, Stopped
  <1>15. Frozen
    BY <1>2 DEF Frozen
  <1>. QED BY <1>8, <1>9, <1>11, <1>12, <1>13, <1>14, <1>15 DEF Quiet, Scanning

(* What one turn of the scan does to the orders.                           *)
LEMMA MatchKeeps ==
  ASSUME EngineAssumption, Quiet, TickPlace, Engine!MatchOne
  PROVE  /\ Quiet' /\ Frozen
         /\ \A o \in Book' : o \in Book /\
              (o.contract = tick.contract /\ Engine!Crossed(o) => o.id # Head(tick.queue))
  <1> DEFINE turn == {o \in Engine!OrdersOf(tick.contract) :
                        o.id = Head(tick.queue) /\ Engine!Crossed(o)}
  <1>1. Shape /\ ListedIsOpen /\ Justified /\ Protected
    BY DEF Quiet
  <1>2. snap' = snap
    BY DEF Engine!MatchOne
  <1>3. Engine!OrdersOf(tick.contract) = {o \in Book : o.contract = tick.contract}
    BY <1>1, OrdersAre
  <1>4. CASE turn = {} /\ UNCHANGED <<pos, book, results, tpsl, fillCount, overshot>>
    <2>1. Book' = Book /\ Open' = Open
      BY <1>4 DEF Book, Elements, Open
    <2>2. Shape' /\ ListedIsOpen' /\ Justified'
      BY <1>1, <1>2, <1>4, <2>1 DEF Shape, ListedIsOpen, Justified
    <2>3. Protected'
      BY <1>1, <1>4, ProtectedStays
    <2>4. Frozen
      BY <1>4 DEF Frozen
    <2>. QED BY <1>3, <1>4, <2>1, <2>2, <2>3, <2>4 DEF Quiet
  <1>5. ASSUME NEW o \in turn,
               \/ /\ results' = [results EXCEPT ![o.id] = Engine!Finished]
                  /\ book' = Engine!Drop({o.id})
                  /\ UNCHANGED <<pos, tpsl, fillCount, overshot>>
               \/ /\ o.ro => Engine!IsReducing(o.contract, o.size)
                  /\ Engine!Execute(o.id, o.contract, o.size, o.ro, o.sl, o.tp)
        PROVE  Quiet' /\ Frozen /\ \A p \in Book' : p \in Book /\ p.id # o.id
    <2>1. o \in Book
      BY <1>3
    <2>2. CASE /\ results' = [results EXCEPT ![o.id] = Engine!Finished]
               /\ book' = Engine!Drop({o.id})
               /\ UNCHANGED <<pos, tpsl, fillCount, overshot>>
      BY <1>2, <2>1, <2>2, CancelKeeps
    <2>3. CASE Engine!Execute(o.id, o.contract, o.size, o.ro, o.sl, o.tp)
      <3>1. /\ o.id \in OrderIds /\ o.contract \in Contracts /\ o.size \in Int
            /\ o.ro \in BOOLEAN /\ o.sl \in Prices \cup {None} /\ o.tp \in Prices \cup {None}
        BY <1>1, <2>1, OrderFields DEF EngineAssumption
      <3>2. o.id \in Open
        BY <1>1, <2>1, Zenon DEF ListedIsOpen
      <3>3. (o.ro => o.sl = None /\ pos[o.contract] # 0) /\ (~o.ro => o.sl # None)
        BY <1>1, <2>1 DEF Justified
      <3>4. Fill(o.id, o.contract, o.size, o.ro, o.sl, o.tp)
        BY <3>1, <3>2, <3>3 DEF Fill
      <3>. QED BY <1>2, <2>3, <3>4, ExecuteKeeps
    <2>. QED BY <1>5, <2>2, <2>3
  <1>6. CASE \E o \in turn :
               \/ /\ results' = [results EXCEPT ![o.id] = Engine!Finished]
                  /\ book' = Engine!Drop({o.id})
                  /\ UNCHANGED <<pos, tpsl, fillCount, overshot>>
               \/ /\ o.ro => Engine!IsReducing(o.contract, o.size)
                  /\ Engine!Execute(o.id, o.contract, o.size, o.ro, o.sl, o.tp)
    <2>1. PICK o \in turn : Quiet' /\ Frozen /\ \A p \in Book' : p \in Book /\ p.id # o.id
      BY <1>5, <1>6
    <2>. QED BY <2>1
  <1>7. \/ turn = {} /\ UNCHANGED <<pos, book, results, tpsl, fillCount, overshot>>
        \/ \E o \in turn :
             \/ /\ results' = [results EXCEPT ![o.id] = Engine!Finished]
                /\ book' = Engine!Drop({o.id})
                /\ UNCHANGED <<pos, tpsl, fillCount, overshot>>
             \/ /\ o.ro => Engine!IsReducing(o.contract, o.size)
                /\ Engine!Execute(o.id, o.contract, o.size, o.ro, o.sl, o.tp)
    BY DEF Engine!MatchOne
  <1>. QED BY <1>4, <1>6, <1>7

(* Whether an order crosses depends on the quotes only.                    *)
LEMMA CrossedStays ==
  ASSUME snap' = snap, NEW o
  PROVE  Engine!Crossed(o)' <=> Engine!Crossed(o)
  BY DEF Engine!Crossed

(* One turn moves the scan past one order.                                 *)
LEMMA MatchScans ==
  ASSUME EngineAssumption, EngineInv, Engine!MatchOne
  PROVE  Scanning' /\ tick'.phase = "match"
  <1>1. Quiet /\ TickPlace /\ Ahead /\ Shape
    BY DEF EngineInv, Scanning, Quiet
  <1>2. /\ tick.phase = "match" /\ tick.queue # <<>> /\ tick' = [tick EXCEPT !.queue = Tail(@)]
        /\ snap' = snap
    BY DEF Engine!MatchOne
  <1>3. /\ tick \in [phase : Phases, contract : Contracts \cup {None}, queue : Seq(OrderIds)]
        /\ tick.contract \in Contracts /\ snap[tick.contract] \in Snaps
    BY <1>1, <1>2 DEF TickPlace, Engine!Idle
  <1>4. /\ Tail(tick.queue) \in Seq(OrderIds)
        /\ \A x \in Elements(tick.queue) :
             x = Head(tick.queue) \/ x \in Elements(Tail(tick.queue))
    <2>1. tick.queue \in Seq(OrderIds)
      BY <1>3
    <2>. QED BY <1>2, <2>1, TailElements
  <1>5. /\ tick' \in [phase : Phases, contract : Contracts \cup {None}, queue : Seq(OrderIds)]
        /\ tick'.phase = "match" /\ tick'.contract = tick.contract
        /\ tick'.queue = Tail(tick.queue)
    BY <1>2, <1>3, <1>4
  <1>6. TickPlace'
    BY <1>2, <1>3, <1>5 DEF TickPlace
  <1>7. Ahead'
    <2>1. ASSUME NEW o \in Book', o.contract = tick.contract, Engine!Crossed(o)'
          PROVE  o.id \in Elements(Tail(tick.queue))
      <3>1. Engine!Crossed(o)
        BY <1>2, <2>1, CrossedStays
      <3>2. o \in Book /\ o.id # Head(tick.queue)
        BY <1>1, <2>1, <3>1, MatchKeeps
      <3>3. o.id \in Elements(tick.queue)
        BY <1>1, <1>2, <2>1, <3>1, <3>2 DEF Ahead
      <3>. QED BY <1>4, <3>2, <3>3
    <2>. QED BY <1>5, <2>1, Zenon DEF Ahead
  <1>8. Matched' /\ Stopped'
    BY <1>5 DEF Matched, Stopped
  <1>. QED BY <1>5, <1>6, <1>7, <1>8 DEF Scanning

(* The scan is over: nothing that is due is left.                          *)
LEMMA DoneScans ==
  ASSUME EngineAssumption, EngineInv, Engine!MatchDone
  PROVE  Quiet' /\ Frozen /\ Scanning' /\ tick'.phase = "tpsl"
  <1>1. Quiet /\ TickPlace /\ Ahead /\ Shape /\ ListedIsOpen /\ Justified /\ Protected
    BY DEF EngineInv, Scanning, Quiet
  <1>2. /\ tick.phase = "match" /\ tick.queue = <<>> /\ tick' = [tick EXCEPT !.phase = "tpsl"]
        /\ UNCHANGED <<pos, snap, book, results, tpsl, fillCount, overshot>>
    BY DEF Engine!MatchDone
  <1>3. /\ tick \in [phase : Phases, contract : Contracts \cup {None}, queue : Seq(OrderIds)]
        /\ tick.contract \in Contracts /\ snap[tick.contract] \in Snaps
    BY <1>1, <1>2 DEF TickPlace, Engine!Idle
  <1>4. /\ tick' \in [phase : Phases, contract : Contracts \cup {None}, queue : Seq(OrderIds)]
        /\ tick'.phase = "tpsl" /\ tick'.contract = tick.contract
    BY <1>2, <1>3 DEF Phases
  <1>5. Book' = Book /\ Open' = Open
    BY <1>2 DEF Book, Elements, Open
  <1>6. Quiet'
    <2>1. Shape' /\ ListedIsOpen' /\ Justified'
      BY <1>1, <1>2, <1>5 DEF Shape, ListedIsOpen, Justified
    <2>2. Protected'
      BY <1>1, <1>2, ProtectedStays
    <2>. QED BY <2>1, <2>2 DEF Quiet
  <1>7. Frozen
    BY <1>2 DEF Frozen
  <1>8. TickPlace'
    BY <1>2, <1>3, <1>4 DEF TickPlace
  <1>9. Matched'
    <2>1. ASSUME NEW o \in Book, o.contract = tick.contract PROVE ~Engine!Crossed(o)
      <3>1. Elements(tick.queue) = {}
        BY <1>2 DEF Elements
      <3>. QED BY <1>1, <1>2, <2>1, <3>1 DEF Ahead
    <2>2. \A o \in Book' : o.contract = tick'.contract => ~Engine!Crossed(o)'
      BY <1>2, <1>4, <1>5, <2>1, CrossedStays
    <2>. QED BY <2>2, Zenon DEF Matched
  <1>10. Ahead' /\ Stopped'
    BY <1>4 DEF Ahead, Stopped
  <1>. QED BY <1>4, <1>6, <1>7, <1>8, <1>9, <1>10 DEF Scanning

(* An order left over by the scan does not come to cross later on.         *)
LEMMA MatchedStays ==
  ASSUME snap' = snap, NEW c, \A o \in Book : o.contract = c => ~Engine!Crossed(o),
         \A o \in Book' : o \in Book
  PROVE  /\ \A o \in Book' : o.contract = c => ~Engine!Crossed(o)
         /\ \A o \in Book' : o.contract = c => ~Engine!Crossed(o)'
  BY CrossedStays

(* The protection is looked at, and a stop that was hit closes.            *)
LEMMA TriggerScans ==
  ASSUME EngineAssumption, EngineInv, Engine!TriggerTpsl
  PROVE  Quiet' /\ Frozen /\ Scanning' /\ tick'.phase = "liquidation"
  <1> DEFINE c == tick.contract
  <1>1. /\ Quiet /\ TickPlace /\ Matched /\ Shape /\ ListedIsOpen /\ Justified /\ Protected
    BY DEF EngineInv, Scanning, Quiet
  <1>2. /\ tick.phase = "tpsl" /\ tick' = [tick EXCEPT !.phase = "liquidation"] /\ snap' = snap
    BY DEF Engine!TriggerTpsl
  <1>3. /\ tick \in [phase : Phases, contract : Contracts \cup {None}, queue : Seq(OrderIds)]
        /\ c \in Contracts /\ snap[c] \in Snaps
    BY <1>1, <1>2 DEF TickPlace, Engine!Idle
  <1>4. /\ tick' \in [phase : Phases, contract : Contracts \cup {None}, queue : Seq(OrderIds)]
        /\ tick'.phase = "liquidation" /\ tick'.contract = c
    BY <1>2, <1>3 DEF Phases
  <1>5. TickPlace'
    BY <1>2, <1>3, <1>4 DEF TickPlace
  <1>6. \A o \in Book : o.contract = c => ~Engine!Crossed(o)
    BY <1>1, <1>2 DEF Matched
  <1>7. CASE Engine!Flatten(c)
    <2>1. Quiet' /\ Frozen /\ pos'[c] = 0 /\ \A o \in Book' : o \in Book
      BY <1>1, <1>2, <1>3, <1>7, FlattenKeeps
    <2>2. \A o \in Book' : o.contract = c => ~Engine!Crossed(o)'
      BY <1>2, <1>6, <2>1, MatchedStays
    <2>3. Matched'
      BY <1>4, <2>2, Zenon DEF Matched
    <2>4. Ahead' /\ Stopped'
      BY <1>4, <2>1 DEF Ahead, Stopped
    <2>. QED BY <1>4, <1>5, <2>1, <2>3, <2>4 DEF Scanning
  <1>8. CASE /\ Engine!Triggered(c) = {}
             /\ UNCHANGED <<pos, book, results, tpsl, fillCount, overshot>>
    <2>1. Book' = Book /\ Open' = Open
      BY <1>8 DEF Book, Elements, Open
    <2>2. Quiet'
      <3>1. Shape' /\ ListedIsOpen' /\ Justified'
        BY <1>1, <1>2, <1>8, <2>1 DEF Shape, ListedIsOpen, Justified
      <3>2. Protected'
        BY <1>1, <1>8, ProtectedStays
      <3>. QED BY <3>1, <3>2 DEF Quiet
    <2>3. Frozen
      BY <1>8 DEF Frozen
    <2>4. \A o \in Book' : o.contract = c => ~Engine!Crossed(o)'
      BY <1>2, <1>6, <2>1, MatchedStays
    <2>5. Matched'
      BY <1>4, <2>4, Zenon DEF Matched
    <2>6. ASSUME pos[c] # 0, NEW t \in tpsl, t.contract = c, t.kind = "stop_loss"
          PROVE  t.direction * (t.trigger - snap[c].mark) < 0
      <3>1. t.direction \in {-1, 1} /\ t.trigger \in Int
        BY <1>1 DEF Shape, Engine!Tpsl, EngineAssumption
      <3>2. snap[c].mark \in Int
        BY <1>3 DEF EngineAssumption
      <3>3. t.direction = Engine!Sign(pos[c])
        BY <1>1, <2>6 DEF Protected, Engine!TpslMatchesPosition
      <3>4. ~(t.direction * (t.trigger - snap[c].mark) >= 0)
        BY <1>8, <2>6, <3>3, Zenon DEF Engine!Triggered
      <3>5. CASE t.direction = 1
        BY <3>1, <3>2, <3>4, <3>5
      <3>6. CASE t.direction = -1
        BY <3>1, <3>2, <3>4, <3>6
      <3>. QED BY <3>1, <3>5, <3>6
    <2>7. Stopped'
      BY <1>2, <1>4, <1>8, <2>6 DEF Stopped
    <2>8. Ahead'
      BY <1>4 DEF Ahead
    <2>. QED BY <1>4, <1>5, <2>2, <2>3, <2>5, <2>7, <2>8 DEF Scanning
  <1>. QED BY <1>7, <1>8 DEF Engine!TriggerTpsl

(* What a tick that ends has left behind.                                  *)
Settles ==
  LET c == tick.contract IN
  /\ \A o \in Book' : o.contract = c => ~Engine!Crossed(o)
  /\ pos'[c] # 0 =>
       \A t \in tpsl' : t.contract = c /\ t.kind = "stop_loss" =>
         t.direction * (t.trigger - snap[c].mark) < 0

(* The tick ends.                                                          *)
LEMMA LiquidationSettles ==
  ASSUME EngineAssumption, EngineInv, Engine!CheckLiquidation
  PROVE  Quiet' /\ Frozen /\ tick' = Engine!Idle /\ Settles
  <1> DEFINE c == tick.contract
  <1>1. /\ Quiet /\ TickPlace /\ Matched /\ Stopped
        /\ Shape /\ ListedIsOpen /\ Justified /\ Protected
    BY DEF EngineInv, Scanning, Quiet
  <1>2. tick.phase = "liquidation" /\ tick' = Engine!Idle /\ snap' = snap
    BY DEF Engine!CheckLiquidation
  <1>3. c \in Contracts
    BY <1>1, <1>2 DEF TickPlace, Engine!Idle
  <1>4. \A o \in Book : o.contract = c => ~Engine!Crossed(o)
    BY <1>1, <1>2 DEF Matched
  <1>5. CASE Engine!Flatten(c)
    <2>1. Quiet' /\ Frozen /\ pos'[c] = 0 /\ \A o \in Book' : o \in Book
      BY <1>1, <1>2, <1>3, <1>5, FlattenKeeps
    <2>2. \A o \in Book' : o.contract = c => ~Engine!Crossed(o)
      BY <1>4, <2>1
    <2>. QED BY <1>2, <2>1, <2>2 DEF Settles
  <1>6. CASE UNCHANGED <<pos, book, results, tpsl, fillCount, overshot>>
    <2>1. Book' = Book /\ Open' = Open
      BY <1>6 DEF Book, Elements, Open
    <2>2. Quiet'
      <3>1. Shape' /\ ListedIsOpen' /\ Justified'
        BY <1>1, <1>2, <1>6, <2>1 DEF Shape, ListedIsOpen, Justified
      <3>2. Protected'
        BY <1>1, <1>6, ProtectedStays
      <3>. QED BY <3>1, <3>2 DEF Quiet
    <2>3. Frozen
      BY <1>6 DEF Frozen
    <2>4. pos'[c] # 0 => \A t \in tpsl' : t.contract = c /\ t.kind = "stop_loss" =>
            t.direction * (t.trigger - snap[c].mark) < 0
      BY <1>1, <1>2, <1>6 DEF Stopped
    <2>5. \A o \in Book' : o.contract = c => ~Engine!Crossed(o)
      BY <1>4, <2>1
    <2>. QED BY <1>2, <2>2, <2>3, <2>4, <2>5 DEF Settles
  <1>. QED BY <1>5, <1>6 DEF Engine!CheckLiquidation

-----------------------------------------------------------------------------
(* The theorems.                                                           *)

(* The empty exchange.                                                     *)
LEMMA EngineInit ==
  ASSUME EngineAssumption, Engine!Init
  PROVE  EngineInv
  <1>1. /\ pos = [c \in Contracts |-> 0] /\ snap = [c \in Contracts |-> None]
        /\ book = <<>> /\ results = [i \in OrderIds |-> None] /\ tpsl = {}
        /\ tick = Engine!Idle /\ fillCount = [i \in OrderIds |-> 0]
        /\ overshot = [c \in Contracts |-> FALSE]
    BY DEF Engine!Init
  <1>2. Shape
    <2>1. book \in Seq(Engine!Order) /\ tpsl \in SUBSET Engine!Tpsl
      BY <1>1
    <2>2. /\ pos \in [Contracts -> Int] /\ snap \in [Contracts -> Snaps \cup {None}]
          /\ results \in [OrderIds -> Engine!Listed \cup {None}]
          /\ fillCount \in [OrderIds -> Nat] /\ overshot \in [Contracts -> BOOLEAN]
      BY <1>1
    <2>. QED BY <2>1, <2>2 DEF Shape
  <1>3. Book = {} /\ Open = {}
    BY <1>1 DEF Book, Elements, Open
  <1>4. ListedIsOpen /\ Justified
    BY <1>3 DEF ListedIsOpen, Justified
  <1>5. Protected
    BY <1>1 DEF Protected, Engine!TpslMatchesPosition, Engine!NoNakedPosition
  <1>6. tick \in [phase : Phases, contract : Contracts \cup {None}, queue : Seq(OrderIds)]
        /\ tick.phase = "idle"
    BY <1>1 DEF Engine!Idle, Phases
  <1>7. Scanning
    BY <1>1, <1>6 DEF Scanning, TickPlace, Ahead, Matched, Stopped
  <1>. QED BY <1>2, <1>4, <1>5, <1>7 DEF EngineInv, Quiet

(* The requests come between two ticks and leave it so.                    *)
LEMMA RequestsKeep ==
  ASSUME EngineAssumption, Quiet,
    \/ \E id \in OrderIds, c \in Contracts, n \in Sizes, ro \in BOOLEAN, sl \in Engine!Stops,
          tp \in TakeProfits : Engine!PlaceMarket(id, c, n, ro, sl, tp)
    \/ \E id \in OrderIds, c \in Contracts, n \in Sizes, p \in Prices, ro, ioc \in BOOLEAN,
          sl \in Engine!Stops, tp \in TakeProfits :
            Engine!PlaceLimit(id, c, n, p, ro, sl, tp, ioc)
    \/ \E id \in OrderIds, c \in Contracts : Engine!CloseAll(id, c)
    \/ \E i \in DOMAIN book, p \in Prices : Engine!AmendOrder(i, p)
    \/ \E i \in DOMAIN book : Engine!CancelOrder(i)
    \/ \E c \in Contracts, sl \in Prices, tp \in TakeProfits : Engine!UpdateTpsl(c, sl, tp)
    \/ Engine!ResetAccount
  PROVE  Quiet' /\ Frozen /\ tick = Engine!Idle /\ tick' = Engine!Idle
  <1>1. Engine!Stops = Prices \cup {None}
    BY DEF Engine!Stops
  <1>2. ASSUME NEW id \in OrderIds, NEW c \in Contracts, NEW n \in Sizes, NEW ro \in BOOLEAN,
               NEW sl \in Engine!Stops, NEW tp \in TakeProfits,
               Engine!PlaceMarket(id, c, n, ro, sl, tp)
        PROVE  Quiet' /\ Frozen /\ tick = Engine!Idle /\ tick' = Engine!Idle
    <2>1. tick = Engine!Idle /\ tick' = Engine!Idle
      BY <1>2 DEF Engine!PlaceMarket, Engine!Fresh
    <2>. QED BY <1>1, <1>2, <2>1, MarketKeeps
  <1>3. ASSUME NEW id \in OrderIds, NEW c \in Contracts, NEW n \in Sizes, NEW p \in Prices,
               NEW ro \in BOOLEAN, NEW ioc \in BOOLEAN, NEW sl \in Engine!Stops,
               NEW tp \in TakeProfits, Engine!PlaceLimit(id, c, n, p, ro, sl, tp, ioc)
        PROVE  Quiet' /\ Frozen /\ tick = Engine!Idle /\ tick' = Engine!Idle
    <2>1. tick = Engine!Idle /\ tick' = Engine!Idle
      BY <1>3 DEF Engine!PlaceLimit, Engine!Fresh
    <2>2. sl \in Prices \cup {None}
      BY <1>1
    <2>3. Quiet' /\ Frozen
      BY <1>3, <2>2, LimitKeeps
    <2>. QED BY <2>1, <2>3
  <1>4. ASSUME NEW id \in OrderIds, NEW c \in Contracts, Engine!CloseAll(id, c)
        PROVE  Quiet' /\ Frozen /\ tick = Engine!Idle /\ tick' = Engine!Idle
    <2>1. tick = Engine!Idle /\ tick' = Engine!Idle
      BY <1>4 DEF Engine!CloseAll, Engine!Fresh
    <2>. QED BY <1>4, <2>1, CloseKeeps
  <1>5. ASSUME NEW i \in DOMAIN book, NEW p \in Prices, Engine!AmendOrder(i, p)
        PROVE  Quiet' /\ Frozen /\ tick = Engine!Idle /\ tick' = Engine!Idle
    <2>1. tick = Engine!Idle /\ tick' = Engine!Idle
      BY <1>5 DEF Engine!AmendOrder
    <2>. QED BY <1>5, <2>1, AmendKeeps
  <1>6. ASSUME NEW i \in DOMAIN book, Engine!CancelOrder(i)
        PROVE  Quiet' /\ Frozen /\ tick = Engine!Idle /\ tick' = Engine!Idle
    <2>1. tick = Engine!Idle /\ tick' = Engine!Idle
      BY <1>6 DEF Engine!CancelOrder
    <2>. QED BY <1>6, <2>1, CancelOrderKeeps
  <1>7. ASSUME NEW c \in Contracts, NEW sl \in Prices, NEW tp \in TakeProfits,
               Engine!UpdateTpsl(c, sl, tp)
        PROVE  Quiet' /\ Frozen /\ tick = Engine!Idle /\ tick' = Engine!Idle
    <2>1. tick = Engine!Idle /\ tick' = Engine!Idle
      BY <1>7 DEF Engine!UpdateTpsl
    <2>. QED BY <1>7, <2>1, UpdateKeeps
  <1>8. ASSUME Engine!ResetAccount
        PROVE  Quiet' /\ Frozen /\ tick = Engine!Idle /\ tick' = Engine!Idle
    <2>1. tick = Engine!Idle /\ tick' = Engine!Idle
      BY <1>8 DEF Engine!ResetAccount
    <2>. QED BY <1>8, <2>1, ResetKeeps
  <1>. QED BY <1>2, <1>3, <1>4, <1>5, <1>6, <1>7, <1>8

(* A step keeps the invariant and the closed orders, and a tick that it    *)
(* ends has left nothing due behind.                                       *)
LEMMA EngineStep ==
  ASSUME EngineAssumption, EngineInv, [Engine!Next]_(Engine!vars)
  PROVE  EngineInv' /\ Frozen /\ (tick # Engine!Idle /\ tick' = Engine!Idle => Settles)
  <1>1. Quiet /\ TickPlace /\ Scanning
    BY DEF EngineInv, Scanning
  <1>2. CASE UNCHANGED Engine!vars
    <2>1. UNCHANGED <<pos, snap, book, results, tpsl, tick, fillCount, overshot>>
      BY <1>2 DEF Engine!vars
    <2>2. Book' = Book /\ Open' = Open
      BY <2>1 DEF Book, Elements, Open
    <2>3. Quiet'
      <3>1. Shape' /\ ListedIsOpen' /\ Justified'
        BY <1>1, <2>1, <2>2 DEF Quiet, Shape, ListedIsOpen, Justified
      <3>2. Protected'
        BY <1>1, <2>1, ProtectedStays DEF Quiet
      <3>. QED BY <3>1, <3>2 DEF Quiet
    <2>4. TickPlace' /\ Ahead' /\ Stopped'
      BY <1>1, <2>1, <2>2 DEF Scanning, TickPlace, Ahead, Stopped, Engine!Crossed
    <2>5. Matched'
      BY <1>1, <2>1, <2>2 DEF Scanning, Matched, Engine!Crossed
    <2>6. Frozen
      BY <2>1 DEF Frozen
    <2>. QED BY <2>1, <2>3, <2>4, <2>5, <2>6 DEF EngineInv, Scanning
  <1>3. ASSUME Quiet', Frozen, Scanning', tick'.phase # "idle"
        PROVE  EngineInv' /\ Frozen /\ (tick # Engine!Idle /\ tick' = Engine!Idle => Settles)
    BY <1>3 DEF EngineInv, Engine!Idle
  <1>4. ASSUME NEW c \in Contracts, NEW s \in Snaps, Engine!Tick(c, s)
        PROVE  EngineInv' /\ Frozen /\ (tick # Engine!Idle /\ tick' = Engine!Idle => Settles)
    <2>1. Quiet' /\ Frozen /\ Scanning' /\ tick'.phase # "idle"
      BY <1>1, <1>4, TickKeeps
    <2>. QED BY <1>3, <2>1
  <1>5. CASE Engine!MatchOne
    <2>1. Quiet' /\ Frozen
      BY <1>1, <1>5, MatchKeeps
    <2>2. Scanning' /\ tick'.phase # "idle"
      BY <1>5, MatchScans
    <2>. QED BY <1>3, <2>1, <2>2
  <1>6. CASE Engine!MatchDone
    <2>1. Quiet' /\ Frozen /\ Scanning' /\ tick'.phase # "idle"
      BY <1>6, DoneScans
    <2>. QED BY <1>3, <2>1
  <1>7. CASE Engine!TriggerTpsl
    <2>1. Quiet' /\ Frozen /\ Scanning' /\ tick'.phase # "idle"
      BY <1>7, TriggerScans
    <2>. QED BY <1>3, <2>1
  <1>8. CASE Engine!CheckLiquidation
    <2>1. Quiet' /\ Frozen /\ tick' = Engine!Idle /\ Settles
      BY <1>8, LiquidationSettles
    <2>2. Scanning'
      BY <2>1, BetweenTicks
    <2>. QED BY <2>1, <2>2 DEF EngineInv
  <1>9. ASSUME
    \/ \E id \in OrderIds, c \in Contracts, n \in Sizes, ro \in BOOLEAN, sl \in Engine!Stops,
          tp \in TakeProfits : Engine!PlaceMarket(id, c, n, ro, sl, tp)
    \/ \E id \in OrderIds, c \in Contracts, n \in Sizes, p \in Prices, ro, ioc \in BOOLEAN,
          sl \in Engine!Stops, tp \in TakeProfits :
            Engine!PlaceLimit(id, c, n, p, ro, sl, tp, ioc)
    \/ \E id \in OrderIds, c \in Contracts : Engine!CloseAll(id, c)
    \/ \E i \in DOMAIN book, p \in Prices : Engine!AmendOrder(i, p)
    \/ \E i \in DOMAIN book : Engine!CancelOrder(i)
    \/ \E c \in Contracts, sl \in Prices, tp \in TakeProfits : Engine!UpdateTpsl(c, sl, tp)
    \/ Engine!ResetAccount
        PROVE  EngineInv' /\ Frozen /\ (tick # Engine!Idle /\ tick' = Engine!Idle => Settles)
    <2>1. Quiet' /\ Frozen /\ tick = Engine!Idle /\ tick' = Engine!Idle
      BY <1>1, <1>9, RequestsKeep
    <2>2. Scanning'
      BY <2>1, BetweenTicks
    <2>. QED BY <2>1, <2>2 DEF EngineInv
  <1>10. CASE Engine!Next
    BY <1>4, <1>5, <1>6, <1>7, <1>8, <1>9, <1>10, Zenon DEF Engine!Next
  <1>. QED BY <1>2, <1>10

(* The invariant holds throughout.                                         *)
LEMMA EngineSafe == Engine!Spec => []EngineInv
  <1>1. EngineAssumption
    BY EngineAssumption
  <1>2. Engine!Init => EngineInv
    BY <1>1, EngineInit
  <1>3. EngineInv /\ [Engine!Next]_(Engine!vars) => EngineInv'
    BY <1>1, EngineStep
  <1>. QED BY <1>2, <1>3, PTL DEF Engine!Spec

(* Type correctness of the engine: its book, listings, protection,         *)
(* positions and the place of a tick, for any contracts and prices.        *)
THEOREM EngineTyped == Engine!Spec => []Engine!TypeOK
  <1>1. EngineInv => Engine!TypeOK
    <2>1. ASSUME EngineInv PROVE Engine!TypeOK
      <3>1. Shape /\ TickPlace
        BY <2>1 DEF EngineInv, Quiet, Scanning
      <3>. QED BY <3>1 DEF Shape, TickPlace, Phases, Engine!TypeOK
    <2>. QED BY <2>1
  <1>. QED BY <1>1, EngineSafe, PTL

(* Between any requests and ticks of any length, the orders the engine may *)
(* fill are those it lists as open, every stop and target belongs to the   *)
(* position that is there, and no position is without a stop unless an     *)
(* oversized reduce-only order has turned it.                              *)
THEOREM BooksFit == Engine!Spec => []BookHolds
  <1>1. EngineInv => BookHolds
    <2>1. ASSUME EngineInv PROVE BookHolds
      <3>1. Shape /\ Protected /\ ListedIsOpen
        BY <2>1 DEF EngineInv, Quiet
      <3>2. Engine!OpenIffListed
        BY <3>1, ListedMeans
      <3>. QED BY <3>1, <3>2 DEF BookHolds, Engine!BookHolds, Protected
    <2>. QED BY <2>1
  <1>. QED BY <1>1, EngineSafe, PTL

(* The scan of a tick runs over a copy of the book made before its first   *)
(* fill: no order that was filled or cancelled is filled again or changes  *)
(* its listing, and when the tick is over no order of its contract crosses *)
(* the quote and no stop that the mark has passed is left.                 *)
THEOREM TicksSettle == Engine!Spec => ScansSettle
  <1>1. EngineAssumption
    BY EngineAssumption
  <1>2. EngineInv /\ EngineInv' /\ [Engine!Next]_(Engine!vars)
          => /\ [\A i \in OrderIds : results[i] # None /\ results[i].status # "open" =>
                   results'[i] = results[i] /\ fillCount'[i] = fillCount[i]]_(Engine!vars)
             /\ [tick # Engine!Idle /\ tick' = Engine!Idle =>
                   LET c == tick.contract IN
                   /\ \A o \in Engine!ToSet(book') : o.contract = c => ~Engine!Crossed(o)
                   /\ pos'[c] # 0 =>
                        \A t \in tpsl' : t.contract = c /\ t.kind = "stop_loss" =>
                          t.direction * (t.trigger - snap[c].mark) < 0]_(Engine!vars)
    <2>1. ASSUME EngineInv, EngineInv', [Engine!Next]_(Engine!vars)
          PROVE  /\ \A i \in OrderIds : results[i] # None /\ results[i].status # "open" =>
                      results'[i] = results[i] /\ fillCount'[i] = fillCount[i]
                 /\ tick # Engine!Idle /\ tick' = Engine!Idle =>
                      /\ \A o \in Engine!ToSet(book') :
                           o.contract = tick.contract => ~Engine!Crossed(o)
                      /\ pos'[tick.contract] # 0 =>
                           \A t \in tpsl' : t.contract = tick.contract /\ t.kind = "stop_loss" =>
                             t.direction * (t.trigger - snap[tick.contract].mark) < 0
      <3>1. Frozen /\ (tick # Engine!Idle /\ tick' = Engine!Idle => Settles)
        BY <1>1, <2>1, EngineStep
      <3>2. Engine!ToSet(book') = Book'
        <4>1. book' \in Seq(Engine!Order)
          BY <2>1 DEF EngineInv, Quiet, Shape
        <4>. QED BY <4>1, ToSetIsElements DEF Book
      <3>. QED BY <3>1, <3>2, Zenon DEF Frozen, Settles
    <2>. QED BY <2>1
  <1>. QED BY <1>2, EngineSafe, PTL
       DEF Engine!Spec, ScansSettle, Engine!ScansSettle, Engine!FinishedIsFinal,
           Engine!TickSettles
=============================================================================
