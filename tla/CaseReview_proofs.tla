-------------------------- MODULE CaseReview_proofs --------------------------
(***************************************************************************)
(* A case is reviewed once for each authorisation, for any number of       *)
(* cases, listings, requests and faults.                                   *)
(*                                                                         *)
(* What makes it so is what a draft knows when it is saved: it was checked *)
(* when it was submitted, and since then no review has been added and no   *)
(* authorisation used, because only the transaction that saves it does so  *)
(* and that ends the round (DraftsFit).  The drafts are saved as a         *)
(* sequence in which each occurs once (DraftsInTurn).                      *)
(***************************************************************************)
EXTENDS CaseReview, FiniteSetTheorems, SequenceTheorems, WellFoundedInduction, TLAPS

-----------------------------------------------------------------------------
(* The inductive invariant.                                                *)
Row     == [case : Cases, req : Nat, of : Nat]
Request == [case : Cases, used : BOOLEAN]
Draft   == [req : Nat, of : Nat]

Stored ==
  /\ reviews \in Seq(Row) /\ requests \in Seq(Request)
  /\ pend \in [Cases -> {NoDraft} \cup Draft]
  /\ asking \subseteq Cases \X Nat

(* The authorisation of a later review is used, and was given for its case.*)
Answered == \A i \in DOMAIN reviews : reviews[i].req # 0 =>
  /\ reviews[i].req \in DOMAIN requests
  /\ requests[reviews[i].req].used /\ requests[reviews[i].req].case = reviews[i].case

Chained == \A i, j \in DOMAIN reviews : i < j /\ reviews[i].case = reviews[j].case =>
  /\ reviews[j].req # 0 /\ reviews[j].req # reviews[i].req
  /\ reviews[j].of >= i

UsedForOne == \A r \in DOMAIN requests :
  requests[r].used => \E i \in DOMAIN reviews : reviews[i].req = r

OneOpen == \A r, s \in DOMAIN requests :
  requests[r].case = requests[s].case /\ ~requests[r].used /\ ~requests[s].used => r = s

(* A draft is a first review of its case, or has an open authorisation and *)
(* refers to the last review there is.                                     *)
First(c) == pend[c].req = 0 /\ \A j \in DOMAIN reviews : reviews[j].case # c
Later(c) ==
  /\ pend[c].req \in DOMAIN requests
  /\ requests[pend[c].req].case = c /\ ~requests[pend[c].req].used
  /\ \A j \in DOMAIN reviews : reviews[j].case = c => j <= pend[c].of
DraftsFit == \A c \in Cases : pend[c] # NoDraft => First(c) \/ Later(c)

IInv == Stored /\ Answered /\ Chained /\ UsedForOne /\ OneOpen /\ DraftsFit

-----------------------------------------------------------------------------
Nothing == [c \in Cases |-> NoDraft]

LEMMA DraftShape == NoDraft \notin Draft /\ NoDraft.req = -1
  BY DEF NoDraft, Draft

LEMMA AtFirst == Init => IInv
  <1> SUFFICES ASSUME Init PROVE IInv
    OBVIOUS
  <1>1. reviews = <<>> /\ requests = <<>> /\ asking = {} /\ pend = Nothing
    BY DEF Init, Nothing
  <1>2. Stored
    BY <1>1 DEF Stored, Nothing
  <1> QED
    BY <1>1, <1>2 DEF IInv, Answered, Chained, UsedForOne, OneOpen, DraftsFit, Nothing

(* A step that touches none of the rows, and no draft or all of them.      *)
LEMMA RowsStay ==
  ASSUME IInv, reviews' = reviews, requests' = requests, pend' = pend \/ pend' = Nothing,
         asking' \subseteq Cases \X Nat
  PROVE  IInv'
  <1>1. Stored'
    BY DEF IInv, Stored, Nothing
  <1>2. Answered' /\ Chained' /\ UsedForOne' /\ OneOpen'
    BY DEF IInv, Answered, Chained, UsedForOne, OneOpen
  <1>3. DraftsFit'
    <2>1. CASE pend' = pend
      BY <2>1 DEF IInv, DraftsFit, First, Later
    <2>2. CASE pend' = Nothing
      BY <2>2 DEF DraftsFit, Nothing
    <2> QED
      BY <2>1, <2>2
  <1> QED
    BY <1>1, <1>2, <1>3 DEF IInv

LEMMA InsertHolds ==
  ASSUME IInv, InsertRequest
  PROVE  IInv'
  <1> PICK post \in asking :
        /\ asking' = asking \ {post}
        /\ requests' = IF CreateRequest(post[1])
                       THEN Append(requests, [case |-> post[1], used |-> FALSE]) ELSE requests
    BY DEF InsertRequest
  <1>1. reviews' = reviews /\ pend' = pend
    BY DEF InsertRequest, roundVars
  <1>2. asking' \subseteq Cases \X Nat /\ post[1] \in Cases
    BY DEF IInv, Stored
  <1>3. CASE ~CreateRequest(post[1])
    BY <1>1, <1>2, <1>3, RowsStay
  <1>4. CASE CreateRequest(post[1])
    <2> DEFINE new == [case |-> post[1], used |-> FALSE]
               n == Len(requests)
    <2>1. requests \in Seq(Request) /\ new \in Request /\ n \in Nat
      BY <1>2 DEF IInv, Stored, Request
    <2>2. /\ requests' = Append(requests, new) /\ requests' \in Seq(Request)
          /\ DOMAIN requests = 1..n /\ DOMAIN requests' = 1..(n + 1)
          /\ requests'[n + 1] = new /\ \A r \in 1..n : requests'[r] = requests[r]
      BY <1>4, <2>1
    <2>3. \A r \in 1..n : ~(requests[r].case = post[1] /\ ~requests[r].used)
      BY <1>4, <2>2 DEF CreateRequest, OpenRequests
    <2>4. new.case = post[1] /\ new.used = FALSE
      OBVIOUS
    <2> HIDE DEF new, n
    <2>5. \A r \in 1..(n + 1) : r \in 1..n \/ r = n + 1
      BY <2>1
    <2>6. \A r \in 1..n : r \in 1..(n + 1)
      BY <2>1
    <2>7. Stored'
      BY <1>1, <1>2, <2>2 DEF IInv, Stored
    <2>8. Answered'
      BY <1>1, <2>2, <2>6 DEF IInv, Answered
    <2>9. Chained'
      BY <1>1 DEF IInv, Chained
    <2>10. UsedForOne'
      BY <1>1, <2>2, <2>4, <2>5 DEF IInv, UsedForOne
    <2>11. OneOpen'
      BY <2>2, <2>3, <2>4, <2>5 DEF IInv, OneOpen
    <2>12. DraftsFit'
      <3> SUFFICES ASSUME NEW c \in Cases, pend[c] # NoDraft
                   PROVE  First(c)' \/ Later(c)'
        BY <1>1 DEF DraftsFit
      <3>1. First(c) \/ Later(c)
        BY DEF IInv, DraftsFit
      <3>2. First(c) => First(c)'
        BY <1>1 DEF First
      <3>3. Later(c) => Later(c)'
        BY <1>1, <2>2, <2>6 DEF Later
      <3> QED
        BY <3>1, <3>2, <3>3
    <2> QED
      BY <2>7, <2>8, <2>9, <2>10, <2>11, <2>12 DEF IInv
  <1> QED
    BY <1>3, <1>4

(* A draft that fits.                                                      *)
LEMMA StagedHolds ==
  ASSUME IInv, NEW c \in Cases, NEW draft \in Draft, Staged(c, draft),
         \/ draft.req = 0 /\ \A j \in DOMAIN reviews : reviews[j].case # c
         \/ /\ draft.req \in DOMAIN requests
            /\ requests[draft.req].case = c /\ ~requests[draft.req].used
            /\ \A j \in DOMAIN reviews : reviews[j].case = c => j <= draft.of
  PROVE  IInv'
  <1>1. /\ reviews' = reviews /\ requests' = requests /\ asking' = asking
        /\ pend' = [pend EXCEPT ![c] = draft]
    BY DEF Staged
  <1>2. pend \in [Cases -> {NoDraft} \cup Draft]
    BY DEF IInv, Stored
  <1>3. pend'[c] = draft /\ \A d \in Cases : d # c => pend'[d] = pend[d]
    BY <1>1, <1>2
  <1>4. Stored'
    BY <1>1, <1>2 DEF IInv, Stored
  <1>5. Answered' /\ Chained' /\ UsedForOne' /\ OneOpen'
    BY <1>1 DEF IInv, Answered, Chained, UsedForOne, OneOpen
  <1>6. DraftsFit'
    <2> SUFFICES ASSUME NEW d \in Cases, pend'[d] # NoDraft
                 PROVE  First(d)' \/ Later(d)'
      BY DEF DraftsFit
    <2>1. CASE d = c
      BY <1>1, <1>3, <2>1 DEF First, Later
    <2>2. CASE d # c
      BY <1>1, <1>3, <2>2 DEF IInv, DraftsFit, First, Later
    <2> QED
      BY <2>1, <2>2
  <1> QED
    BY <1>4, <1>5, <1>6 DEF IInv

(* A non-empty set of numbers has a smallest one.                          *)
LEMMA LeastNumber ==
  ASSUME NEW T \in SUBSET Nat, T # {}
  PROVE  \E m \in T : \A n \in T : m <= n
  <1>1. IsWellFoundedOn(OpToRel(<, Nat), Nat)
    BY NatLessThanWellFounded
  <1>2. T \subseteq Nat
    OBVIOUS
  <1>3. \E m \in T : \A n \in T : ~ (<<n, m>> \in OpToRel(<, Nat))
    BY <1>1, <1>2, WFMin, Zenon
  <1>4. PICK m \in T : \A n \in T : ~ (<<n, m>> \in OpToRel(<, Nat))
    BY <1>3
  <1>5. ASSUME NEW n \in T PROVE m <= n
    <2>1. n \in Nat /\ m \in Nat
      BY <1>2
    <2>2. ~ (n < m)
      BY <1>4, <2>1, Zenon DEF OpToRel
    <2>. QED BY <2>1, <2>2
  <1>. QED BY <1>5

-----------------------------------------------------------------------------
(* The last review of a case.                                              *)
LEMMA LargestPlace ==
  ASSUME NEW n \in Nat, NEW T \in SUBSET (1..n), T # {}
  PROVE  \E m \in T : \A k \in T : k <= m
  <1> DEFINE U == {n - t : t \in T}
  <1>1. U \in SUBSET Nat /\ U # {}
    <2>1. \A t \in T : n - t \in Nat
      OBVIOUS
    <2>2. \E t \in T : n - t \in U
      OBVIOUS
    <2> QED
      BY <2>1, <2>2
  <1>2. PICK u \in U : \A v \in U : u <= v
    <2> HIDE DEF U
    <2> QED
      BY <1>1, LeastNumber
  <1>3. PICK m \in T : u = n - m
    BY <1>2
  <1>4. ASSUME NEW k \in T PROVE k <= m
    <2>1. n - k \in U
      OBVIOUS
    <2>2. u <= n - k
      BY <1>2, <2>1
    <2>3. k \in Nat /\ m \in Nat
      OBVIOUS
    <2> QED
      BY <1>3, <2>2, <2>3
  <1> QED
    BY <1>4

LEMMA LatestIsLast ==
  ASSUME IInv, NEW c \in Cases, HasReview(c)
  PROVE  /\ LatestReview(c) \in Nat
         /\ \A j \in DOMAIN reviews : reviews[j].case = c => j <= LatestReview(c)
  <1> DEFINE rows == {i \in DOMAIN reviews : reviews[i].case = c}
  <1>1. Len(reviews) \in Nat /\ DOMAIN reviews = 1..Len(reviews)
    BY DEF IInv, Stored
  <1>2. rows \in SUBSET (1..Len(reviews)) /\ rows # {}
    BY <1>1 DEF HasReview
  <1>3. \E i \in rows : \A j \in rows : j <= i
    <2> HIDE DEF rows
    <2> QED
      BY <1>1, <1>2, LargestPlace
  <1>4. LatestReview(c) = CHOOSE i \in rows : \A j \in rows : j <= i
    BY <1>2 DEF LatestReview
  <1>5. LatestReview(c) \in rows /\ \A j \in rows : j <= LatestReview(c)
    BY <1>3, <1>4
  <1> QED
    BY <1>1, <1>5

LEMMA SubmitHolds ==
  ASSUME IInv, NEW c \in Cases, SubmitReview(c) \/ SubmitRereview(c)
  PROVE  IInv'
  <1>1. CASE SubmitReview(c)
    <2> DEFINE draft == [req |-> 0, of |-> 0]
    <2>1. Staged(c, draft) /\ ~HasReview(c) /\ draft \in Draft /\ draft.req = 0
      BY <1>1 DEF SubmitReview, Draft
    <2>2. \A j \in DOMAIN reviews : reviews[j].case # c
      BY <2>1 DEF HasReview
    <2> HIDE DEF draft
    <2> QED
      BY <2>1, <2>2, StagedHolds
  <1>2. CASE SubmitRereview(c)
    <2> PICK r \in OpenRequests(c) : Staged(c, [req |-> r, of |-> LatestReview(c)])
      BY <1>2 DEF SubmitRereview
    <2> DEFINE draft == [req |-> r, of |-> LatestReview(c)]
    <2>1. r \in DOMAIN requests /\ requests[r].case = c /\ ~requests[r].used /\ r \in Nat
      BY DEF OpenRequests, IInv, Stored
    <2>2. /\ LatestReview(c) \in Nat
          /\ \A j \in DOMAIN reviews : reviews[j].case = c => j <= LatestReview(c)
      BY <1>2, LatestIsLast DEF SubmitRereview
    <2>3. Staged(c, draft) /\ draft \in Draft /\ draft.req = r /\ draft.of = LatestReview(c)
      BY <2>1, <2>2 DEF Draft
    <2> HIDE DEF draft
    <2> QED
      BY <2>1, <2>2, <2>3, StagedHolds
  <1> QED
    BY <1>1, <1>2

-----------------------------------------------------------------------------
(* The bundle.  Its reviews are the drafts, each of them once.             *)
Drafted == {c \in Cases : pend[c] # NoDraft}

LEMMA DraftsInTurn ==
  /\ Drafts \in Seq(Drafted) /\ Len(Drafts) \in Nat /\ DOMAIN Drafts = 1..Len(Drafts)
  /\ \A k, l \in DOMAIN Drafts : Drafts[k] = Drafts[l] => k = l
  /\ \A c \in Drafted : \E k \in DOMAIN Drafts : Drafts[k] = c
  <1> DEFINE n == Cardinality(Drafted)
  <1>1. IsFiniteSet(Drafted) /\ n \in Nat
    <2>1. IsFiniteSet(Cases)
      BY FS_Interval, CaseReviewAssumption DEF Cases
    <2>2. Drafted \subseteq Cases
      BY DEF Drafted
    <2> QED
      BY <2>1, <2>2, FS_Subset, FS_CardinalityType
  <1>2. \E f \in [1..n -> Drafted] : IsInjective(f)
    <2>1. ExistsBijection(1..n, Drafted)
      BY <1>1, FS_CardinalityType
    <2> QED
      BY <2>1 DEF ExistsBijection, Bijection, Injection
  <1>3. Drafts = CHOOSE f \in [1..n -> Drafted] : IsInjective(f)
    BY DEF Drafts, SetToSeq, Drafted
  <1>4. Drafts \in [1..n -> Drafted] /\ IsInjective(Drafts)
    BY <1>2, <1>3
  <1>5. Drafts \in Surjection(1..n, Drafted)
    <2>1. Drafts \in Injection(1..n, Drafted)
      BY <1>4 DEF Injection
    <2>2. Cardinality(1..n) = n
      BY <1>1, FS_Interval
    <2> QED
      BY <1>1, <2>1, <2>2, FS_Injection
  <1>6. \A c \in Drafted : \E k \in 1..n : Drafts[k] = c
    BY <1>5 DEF Surjection
  <1> HIDE DEF n
  <1>7. Drafts \in Seq(Drafted) /\ DOMAIN Drafts = 1..n /\ Len(Drafts) = n
    BY <1>1, <1>4, SeqDef
  <1> QED
    BY <1>1, <1>4, <1>6, <1>7 DEF IsInjective

LEMMA SaveHolds ==
  ASSUME IInv, SaveBundle
  PROVE  IInv'
  <1> DEFINE n == Len(reviews)
             m == Len(Drafts)
             rows == [k \in DOMAIN Drafts |-> DraftRow(Drafts[k])]
  <1>1. /\ reviews' = reviews \o rows
        /\ requests' = [i \in DOMAIN requests |-> Consumed(i)]
        /\ pend' = Nothing /\ asking' = asking
    BY DEF SaveBundle, FreshDeps, Nothing
  <1>2. /\ reviews \in Seq(Row) /\ n \in Nat /\ DOMAIN reviews = 1..n
        /\ requests \in Seq(Request) /\ Len(requests) \in Nat
        /\ DOMAIN requests = 1..Len(requests)
        /\ pend \in [Cases -> {NoDraft} \cup Draft]
    BY DEF IInv, Stored
  <1>3. /\ Drafts \in Seq(Drafted) /\ m \in Nat /\ DOMAIN Drafts = 1..m
        /\ \A k, l \in 1..m : Drafts[k] = Drafts[l] => k = l
        /\ \A c \in Drafted : \E k \in 1..m : Drafts[k] = c
    BY DraftsInTurn
  <1>4. \A k \in 1..m : Drafts[k] \in Drafted
    BY <1>3
  <1>5. ASSUME NEW c \in Drafted
        PROVE  /\ c \in Cases /\ pend[c] \in Draft /\ (First(c) \/ Later(c))
               /\ DraftRow(c) \in Row /\ DraftRow(c).case = c
               /\ DraftRow(c).req = pend[c].req /\ DraftRow(c).of = pend[c].of
               /\ pend[c].req \in Nat
    <2>1. c \in Cases /\ pend[c] # NoDraft
      BY DEF Drafted
    <2>2. pend[c] \in Draft
      BY <1>2, <2>1
    <2>3. pend[c].req \in Nat /\ pend[c].of \in Nat
      BY <2>2 DEF Draft
    <2>4. /\ DraftRow(c) \in Row /\ DraftRow(c).case = c
          /\ DraftRow(c).req = pend[c].req /\ DraftRow(c).of = pend[c].of
      BY <2>1, <2>3 DEF DraftRow, Row
    <2>5. First(c) \/ Later(c)
      BY <2>1 DEF IInv, DraftsFit
    <2> QED
      BY <2>1, <2>2, <2>3, <2>4, <2>5
  <1>6. rows \in Seq(Row) /\ Len(rows) = m /\ \A k \in 1..m : rows[k] = DraftRow(Drafts[k])
    <2>1. \A k \in 1..m : DraftRow(Drafts[k]) \in Row
      BY <1>4, <1>5
    <2>2. rows \in [1..m -> Row]
      BY <1>3, <2>1
    <2> QED
      BY <1>3, <2>2, SeqDef
  <1> HIDE DEF rows
  <1>7. /\ reviews' \in Seq(Row) /\ DOMAIN reviews' = 1..(n + m)
        /\ \A i \in 1..n : reviews'[i] = reviews[i]
        /\ \A k \in 1..m : reviews'[n + k] = DraftRow(Drafts[k])
    <2>1. reviews' \in Seq(Row) /\ Len(reviews') = n + m
      <3>1. /\ reviews \o rows \in Seq(Row)
            /\ Len(reviews \o rows) = Len(reviews) + Len(rows)
        BY <1>2, <1>6, ConcatProperties
      <3> QED
        BY <1>1, <1>6, <3>1
    <2>2. DOMAIN reviews' = 1..(n + m)
      BY <1>2, <2>1
    <2>3. \A i \in 1..n : reviews'[i] = reviews[i]
      BY <1>1, <1>2, <1>3, <1>6
    <2>4. ASSUME NEW k \in 1..m
          PROVE  reviews'[n + k] = DraftRow(Drafts[k])
      <3>1. n + k \in 1..(n + m) /\ n + k > n /\ (n + k) - n = k
        BY <1>2, <1>3
      <3>2. reviews'[n + k] = rows[k]
        BY <1>1, <1>2, <1>3, <1>6, <3>1
      <3> QED
        BY <1>6, <3>2
    <2> QED
      BY <2>1, <2>2, <2>3, <2>4
  <1>8. ASSUME NEW i \in 1..(n + m)
        PROVE  i \in 1..n \/ \E k \in 1..m : i = n + k
    <2>1. CASE i <= n
      BY <1>2, <1>3, <2>1
    <2>2. CASE i > n
      <3>1. i - n \in 1..m /\ i = n + (i - n)
        BY <1>2, <1>3, <2>2
      <3> QED
        BY <3>1
    <2> QED
      BY <1>2, <1>3, <2>1, <2>2
  <1>9. ASSUME NEW r \in 1..Len(requests)
        PROVE  /\ requests'[r] \in Request /\ requests'[r].case = requests[r].case
               /\ requests'[r].used <=> requests[r].used \/ \E c \in Cases : pend[c].req = r
    <2>1. requests[r] \in Request /\ requests'[r] = Consumed(r)
      BY <1>1, <1>2
    <2> DEFINE used == requests[r].used \/ \E c \in Cases : pend[c].req = r
    <2>2. Consumed(r) = [requests[r] EXCEPT !.used = used] /\ used \in BOOLEAN
      BY DEF Consumed
    <2> HIDE DEF used
    <2>3. DOMAIN requests[r] = {"case", "used"} /\ requests[r].case \in Cases
      BY <2>1 DEF Request
    <2>4. Consumed(r) = [case |-> requests[r].case, used |-> used]
      BY <2>1, <2>2, <2>3 DEF Request
    <2>5. Consumed(r) \in Request /\ Consumed(r).case = requests[r].case /\ Consumed(r).used = used
      BY <2>2, <2>3, <2>4 DEF Request
    <2> QED
      BY <2>1, <2>5 DEF used
  <1>10. DOMAIN requests' = 1..Len(requests) /\ requests' \in Seq(Request)
    <2>1. DOMAIN requests' = 1..Len(requests)
      BY <1>1, <1>2
    <2>2. requests' = [r \in 1..Len(requests) |-> requests'[r]]
      BY <1>1, <1>2
    <2>3. requests' \in [1..Len(requests) -> Request]
      BY <1>9, <2>2
    <2> QED
      BY <1>2, <2>1, <2>3, SeqDef
  <1> HIDE DEF n, m
  (* What was there is not disturbed, and what is new has been free.       *)
  <1>11. ASSUME NEW r \in 1..Len(requests), requests[r].used
         PROVE  requests'[r].used
    BY <1>9, <1>11
  <1>12. ASSUME NEW c \in Drafted, pend[c].req # 0
         PROVE  /\ pend[c].req \in 1..Len(requests) /\ ~requests[pend[c].req].used
                /\ requests[pend[c].req].case = c
                /\ requests'[pend[c].req].used /\ requests'[pend[c].req].case = c
                /\ \A j \in 1..n : reviews[j].case = c => j <= pend[c].of
    <2>1. Later(c) /\ c \in Cases
      BY <1>5, <1>12 DEF First
    <2>2. /\ pend[c].req \in 1..Len(requests) /\ ~requests[pend[c].req].used
          /\ requests[pend[c].req].case = c
          /\ \A j \in 1..n : reviews[j].case = c => j <= pend[c].of
      BY <1>2, <2>1 DEF Later
    <2> QED
      BY <1>9, <2>1, <2>2
  <1>13. Stored'
    BY <1>1, <1>7, <1>10 DEF IInv, Stored, Nothing
  <1>14. Answered'
    <2> SUFFICES ASSUME NEW i \in 1..(n + m), reviews'[i].req # 0
                 PROVE  /\ reviews'[i].req \in 1..Len(requests)
                        /\ requests'[reviews'[i].req].used
                        /\ requests'[reviews'[i].req].case = reviews'[i].case
      BY <1>7, <1>10 DEF Answered
    <2>1. CASE i \in 1..n
      <3>1. reviews'[i] = reviews[i]
        BY <1>7, <2>1
      <3>2. /\ reviews[i].req \in 1..Len(requests)
            /\ requests[reviews[i].req].used /\ requests[reviews[i].req].case = reviews[i].case
        BY <1>2, <2>1, <3>1 DEF IInv, Answered
      <3> QED
        BY <1>9, <3>1, <3>2
    <2>2. ASSUME NEW k \in 1..m, i = n + k
          PROVE  /\ reviews'[i].req \in 1..Len(requests)
                 /\ requests'[reviews'[i].req].used
                 /\ requests'[reviews'[i].req].case = reviews'[i].case
      <3>1. reviews'[i] = DraftRow(Drafts[k])
        BY <1>7, <2>2
      <3>2. Drafts[k] \in Drafted
        BY <1>4
      <3> QED
        BY <1>5, <1>12, <3>1, <3>2
    <2> QED
      BY <1>8, <2>1, <2>2
  <1>15. Chained'
    <2> SUFFICES ASSUME NEW i \in 1..(n + m), NEW j \in 1..(n + m), i < j,
                        reviews'[i].case = reviews'[j].case
                 PROVE  /\ reviews'[j].req # 0 /\ reviews'[j].req # reviews'[i].req
                        /\ reviews'[j].of >= i
      BY <1>7 DEF Chained
    <2>1. CASE j \in 1..n
      <3>1. i \in 1..n
        BY <1>2, <2>1
      <3>2. reviews'[i] = reviews[i] /\ reviews'[j] = reviews[j]
        BY <1>7, <2>1, <3>1
      <3> QED
        BY <1>2, <2>1, <3>1, <3>2 DEF IInv, Chained
    <2>2. ASSUME NEW l \in 1..m, j = n + l
          PROVE  /\ reviews'[j].req # 0 /\ reviews'[j].req # reviews'[i].req
                 /\ reviews'[j].of >= i
      <3> DEFINE c == Drafts[l]
      <3>1. /\ c \in Drafted /\ reviews'[j] = DraftRow(c)
        BY <1>4, <1>7, <2>2
      <3>2. /\ reviews'[j].case = c /\ reviews'[j].req = pend[c].req
            /\ reviews'[j].of = pend[c].of /\ (First(c) \/ Later(c))
        BY <1>5, <3>1
      <3>3. CASE i \in 1..n
        <4>1. reviews'[i] = reviews[i] /\ reviews[i].case = c
          BY <1>7, <3>2, <3>3
        <4>2. ~First(c) /\ Later(c)
          BY <1>2, <3>2, <3>3, <4>1 DEF First
        <4>3. pend[c].req # 0
          BY <1>2, <4>2 DEF Later
        <4>4. i <= pend[c].of /\ pend[c].of \in Nat /\ i \in Nat /\ ~requests[pend[c].req].used
          BY <1>2, <1>5, <1>12, <3>1, <3>3, <4>1, <4>3 DEF Draft
        <4>5. reviews[i].req # 0 => requests[reviews[i].req].used
          BY <1>2, <3>3 DEF IInv, Answered
        <4>6. reviews[i].req # pend[c].req
          BY <4>3, <4>4, <4>5
        <4>7. pend[c].of >= i
          BY <4>4
        <4> QED
          BY <3>2, <4>1, <4>3, <4>6, <4>7
      <3>4. ASSUME NEW k \in 1..m, i = n + k
            PROVE  FALSE
        <4>1. Drafts[k] \in Drafted /\ reviews'[i] = DraftRow(Drafts[k])
          BY <1>4, <1>7, <3>4
        <4>2. Drafts[k] = Drafts[l]
          BY <1>5, <3>2, <4>1
        <4>3. k = l
          BY <1>3, <4>2
        <4> QED
          BY <1>2, <1>3, <2>2, <3>4, <4>3
      <3> QED
        BY <1>8, <3>3, <3>4
    <2> QED
      BY <1>8, <2>1, <2>2
  <1>16. UsedForOne'
    <2> SUFFICES ASSUME NEW r \in 1..Len(requests), requests'[r].used
                 PROVE  \E i \in 1..(n + m) : reviews'[i].req = r
      BY <1>7, <1>10 DEF UsedForOne
    <2>1. CASE requests[r].used
      <3> PICK i \in 1..n : reviews[i].req = r
        BY <1>2, <2>1 DEF IInv, UsedForOne
      <3>1. i \in 1..(n + m) /\ reviews'[i] = reviews[i]
        BY <1>2, <1>3, <1>7
      <3> QED
        BY <3>1
    <2>2. ASSUME NEW c \in Cases, pend[c].req = r
          PROVE  \E i \in 1..(n + m) : reviews'[i].req = r
      <3>1. pend[c] # NoDraft
        BY <2>2, DraftShape
      <3>2. c \in Drafted
        BY <3>1 DEF Drafted
      <3> PICK k \in 1..m : Drafts[k] = c
        BY <1>3, <3>2
      <3>3. n + k \in 1..(n + m) /\ reviews'[n + k] = DraftRow(c)
        BY <1>2, <1>3, <1>7
      <3>4. reviews'[n + k].req = r
        BY <1>5, <2>2, <3>2, <3>3
      <3> QED
        BY <3>3, <3>4
    <2> QED
      BY <1>9, <2>1, <2>2
  <1>17. OneOpen'
    <2> SUFFICES ASSUME NEW r \in 1..Len(requests), NEW s \in 1..Len(requests),
                        requests'[r].case = requests'[s].case,
                        ~requests'[r].used, ~requests'[s].used
                 PROVE  r = s
      BY <1>10 DEF OneOpen
    <2>1. ~requests[r].used /\ ~requests[s].used /\ requests[r].case = requests[s].case
      BY <1>9
    <2> QED
      BY <1>2, <2>1 DEF IInv, OneOpen
  <1>18. DraftsFit'
    BY <1>1 DEF DraftsFit, Nothing
  <1> QED
    BY <1>13, <1>14, <1>15, <1>16, <1>17, <1>18 DEF IInv

-----------------------------------------------------------------------------
LEMMA CasesStep == IInv /\ [Next]_vars => IInv'
  <1> SUFFICES ASSUME IInv, [Next]_vars
               PROVE  IInv'
    OBVIOUS
  <1>1. asking \subseteq Cases \X Nat
    BY DEF IInv, Stored
  <1>2. CASE BecomeDue \/ UNCHANGED vars
    BY <1>1, <1>2, RowsStay DEF BecomeDue, vars, roundVars
  <1>3. CASE BeginRound \/ RoundFails
    <2>1. reviews' = reviews /\ requests' = requests /\ pend' = Nothing /\ asking' = asking
      BY <1>3 DEF BeginRound, RoundFails, FreshDeps, Nothing
    <2> QED
      BY <1>1, <2>1, RowsStay
  <1>4. CASE InsertRequest
    BY <1>4, InsertHolds
  <1>5. CASE SaveBundle
    BY <1>5, SaveHolds
  <1>6. ASSUME NEW c \in Cases, Outcome(c) \/ AskRereview(c) \/ ReadCase(c)
        PROVE  IInv'
    <2>1. reviews' = reviews /\ requests' = requests /\ pend' = pend
      BY <1>6 DEF Outcome, AskRereview, ReadCase, roundVars
    <2>2. asking' \subseteq Cases \X Nat
      <3>1. CASE AskRereview(c)
        <4> PICK k \in 1..MaxRequests : asking' = asking \cup {<<c, k>>}
          BY <3>1 DEF AskRereview
        <4>1. k \in Nat
          BY CaseReviewAssumption
        <4> QED
          BY <1>1, <4>1
      <3>2. CASE Outcome(c) \/ ReadCase(c)
        BY <1>1, <3>2 DEF Outcome, ReadCase
      <3> QED
        BY <1>6, <3>1, <3>2
    <2> QED
      BY <2>1, <2>2, RowsStay
  <1>7. ASSUME NEW c \in Cases, SubmitReview(c) \/ SubmitRereview(c)
        PROVE  IInv'
    BY <1>7, SubmitHolds
  <1>8. ASSUME NEW limit \in Limits, ListCandidates(limit)
        PROVE  IInv'
    <2>1. reviews' = reviews /\ requests' = requests /\ pend' = pend /\ asking' = asking
      BY <1>8 DEF ListCandidates
    <2> QED
      BY <1>1, <2>1, RowsStay
  <1> QED
    BY <1>2, <1>3, <1>4, <1>5, <1>6, <1>7, <1>8 DEF Next

LEMMA Authorised == IInv => AuthorisedOnce
  <1> SUFFICES ASSUME IInv PROVE AuthorisedOnce
    OBVIOUS
  <1>1. /\ DOMAIN reviews = 1..Len(reviews) /\ Len(reviews) \in Nat
        /\ \A i \in DOMAIN reviews : reviews[i].case \in Cases
    <2>1. \A i \in DOMAIN reviews : reviews[i] \in Row
      BY DEF IInv, Stored
    <2> QED
      BY <2>1 DEF IInv, Stored, Row
  <1>2. ASSUME NEW i \in DOMAIN reviews, NEW j \in DOMAIN reviews, i < j,
               reviews[i].case = reviews[j].case
        PROVE  /\ reviews[j].req # 0 /\ reviews[j].req # reviews[i].req
               /\ requests[reviews[j].req].used
               /\ requests[reviews[j].req].case = reviews[j].case
               /\ reviews[j].of >= i
    BY <1>2 DEF IInv, Chained, Answered
  <1>3. \A r \in DOMAIN requests : requests[r].used => \E i \in DOMAIN reviews : reviews[i].req = r
    BY DEF IInv, UsedForOne
  <1>4. ASSUME NEW c \in Cases
        PROVE  Cardinality(OpenRequests(c)) <= 1
    <2>1. \A r, s \in OpenRequests(c) : r = s
      BY DEF IInv, OneOpen, OpenRequests
    <2>2. CASE OpenRequests(c) = {}
      <3>1. Cardinality(OpenRequests(c)) = 0
        BY <2>2, FS_EmptySet
      <3> QED
        BY <3>1
    <2>3. ASSUME NEW r \in OpenRequests(c)
          PROVE  Cardinality(OpenRequests(c)) <= 1
      <3>1. OpenRequests(c) = {r}
        BY <2>1
      <3>2. Cardinality({r}) = 1
        BY FS_Singleton
      <3> QED
        BY <3>1, <3>2
    <2> QED
      BY <2>2, <2>3
  <1> QED
    BY <1>2, <1>3, <1>4 DEF AuthorisedOnce

(* Reviews of cases (submit_research_review, save_review_bundle): a case   *)
(* has one first review, every later one uses up an authorisation of its   *)
(* own and refers to the review before it, and no case has two open        *)
(* authorisations; for any number of cases, rounds, requests and faults.   *)
THEOREM CasesAuthorised == Spec => []AuthorisedOnce
  <1> QED
    BY AtFirst, CasesStep, Authorised, PTL DEF Spec
==============================================================================
