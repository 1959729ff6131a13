----------------------------- MODULE CaseReview -----------------------------
(***************************************************************************)
(* How the review agent finds and settles the conclusions of past research *)
(* reports (review/tool_research.py, tool_research_rereview.py,            *)
(* memory/research_review_repo.py, review/bundle.py).  A round pages       *)
(* through the conclusions that are due, in the order in which they became *)
(* due, from a cursor kept in the database: a lease in memory moves with   *)
(* every call, and only the transaction that saves the round's report      *)
(* acknowledges how far the round has got.  A conclusion that has been     *)
(* reviewed is reviewed again only on an authorisation of the operator,    *)
(* which that transaction consumes.                                        *)
(*                                                                         *)
(* A case is named by its place in the order of dues; 0 is a NULL cursor.  *)
(***************************************************************************)
EXTENDS Naturals, Sequences, FiniteSets, SequencesExt

CONSTANTS
  N,            \* conclusions
  Limits,       \* the limits the model may pass to a listing
  Budget,       \* MAX_CANDIDATE_SCAN
  MaxLists,     \* bound: listings in a round
  MaxFlips,     \* bound: changes of a case's market data
  Disputed,     \* bound: cases the operator may ask to be reviewed again
  MaxRequests,  \* bound: authorisations asked for
  MaxFaults     \* bound: transactions that fail

ASSUME CaseReviewAssumption ==
  /\ N \in Nat \ {0} /\ Limits \subseteq Nat \ {0} /\ Budget \in Nat \ {0}
  /\ Disputed \subseteq 1..N /\ MaxLists \in Nat /\ MaxFlips \in Nat /\ MaxRequests \in Nat /\ MaxFaults \in Nat

VARIABLES
  due,       \* the cases 1..due have reached the end of their window
  usable,    \* the cases whose candles meet the threshold
  flips,
  reviews,   \* the rows of research_reviews
  requests,  \* the rows of research_rereview_requests
  asking,    \* POSTs that have found no open request and not yet inserted one
  cursor,    \* research_review_scan_state
  open,      \* a review round is at work
  read,      \* loaded_research_cases
  pend,      \* pending_research_reviews, or NoDraft
  lease,     \* scan_cursor, or Unread before the first listing
  tail,      \* scan_tail
  log,       \* scan_log
  lists,     \* listings in this round
  offered,   \* the cases the model has been shown as candidates
  faults

scanVars  == <<lease, tail, log, lists, offered>>
roundVars == <<open, read, pend, scanVars>>
vars == <<due, usable, flips, reviews, requests, asking, cursor, roundVars, faults>>

Cases   == 1..N
Unread  == N + 1
NoDraft == [req |-> -1, of |-> 0]

TypeOK ==
  /\ due \in 0..N /\ usable \subseteq Cases /\ flips \in 0..MaxFlips
  /\ \A i \in DOMAIN reviews :
       /\ reviews[i].case \in Cases /\ reviews[i].of \in 0..(i - 1)
       /\ reviews[i].req \in 0..Len(requests)
  /\ \A i \in DOMAIN requests : requests[i].case \in Cases /\ requests[i].used \in BOOLEAN
  /\ cursor \in 0..N /\ lease \in 0..Unread /\ tail \in BOOLEAN /\ lists \in 0..MaxLists
  /\ read \subseteq Cases /\ offered \subseteq Cases /\ open \in BOOLEAN

Init ==
  /\ due = 1 /\ usable \in SUBSET Cases /\ flips = 0
  /\ reviews = <<>> /\ requests = <<>> /\ asking = {} /\ cursor = 0
  /\ open = FALSE /\ read = {} /\ pend = [c \in Cases |-> NoDraft]
  /\ lease = Unread /\ tail = FALSE /\ log = <<>> /\ lists = 0 /\ offered = {}
  /\ faults = 0

FreshDeps ==
  /\ read' = {} /\ pend' = [c \in Cases |-> NoDraft]
  /\ lease' = Unread /\ tail' = FALSE /\ log' = <<>> /\ lists' = 0 /\ offered' = {}

-----------------------------------------------------------------------------
(* The world: windows end, candles are missing or are filled in later.     *)
BecomeDue ==
  /\ due < N /\ due' = due + 1
  /\ UNCHANGED <<usable, flips, reviews, requests, asking, cursor, roundVars, faults>>

(* partial_acceptable, of the candles that the gateway returns at the time.*)
Outcome(c) ==
  /\ flips < MaxFlips /\ flips' = flips + 1
  /\ usable' = IF c \in usable THEN usable \ {c} ELSE usable \cup {c}
  /\ UNCHANGED <<due, reviews, requests, asking, cursor, roundVars, faults>>

-----------------------------------------------------------------------------
HasReview(c) == \E i \in DOMAIN reviews : reviews[i].case = c
LatestReview(c) ==
  LET rows == {i \in DOMAIN reviews : reviews[i].case = c}
  IN  IF rows = {} THEN 0 ELSE CHOOSE i \in rows : \A j \in rows : j <= i
OpenRequests(c) == {i \in DOMAIN requests : requests[i].case = c /\ ~requests[i].used}

(* The operator asks for a case to be reviewed again: an open request is   *)
(* reused, and the index on open requests settles a race of two POSTs.     *)
AskRereview(c) ==
  /\ c \in Disputed /\ Len(requests) + Cardinality(asking) < MaxRequests
  /\ HasReview(c) /\ OpenRequests(c) = {}
  /\ \E k \in 1..MaxRequests :
       <<c, k>> \notin asking /\ asking' = asking \cup {<<c, k>>}
  /\ UNCHANGED <<due, usable, flips, reviews, requests, cursor, roundVars, faults>>

CreateUnchecked(c) == TRUE \* mutant: no unique index on open requests
CreateRequest(c) == OpenRequests(c) = {}

InsertRequest ==
  /\ \E post \in asking :
       /\ asking' = asking \ {post}
       /\ requests' = IF CreateRequest(post[1])
                      THEN Append(requests, [case |-> post[1], used |-> FALSE]) ELSE requests
  /\ UNCHANGED <<due, usable, flips, reviews, cursor, roundVars, faults>>

-----------------------------------------------------------------------------
BeginRound ==
  /\ ~open /\ open' = TRUE /\ FreshDeps
  /\ UNCHANGED <<due, usable, flips, reviews, requests, asking, cursor, faults>>

(* list_review_candidates: due, without a review, after the cursor.        *)
Candidates(after) ==
  SelectSeq([c \in 1..due |-> c], LAMBDA c : c > after /\ ~HasReview(c))

(* One page of a scan: each case is checked until enough are usable.  The  *)
(* page counts as the tail when the query returned fewer than asked for.   *)
Page(s, limit) ==
  LET size  == IF limit < Budget - s.scanned THEN limit ELSE Budget - s.scanned
      found == Candidates(s.at)
      batch == SubSeq(found, 1, IF Len(found) < size THEN Len(found) ELSE size)
      Hits(k) == Cardinality({i \in 1..k : batch[i] \in usable})
      enough == {k \in DOMAIN batch : s.hits + Hits(k) >= limit}
      m == IF enough = {} THEN Len(batch)
           ELSE CHOOSE k \in enough : \A l \in enough : k <= l
  IN  IF batch = <<>> THEN [s EXCEPT !.tail = TRUE]
      ELSE [at      |-> batch[m],
            hits    |-> s.hits + Hits(m),
            scanned |-> s.scanned + m,
            log     |-> s.log \o [i \in 1..m |-> [case |-> batch[i], usable |-> batch[i] \in usable]],
            tail    |-> Len(batch) < size]

ScanFrom(after, limit) ==
  LET Step(s, i) ==
        IF s.tail \/ s.hits >= limit \/ s.scanned >= Budget THEN s ELSE Page(s, limit)
  IN  FoldLeft(Step, [at |-> after, hits |-> 0, scanned |-> 0, log |-> <<>>, tail |-> FALSE],
               [i \in 1..(N + 1) |-> i])

(* list_research_review_candidates: the lease alone moves.                 *)
LeaseAfter(s) == IF s.tail THEN 0 ELSE s.at
ListCandidates(limit) ==
  /\ open /\ lists < MaxLists /\ lists' = lists + 1
  /\ LET s == ScanFrom(IF lease = Unread THEN cursor ELSE lease, limit)
     IN  /\ lease' = LeaseAfter(s) /\ tail' = s.tail /\ log' = log \o s.log
         /\ offered' = offered \cup {s.log[i].case : i \in {j \in DOMAIN s.log : s.log[j].usable}}
  /\ UNCHANGED <<due, usable, flips, reviews, requests, asking, cursor, open, read, pend, faults>>

(* get_research_review_case: any conclusion may be read, due or not.       *)
ReadCase(c) ==
  /\ open /\ c \notin read
  /\ read' = read \cup {c}
  /\ UNCHANGED <<due, usable, flips, reviews, requests, asking, cursor, open, pend, scanVars,
                 faults>>

(* submit_research_review: a first review needs its data at the time of    *)
(* submission; another draft for the same case replaces the first.         *)
Staged(c, draft) ==
  /\ pend' = [pend EXCEPT ![c] = draft]
  /\ UNCHANGED <<due, usable, flips, reviews, requests, asking, cursor, open, read, scanVars,
                 faults>>

SubmitReview(c) ==
  /\ open /\ c \in read /\ c <= due /\ ~HasReview(c) /\ c \in usable /\ pend[c] = NoDraft
  /\ Staged(c, [req |-> 0, of |-> 0])

(* ... and a later one an open request; it may close the case without data.*)
SubmitRereview(c) ==
  /\ open /\ c \in read /\ HasReview(c) /\ pend[c] = NoDraft
  /\ \E r \in OpenRequests(c), unreviewable \in BOOLEAN :
       /\ c \in usable \/ unreviewable
       /\ Staged(c, [req |-> r, of |-> LatestReview(c)])

-----------------------------------------------------------------------------
(* The position the round may acknowledge: up to the first case that was   *)
(* usable and has no draft.                                                *)
Acknowledged ==
  LET left == {i \in DOMAIN log : log[i].usable /\ pend[log[i].case] = NoDraft}
      stop == IF left = {} THEN Len(log) + 1 ELSE CHOOSE i \in left : \A j \in left : i <= j
  IN  IF stop = 1 THEN 0 ELSE log[stop - 1].case

CursorForgotten == cursor \* mutant: the round's progress is not saved
CursorAfter == IF lease = Unread THEN cursor ELSE IF tail THEN 0 ELSE Acknowledged

Drafts == SetToSeq({c \in Cases : pend[c] # NoDraft})
DraftRow(c) == [case |-> c, req |-> pend[c].req, of |-> pend[c].of]
Consumed(i) == [requests[i] EXCEPT !.used = @ \/ \E c \in Cases : pend[c].req = i]

(* save_review_bundle: the report, its reviews, the authorisations they    *)
(* consume and the cursor, in one transaction.  A request that has been    *)
(* consumed already makes it fail, as the database may.                    *)
Requested == {pend[c].req : c \in Cases} \ {0, -1}
SaveBundle ==
  /\ open /\ \A i \in Requested : ~requests[i].used
  /\ reviews' = reviews \o [k \in DOMAIN Drafts |-> DraftRow(Drafts[k])]
  /\ requests' = [i \in DOMAIN requests |-> Consumed(i)]
  /\ cursor' = CursorAfter
  /\ open' = FALSE /\ FreshDeps
  /\ UNCHANGED <<due, usable, flips, asking, faults>>

RoundFails ==
  /\ open /\ faults < MaxFaults /\ faults' = faults + 1
  /\ open' = FALSE /\ FreshDeps
  /\ UNCHANGED <<due, usable, flips, reviews, requests, asking, cursor>>

-----------------------------------------------------------------------------
Next ==
  \/ BecomeDue \/ BeginRound \/ InsertRequest \/ SaveBundle \/ RoundFails
  \/ \E c \in Cases :
       Outcome(c) \/ AskRereview(c) \/ ReadCase(c) \/ SubmitReview(c) \/ SubmitRereview(c)
  \/ \E limit \in Limits : ListCandidates(limit)

(* Rounds come again, list, and are saved; and a model that is shown       *)
(* candidates again and again reads and reviews some.                      *)
ReviewSome == \E c \in Cases : SubmitReview(c)
ReadSome   == \E c \in offered : ~HasReview(c) /\ c \in usable /\ ReadCase(c)
SaveSome   == (\E c \in Cases : pend[c] # NoDraft) /\ SaveBundle
ListSome   == []<>(open /\ lease = Unread) => []<>(lease # Unread)
Progress ==
  /\ WF_vars(SaveBundle)
  /\ ListSome /\ SF_vars(ReadSome) /\ SF_vars(ReviewSome) /\ SF_vars(SaveSome)

Spec == Init /\ [][Next]_vars /\ WF_vars(BeginRound) /\ Progress

-----------------------------------------------------------------------------
(* Properties.                                                             *)

(* A case has one first review; every other one is the use of an           *)
(* authorisation of its own, which is used up by it alone, and it refers   *)
(* to the review before it; and a case never has two open authorisations.  *)
AuthorisedOnce ==
  /\ \A i, j \in DOMAIN reviews : i < j /\ reviews[i].case = reviews[j].case =>
       /\ reviews[j].req # 0 /\ reviews[j].req # reviews[i].req
       /\ requests[reviews[j].req].used /\ requests[reviews[j].req].case = reviews[j].case
       /\ reviews[j].of >= i
  /\ \A r \in DOMAIN requests : requests[r].used => \E i \in DOMAIN reviews : reviews[i].req = r
  /\ \A c \in Cases : Cardinality(OpenRequests(c)) <= 1

(* No case is starved: one that is due and stays usable is reviewed,       *)
(* although scans stop at a budget, skip the cases without data, and go on *)
(* from wherever the last saved round has left the cursor.                 *)
NoneStarved == \A c \in Cases : (<>[](c <= due /\ c \in usable)) => <>HasReview(c)
=============================================================================
