----------------------------- MODULE MCCaseReview -----------------------------
(* Small instances of CaseReview for TLC: a queue of conclusions of which  *)
(* none is disputed, and a shorter one with a case that the operator asks  *)
(* to be reviewed again ("asked").  "part" says which a behaviour is of.   *)
EXTENDS CaseReview

VARIABLE part

Asked == INSTANCE CaseReview WITH N <- 2, Disputed <- {2}, MaxRequests <- 2

Of(queued, asked) == IF part = "queue" THEN queued ELSE asked

SumInit == (part = "queue" /\ Init) \/ (part = "asked" /\ Asked!Init)
SumNext ==
  /\ UNCHANGED part
  /\ (part = "queue" /\ Next) \/ (part = "asked" /\ Asked!Next)

(* The fairness of Spec, for the part that a behaviour is of.              *)
Listed == lease # Of(Unread, Asked!Unread)
SumSpec ==
  /\ SumInit /\ [][SumNext]_<<part, vars>>
  /\ WF_vars(BeginRound)
  /\ WF_vars(Of(SaveBundle, Asked!SaveBundle))
  /\ []<>(open /\ ~Listed) => []<>Listed
  /\ SF_vars(Of(ReadSome, Asked!ReadSome))
  /\ SF_vars(Of(ReviewSome, Asked!ReviewSome))
  /\ SF_vars(Of(SaveSome, Asked!SaveSome))
=============================================================================
