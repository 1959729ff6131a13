----------------------------- MODULE MCResearch -----------------------------
(* Small instances of the research agent's scheduled work (Research).  Its *)
(* rounds and its calendar have no state in common, so a behaviour is of   *)
(* one of them: "part" says which.                                         *)
EXTENDS Research

VARIABLE part

SomePages == [XNYS |-> {{}, {1}, {1, 2}, {2, 3}, {1, 2, 3}}, XTKS |-> {{1, 2}}]
SomeDelays == <<1, 2>>

SumInit ==
  /\ part \in {"rounds", "calendar"}
  /\ Init /\ Calendar!Init
  /\ part = "calendar" => ~llm
SumNext ==
  \/ part = "rounds" /\ Next /\ UNCHANGED <<part, calendarVars>>
  \/ part = "calendar" /\ Calendar!Next /\ UNCHANGED <<part, vars>>
SumSpec == SumInit /\ [][SumNext]_<<part, vars, calendarVars>>
=============================================================================
