--------------------------- MODULE VersionRegister ---------------------------
(***************************************************************************)
(* What the version stores of the strategy book, the indicator shortlist   *)
(* and the research prompt promise together: each channel has one current  *)
(* version, the operator may replace it at any time, and a proposal of the *)
(* review agent becomes current only if nothing else has become current    *)
(* since the agent read the text it revises (a compare-and-set).  Only a   *)
(* proposal on a channel that had no version when it was read is exempt:   *)
(* it has no identity to compare.                                          *)
(***************************************************************************)
EXTENDS Naturals

CONSTANTS Channels, Ids   \* Ids: the identities versions can have

VARIABLES
  current,   \* the identity of each channel's current version; 0 for none
  proposals  \* what the agent has proposed: its identity, and the one it read

vars == <<current, proposals>>

Proposal == [on : Ids \cup {0}, id : Ids]

Init ==
  /\ current \in [Channels -> {0} \cup {i \in Ids : i = 1}]
  /\ proposals = [c \in Channels |-> {}]

(* The agent proposes a new version, on the text it has read.              *)
Propose(c) ==
  /\ \E p \in Proposal : /\ p.on < p.id /\ current[c] < p.id
                         /\ proposals' = [proposals EXCEPT ![c] = @ \cup {p}]
  /\ UNCHANGED current

(* A proposal is accepted: nobody has overtaken it.                        *)
Accept(c) ==
  /\ \E p \in proposals[c] : /\ p.on \in {current[c], 0}
                             /\ current' = [current EXCEPT ![c] = p.id]
  /\ UNCHANGED proposals

(* The operator saves a text or rolls back to an old one: always a new     *)
(* identity, which no proposal has.                                        *)
Override(c) ==
  /\ \E n \in Ids : /\ n > current[c] /\ \A p \in proposals[c] : p.id # n
                    /\ current' = [current EXCEPT ![c] = n]
  /\ UNCHANGED proposals

Next == \E c \in Channels : Propose(c) \/ Accept(c) \/ Override(c)

Spec == Init /\ [][Next]_vars
=============================================================================
