-------------------------- MODULE Documents_proofs ---------------------------
(***************************************************************************)
(* What the program keeps on disk stays whole, for any constants of the    *)
(* three parts.                                                            *)
(*                                                                         *)
(* The review rounds and the version stores implement VersionRegister, for *)
(* any texts, rounds, drafts, interventions and faults; and what a round   *)
(* leaves behind is settled, however it ends.  A step changes the rows of  *)
(* a channel in one of four ways: rows are discarded or attached to a      *)
(* report, a draft is added, a rollback is added, or a row is marked as    *)
(* applied.  The register moves with the last three.  That the agent's     *)
(* mark is always one the register accepts is due to the lock: what was    *)
(* tested before the file was written still holds when the row is marked.  *)
(*                                                                         *)
(* The configuration keeps what was set, for any names, forms and faults:  *)
(* a form cannot bring an older list of credentials back, because the file *)
(* supplies that list, and a rebuild of the providers misses nothing that  *)
(* they are built from.                                                    *)
(*                                                                         *)
(* A database that any earlier version left can be opened, for any links:  *)
(* what is committed at any statement has the rows in their old form or    *)
(* mapped once, and the column that says which of the two.                 *)
(***************************************************************************)
EXTENDS Documents, TLAPS

RowSet == [content : Texts, by : {"human", "agent", "rollback"}, status : Status,
           base : Texts \cup {None}, baseId : Nat, round : Nat, report : Nat]

(* m is the highest applied row, or 0: the value of LatestIn without a     *)
(* choice.  That there is one is part of the invariant.                    *)
IsLatest(rows, m) ==
  /\ m \in DOMAIN rows \cup {0}
  /\ m # 0 => rows[m].status = "applied"
  /\ \A v \in DOMAIN rows : rows[v].status = "applied" => v <= m

(* The four ways in which the rows of a channel change.                    *)
Same(old, new) ==
  /\ new.by = old.by /\ new.base = old.base /\ new.baseId = old.baseId
  /\ new.round = old.round
Settles(old, new) ==
  /\ Same(old, new)
  /\ new.status = old.status \/ (new.status = "discarded" /\ old.status # "applied")
Kept(rows, new) ==
  /\ DOMAIN new = DOMAIN rows
  /\ \A v \in DOMAIN rows : Settles(rows[v], new[v])
Added(rows, new, row) ==
  /\ Len(new) = Len(rows) + 1 /\ new[Len(new)] = row
  /\ \A v \in DOMAIN rows : Settles(rows[v], new[v])
MarkedAs(rows, new, v) ==
  /\ DOMAIN new = DOMAIN rows /\ v \in DOMAIN rows
  /\ Same(rows[v], new[v]) /\ new[v].status = "applied"
  /\ \A w \in DOMAIN rows \ {v} : new[w] = rows[w]

Agents(rows) == {w \in DOMAIN rows : rows[w].by = "agent"}
Proposed(rows) == {[on |-> rows[v].baseId, id |-> v] : v \in Agents(rows)}

-----------------------------------------------------------------------------
(* Rows and their latest version.                                          *)

(* The rows of a channel are numbered from 1.                              *)
LEMMA RowNumbers ==
  ASSUME NEW rows \in Seq(RowSet)
  PROVE  /\ Len(rows) \in Nat /\ DOMAIN rows = 1..Len(rows)
         /\ \A v \in DOMAIN rows : v \in Nat \ {0} /\ rows[v] \in RowSet
  OBVIOUS

(* LatestIn returns the highest applied row.                               *)
LEMMA LatestUnique ==
  ASSUME NEW rows \in Seq(RowSet), NEW m, IsLatest(rows, m)
  PROVE  LatestIn(rows) = m
  <1> DEFINE applied == {v \in DOMAIN rows : rows[v].status = "applied"}
  <1>1. \A v \in DOMAIN rows : v \in Nat \ {0}
    BY RowNumbers
  <1>2. CASE m = 0
    <2>1. applied = {}
      BY <1>1, <1>2 DEF IsLatest
    <2> QED
      BY <1>2, <2>1 DEF LatestIn
  <1>3. CASE m # 0
    <2>1. m \in applied /\ \A w \in applied : w <= m
      BY <1>1, <1>3 DEF IsLatest
    <2>2. \A v \in applied : (\A w \in applied : w <= v) => v = m
      BY <1>1, <2>1
    <2>3. applied # {} /\ (CHOOSE v \in applied : \A w \in applied : w <= v) = m
      BY <2>1, <2>2
    <2> QED
      BY <2>3 DEF LatestIn
  <1> QED
    BY <1>2, <1>3

(* Discarding what is not applied changes neither the latest version nor   *)
(* what has been proposed.                                                 *)
LEMMA KeptRows ==
  ASSUME NEW rows \in Seq(RowSet), NEW new \in Seq(RowSet), NEW m, IsLatest(rows, m),
         Kept(rows, new)
  PROVE  IsLatest(new, m) /\ Proposed(new) = Proposed(rows)
  <1>1. IsLatest(new, m)
    BY DEF IsLatest, Kept, Settles, Same
  <1>2. Agents(new) = Agents(rows) /\ \A v \in Agents(rows) : new[v].baseId = rows[v].baseId
    BY DEF Agents, Kept, Settles, Same
  <1> QED
    BY <1>1, <1>2 DEF Proposed

(* A draft is no version yet, and a proposal if it is the agent's.         *)
LEMMA DraftedRows ==
  ASSUME NEW rows \in Seq(RowSet), NEW new \in Seq(RowSet), NEW m, IsLatest(rows, m),
         NEW row \in RowSet, Added(rows, new, row)
  PROVE  /\ row.status # "applied" => IsLatest(new, m)
         /\ row.status = "applied" => IsLatest(new, Len(new))
         /\ row.by # "agent" => Proposed(new) = Proposed(rows)
         /\ row.by = "agent" =>
              Proposed(new) = Proposed(rows) \cup {[on |-> row.baseId, id |-> Len(new)]}
  <1>1. /\ DOMAIN rows = 1..Len(rows) /\ DOMAIN new = 1..Len(new) /\ Len(rows) \in Nat
        /\ Len(new) = Len(rows) + 1 /\ DOMAIN new = DOMAIN rows \cup {Len(new)}
        /\ Len(new) \notin DOMAIN rows
    BY DEF Added
  <1>2. row.status # "applied" => IsLatest(new, m)
    BY <1>1 DEF IsLatest, Added, Settles, Same
  <1>3. row.status = "applied" => IsLatest(new, Len(new))
    BY <1>1 DEF IsLatest, Added
  <1>4. \A v \in DOMAIN rows : new[v].by = rows[v].by /\ new[v].baseId = rows[v].baseId
    BY DEF Added, Settles, Same
  <1>5. row.by # "agent" => Agents(new) = Agents(rows)
    BY <1>1, <1>4 DEF Agents, Added
  <1>6. row.by = "agent" => Agents(new) = Agents(rows) \cup {Len(new)}
    BY <1>1, <1>4 DEF Agents, Added
  <1>7. \A v \in Agents(rows) : new[v].baseId = rows[v].baseId
    BY <1>4 DEF Agents
  <1>8. row.by # "agent" => Proposed(new) = Proposed(rows)
    BY <1>5, <1>7 DEF Proposed
  <1>9. row.by = "agent" =>
          Proposed(new) = Proposed(rows) \cup {[on |-> row.baseId, id |-> Len(new)]}
    BY <1>6, <1>7 DEF Proposed, Added
  <1> QED
    BY <1>2, <1>3, <1>8, <1>9

(* A row that is marked becomes the latest version unless a later one is.  *)
LEMMA MarkedRows ==
  ASSUME NEW rows \in Seq(RowSet), NEW new \in Seq(RowSet), NEW m, IsLatest(rows, m),
         NEW v, MarkedAs(rows, new, v)
  PROVE  /\ IsLatest(new, IF v > m THEN v ELSE m)
         /\ Proposed(new) = Proposed(rows)
  <1>1. \A w \in DOMAIN rows : w \in Nat \ {0}
    BY RowNumbers
  <1>2. m \in Nat /\ v \in Nat
    BY <1>1 DEF IsLatest, MarkedAs
  <1>3. IsLatest(new, IF v > m THEN v ELSE m)
    BY <1>1, <1>2 DEF IsLatest, MarkedAs
  <1>4. Agents(new) = Agents(rows) /\ \A w \in Agents(rows) : new[w].baseId = rows[w].baseId
    BY DEF Agents, MarkedAs, Same
  <1> QED
    BY <1>3, <1>4 DEF Proposed

-----------------------------------------------------------------------------
(* The register behind the stores.                                         *)

SameRegister(c) == Latest(c)' = Latest(c) /\ Proposed(ver[c])' = Proposed(ver[c])

(* A step that leaves every channel's latest version and proposals alone   *)
(* is a stutter of the register.                                           *)
LEMMA RegisterStutters ==
  ASSUME \A c \in Channels : SameRegister(c)
  PROVE  UNCHANGED Register!vars
  <1>1. [c \in Channels |-> Latest(c)]' = [c \in Channels |-> Latest(c)]
    BY DEF SameRegister
  <1>2. [c \in Channels |-> Proposed(ver[c])]' = [c \in Channels |-> Proposed(ver[c])]
    BY DEF SameRegister
  <1> QED
    BY <1>1, <1>2 DEF Register!vars, Proposed, Agents, Rows

(* A draft of the agent that is added is a proposal.                       *)
LEMMA RegisterProposes ==
  ASSUME NEW c \in Channels, NEW on \in Ids \cup {0}, NEW id \in Ids, on < id, Latest(c) < id,
         \A d \in Channels \ {c} : SameRegister(d), Latest(c)' = Latest(c),
         Proposed(ver[c])' = Proposed(ver[c]) \cup {[on |-> on, id |-> id]}
  PROVE  Register!Next
  <1> DEFINE cur == [d \in Channels |-> Latest(d)]
             pro == [d \in Channels |-> Proposed(ver[d])]
             p   == [on |-> on, id |-> id]
  <1>1. cur' = cur
    BY DEF SameRegister
  <1>2. pro' = [pro EXCEPT ![c] = @ \cup {p}]
    BY DEF SameRegister
  <1>3. p \in Register!Proposal /\ p.on < p.id /\ cur[c] < p.id
    BY DEF Register!Proposal
  <1> HIDE DEF p
  <1>4. Register!Propose(c)
    BY <1>1, <1>2, <1>3 DEF Register!Propose, Proposed, Agents, Rows
  <1> QED
    BY <1>4 DEF Register!Next

(* A proposal that is marked as applied on the version it was read on, or  *)
(* on none, is accepted.                                                   *)
LEMMA RegisterAccepts ==
  ASSUME NEW c \in Channels, NEW id \in Agents(ver[c]), ver[c][id].baseId \in {Latest(c), 0},
         \A d \in Channels \ {c} : SameRegister(d), Latest(c)' = id,
         Proposed(ver[c])' = Proposed(ver[c])
  PROVE  Register!Next
  <1> DEFINE cur == [d \in Channels |-> Latest(d)]
             pro == [d \in Channels |-> Proposed(ver[d])]
             p   == [on |-> ver[c][id].baseId, id |-> id]
  <1>1. cur' = [cur EXCEPT ![c] = p.id]
    BY DEF SameRegister
  <1>2. pro' = pro
    BY DEF SameRegister
  <1>3. p \in pro[c] /\ p.on \in {cur[c], 0}
    BY DEF Proposed
  <1> HIDE DEF p
  <1>4. Register!Accept(c)
    BY <1>1, <1>2, <1>3 DEF Register!Accept, Proposed, Agents, Rows
  <1> QED
    BY <1>4 DEF Register!Next

(* A version of the operator with a new identity overrides.                *)
LEMMA RegisterOverrides ==
  ASSUME NEW c \in Channels, NEW id \in Ids, id > Latest(c), id \notin Agents(ver[c]),
         \A d \in Channels \ {c} : SameRegister(d), Latest(c)' = id,
         Proposed(ver[c])' = Proposed(ver[c])
  PROVE  Register!Next
  <1> DEFINE cur == [d \in Channels |-> Latest(d)]
             pro == [d \in Channels |-> Proposed(ver[d])]
  <1>1. cur' = [cur EXCEPT ![c] = id]
    BY DEF SameRegister
  <1>2. pro' = pro
    BY DEF SameRegister
  <1>3. id > cur[c] /\ \A p \in pro[c] : p.id # id
    BY DEF Proposed
  <1>4. Register!Override(c)
    BY <1>1, <1>2, <1>3 DEF Register!Override, Proposed, Agents, Rows
  <1> QED
    BY <1>4 DEF Register!Next

-----------------------------------------------------------------------------
(* The invariant of the stores and of the drafts in them.                  *)
Bases == [md5 : Texts, id : Nat]
Marks == [who : {"human", "agent", "rollback"}, id : Nat]

Typed ==
  /\ file \in [Channels -> Texts] /\ ver \in [Channels -> Seq(RowSet)]
  /\ pending \in [Channels -> Marks \cup {None}]
  /\ asked \in [Channels -> SUBSET Nat] /\ draftIds \in [Channels -> SUBSET Nat]
  /\ base \in [Channels -> Bases \cup {None}] /\ named \in [Channels -> Nat]
  /\ rid \in 0..MaxRounds /\ saved \in BOOLEAN
  /\ \A c \in Channels : Len(ver[c]) <= MaxVersions

(* Every channel has a latest version, or none; and what the agent drafts  *)
(* was written on an earlier one.                                          *)
Rowed ==
  \A c \in Channels :
    /\ \E m \in Nat : IsLatest(ver[c], m)
    /\ \A v \in Agents(ver[c]) : ver[c][v].base \in Texts /\ ver[c][v].baseId < v

(* A revision is never submitted unstamped.                                *)
Stamped ==
  /\ \A c \in Channels : base[c] # None => base[c].id <= Len(ver[c])
  /\ pc = "chat" /\ "strategy" \in Channels => base["strategy"] # None

(* What the operator has asked for is the operator's, and done once.       *)
Requested(rows, as, pe) ==
  /\ \A v \in as : v \in DOMAIN rows /\ rows[v].by = "human" /\ rows[v].status # "applied"
  /\ pe # None =>
       /\ pe.id \in DOMAIN rows
       /\ pe.who = "human" => rows[pe.id].by = "human" /\ pe.id \notin as

OperatorRows == \A c \in Channels : Requested(ver[c], asked[c], pending[c])

(* While the agent holds a store's lock, what it has tested still holds:   *)
(* nobody has overtaken the draft, or a later version is current.          *)
Held ==
  up => \A c \in Channels : pending[c] # None /\ pending[c].who = "agent" =>
    /\ Applying(c, pending[c].id)
    /\ \/ ver[c][pending[c].id].baseId \in {Latest(c), 0}
       \/ pending[c].id <= Latest(c)

(* The drafts of the round are the agent's and of this round.              *)
Own ==
  /\ \A c \in Channels :
       /\ draftIds[c] \subseteq Agents(ver[c])
       /\ \A v \in draftIds[c] : ver[c][v].round = rid
       /\ named[c] \in Rows(c) \cup {0}
  /\ todo \subseteq AllDrafts

(* They are not applied before the report is committed, nor when the round *)
(* is taken for a failure.                                                 *)
Unapplied == \A c \in Channels : \A v \in draftIds[c] : ver[c][v].status # "applied"
Early == pc \in {"reserved", "begin", "chat", "save", "discard"} \/ (pc = "unwind" /\ ~saved)

Backed ==
  /\ up \/ pc = "idle"
  /\ pc \in {"reserved", "begin", "chat"} => todo = {}
  /\ saved \/ pc \in {"again", "reattach", "reclose"} => Committed
  /\ pc \in {"apply", "attach", "close", "tell"} => saved

StoreInv ==
  /\ Typed /\ Rowed /\ Stamped /\ OperatorRows /\ Held /\ Own
  /\ Early => Unapplied
  /\ Backed /\ ReportedFirst

-----------------------------------------------------------------------------
OnlyKept == \A c \in Channels : ver'[c] \in Seq(RowSet) /\ Kept(ver[c], ver'[c])

(* A step that leaves the rows alone keeps them.                           *)
LEMMA UnchangedRows ==
  ASSUME Typed, ver' = ver
  PROVE  OnlyKept
  BY DEF Typed, OnlyKept, Kept, Settles, Same

(* What is left as it was when rows are only discarded or attached.        *)
LEMMA OnlyKeptRows ==
  ASSUME Typed, Rowed, OnlyKept
  PROVE  /\ \A c \in Channels : SameRegister(c) /\ Rows(c)' = Rows(c) /\ Len(ver'[c]) = Len(ver[c])
         /\ \A c \in Channels : Agents(ver'[c]) = Agents(ver[c])
         /\ \A c \in Channels : \A v \in Rows(c) : Settles(ver[c][v], ver'[c][v])
         /\ Rowed'
  <1>1. ASSUME NEW c \in Channels
        PROVE  /\ SameRegister(c) /\ Rows(c)' = Rows(c) /\ Len(ver'[c]) = Len(ver[c])
               /\ Agents(ver'[c]) = Agents(ver[c])
               /\ \A v \in Rows(c) : Settles(ver[c][v], ver'[c][v])
               /\ \E m \in Nat : IsLatest(ver'[c], m)
    <2>1. ver[c] \in Seq(RowSet) /\ ver'[c] \in Seq(RowSet) /\ Kept(ver[c], ver'[c])
      BY DEF Typed, OnlyKept
    <2>2. PICK m \in Nat : IsLatest(ver[c], m)
      BY DEF Rowed
    <2>3. IsLatest(ver'[c], m) /\ Proposed(ver'[c]) = Proposed(ver[c])
      BY <2>1, <2>2, KeptRows
    <2>4. LatestIn(ver[c]) = m /\ LatestIn(ver'[c]) = m
      BY <2>1, <2>2, <2>3, LatestUnique
    <2>5. Rows(c)' = Rows(c) /\ \A v \in Rows(c) : Settles(ver[c][v], ver'[c][v])
      BY <2>1 DEF Kept, Rows
    <2>6. Agents(ver'[c]) = Agents(ver[c])
      BY <2>5 DEF Agents, Rows, Settles, Same
    <2>7. Len(ver'[c]) = Len(ver[c])
      BY <2>1 DEF Kept
    <2> QED
      BY <2>3, <2>4, <2>5, <2>6, <2>7 DEF SameRegister, Latest
  <1>2. Rowed'
    BY <1>1 DEF Rowed, Agents, Rows, Settles, Same
  <1> QED
    BY <1>1, <1>2

(* Of the agent's drafts one at a time is under a lock, the first to do.   *)
LEMMA OneApplying ==
  ASSUME NEW c \in Channels, NEW d \in Channels, NEW v, NEW w, Applying(c, v), Applying(d, w)
  PROVE  c = d
  <1>1. Place[c] <= Place[d] /\ Place[d] <= Place[c]
    BY DEF Applying
  <1>2. /\ Place["strategy"] = 1 /\ Place["indicator_config"] = 2
        /\ Place["research_prompt"] = 3
    BY DEF Place
  <1>3. /\ c \in {"strategy", "indicator_config", "research_prompt"}
        /\ d \in {"strategy", "indicator_config", "research_prompt"}
    BY VersionStoreAssumption
  <1> QED
    BY <1>1, <1>2, <1>3

LEMMA NoneHeld ==
  ASSUME Held, up,
         \/ pc \notin {"apply", "again"}
         \/ todo = {}
         \/ \E c \in Channels, v \in Ids : Applying(c, v) /\ Unlocked(c)
  PROVE  \A c \in Channels : pending[c] # None => pending[c].who # "agent"
  <1>1. SUFFICES ASSUME NEW d \in Channels, pending[d] # None, pending[d].who = "agent"
                 PROVE  FALSE
    OBVIOUS
  <1>2. Applying(d, pending[d].id)
    BY <1>1 DEF Held
  <1>3. PICK c \in Channels, v \in Ids : Applying(c, v) /\ Unlocked(c)
    BY <1>2 DEF Applying
  <1>4. c = d
    BY <1>2, <1>3, OneApplying
  <1> QED
    BY <1>1, <1>3, <1>4 DEF Unlocked

(* It stays so while rows are added or discarded, and what has been asked  *)
(* for is done or dropped.                                                 *)
LEMMA RequestedKept ==
  ASSUME NEW rows, NEW new, NEW as, NEW less, NEW pe, NEW pf, Requested(rows, as, pe),
         less \subseteq as, pf \in {pe, None}, DOMAIN rows \subseteq DOMAIN new,
         \A v \in DOMAIN rows :
           /\ Same(rows[v], new[v])
           /\ v \in less => new[v].status \in {rows[v].status, "discarded"}
  PROVE  Requested(new, less, pf)
  BY DEF Requested, Same

-----------------------------------------------------------------------------
(* The writes to a table of versions.                                      *)
Elsewhere(c, new) == \A d \in Channels \ {c} : new[d] = ver[d]

LEMMA InsertedRows ==
  ASSUME Typed, NEW c \in Channels, NEW row \in RowSet
  PROVE  /\ Inserted(c, row) \in [Channels -> Seq(RowSet)] /\ Elsewhere(c, Inserted(c, row))
         /\ Added(ver[c], Inserted(c, row)[c], row)
  <1>1. ver[c] \in Seq(RowSet) /\ Inserted(c, row)[c] = Append(ver[c], row)
    BY DEF Typed, Inserted
  <1> QED
    BY <1>1 DEF Typed, Inserted, Elsewhere, Added, Settles, Same

LEMMA MarksRows ==
  ASSUME Typed, NEW c \in Channels, NEW v \in Rows(c), NEW st \in Status
  PROVE  /\ Marked(c, v, st) \in [Channels -> Seq(RowSet)] /\ Elsewhere(c, Marked(c, v, st))
         /\ st = "applied" => MarkedAs(ver[c], Marked(c, v, st)[c], v)
         /\ st = "discarded" /\ ver[c][v].status # "applied" =>
              \A d \in Channels : Kept(ver[d], Marked(c, v, st)[d])
  <1> DEFINE new == [ver[c] EXCEPT ![v] = [ver[c][v] EXCEPT !.status = st]]
  <1>1. ver[c] \in Seq(RowSet) /\ v \in DOMAIN ver[c] /\ ver[c][v] \in RowSet
    BY DEF Typed, Rows
  <1>2. /\ [ver[c][v] EXCEPT !.status = st] \in RowSet
        /\ Same(ver[c][v], [ver[c][v] EXCEPT !.status = st])
    BY <1>1 DEF RowSet, Same
  <1>3. new \in Seq(RowSet) /\ DOMAIN new = DOMAIN ver[c]
    BY <1>1, <1>2
  <1>4. Marked(c, v, st) = [ver EXCEPT ![c] = new]
    BY DEF Marked
  <1>5. /\ Marked(c, v, st)[c] = new /\ Elsewhere(c, Marked(c, v, st))
        /\ Marked(c, v, st) \in [Channels -> Seq(RowSet)]
    BY <1>3, <1>4 DEF Typed, Elsewhere
  <1>6. /\ Same(ver[c][v], new[v]) /\ new[v].status = st
        /\ \A w \in DOMAIN ver[c] \ {v} : new[w] = ver[c][w]
    BY <1>1, <1>2 DEF RowSet
  <1>7. st = "applied" => MarkedAs(ver[c], new, v)
    BY <1>1, <1>3, <1>6 DEF MarkedAs
  <1>8. st = "discarded" /\ ver[c][v].status # "applied" => Kept(ver[c], new)
    BY <1>1, <1>3, <1>6 DEF Kept, Settles, Same
  <1>9. \A d \in Channels \ {c} : Kept(ver[d], Marked(c, v, st)[d])
    BY <1>5 DEF Elsewhere, Kept, Settles, Same
  <1> QED
    BY <1>5, <1>7, <1>8, <1>9

(* A row is added: the register sees a rollback, or a draft of the agent.  *)
LEMMA AddedRow ==
  ASSUME Typed, Rowed, NEW c \in Channels, NEW row \in RowSet,
         ver' \in [Channels -> Seq(RowSet)], Elsewhere(c, ver'), Added(ver[c], ver'[c], row),
         row.by = "agent" => row.base \in Texts /\ row.baseId < Len(ver[c]) + 1
  PROVE  /\ Rowed' /\ \A d \in Channels \ {c} : SameRegister(d)
         /\ Len(ver'[c]) = Len(ver[c]) + 1 /\ Latest(c) < Len(ver'[c])
         /\ \A d \in Channels : Len(ver[d]) <= Len(ver'[d]) /\ Rows(d) \subseteq Rows(d)'
         /\ \A d \in Channels : \A v \in Rows(d) : Settles(ver[d][v], ver'[d][v])
         /\ \A d \in Channels : \A v \in Rows(d)' \ Rows(d) : d = c /\ ver'[d][v] = row
         /\ Latest(c)' = IF row.status = "applied" THEN Len(ver'[c]) ELSE Latest(c)
         /\ Proposed(ver[c])' = IF row.by = "agent"
              THEN Proposed(ver[c]) \cup {[on |-> row.baseId, id |-> Len(ver'[c])]}
              ELSE Proposed(ver[c])
  <1>1. /\ ver[c] \in Seq(RowSet) /\ ver'[c] \in Seq(RowSet) /\ Len(ver[c]) \in Nat
        /\ Len(ver'[c]) = Len(ver[c]) + 1 /\ DOMAIN ver'[c] = DOMAIN ver[c] \cup {Len(ver'[c])}
    BY DEF Typed, Added
  <1>2. PICK m \in Nat : IsLatest(ver[c], m)
    BY DEF Rowed
  <1>3. Latest(c) = m /\ m <= Len(ver[c])
    <2>1. m \in 0..Len(ver[c])
      BY <1>1, <1>2 DEF IsLatest
    <2> QED
      BY <1>1, <1>2, <2>1, LatestUnique DEF Latest
  <1>4. /\ row.status # "applied" => IsLatest(ver'[c], m)
        /\ row.status = "applied" => IsLatest(ver'[c], Len(ver'[c]))
        /\ row.by # "agent" => Proposed(ver'[c]) = Proposed(ver[c])
        /\ row.by = "agent" => Proposed(ver'[c]) =
             Proposed(ver[c]) \cup {[on |-> row.baseId, id |-> Len(ver'[c])]}
    BY <1>1, <1>2, DraftedRows
  <1>5. /\ row.status # "applied" => LatestIn(ver'[c]) = m
        /\ row.status = "applied" => LatestIn(ver'[c]) = Len(ver'[c])
    BY <1>1, <1>4, LatestUnique
  <1>6. \A d \in Channels \ {c} : SameRegister(d) /\ ver'[d] = ver[d]
    BY DEF Elsewhere, SameRegister, Latest
  <1>7. \A d \in Channels : \A v \in Rows(d) : Settles(ver[d][v], ver'[d][v])
    BY <1>6 DEF Added, Rows, Settles, Same
  <1>8. /\ \A d \in Channels : Len(ver[d]) <= Len(ver'[d]) /\ Rows(d) \subseteq Rows(d)'
        /\ \A d \in Channels : \A v \in Rows(d)' \ Rows(d) : d = c /\ ver'[d][v] = row
    <2>1. /\ Rows(c)' = Rows(c) \cup {Len(ver'[c])} /\ Len(ver[c]) <= Len(ver'[c])
          /\ ver'[c][Len(ver'[c])] = row
      BY <1>1 DEF Rows, Added
    <2>2. \A d \in Channels \ {c} : Rows(d)' = Rows(d) /\ Len(ver'[d]) = Len(ver[d])
      BY <1>6 DEF Rows
    <2>3. \A d \in Channels : Len(ver[d]) \in Nat
      BY DEF Typed
    <2>4. \A d \in Channels : Len(ver[d]) <= Len(ver'[d])
      BY <2>1, <2>2, <2>3
    <2>5. \A d \in Channels : Rows(d) \subseteq Rows(d)'
      BY <2>1, <2>2
    <2>6. \A d \in Channels : \A v \in Rows(d)' \ Rows(d) : d = c /\ ver'[d][v] = row
      BY <2>1, <2>2
    <2> QED
      BY <2>4, <2>5, <2>6
  <1>9. ASSUME NEW d \in Channels
        PROVE  /\ \E n \in Nat : IsLatest(ver'[d], n)
               /\ \A v \in Agents(ver'[d]) : ver'[d][v].base \in Texts /\ ver'[d][v].baseId < v
    <2>1. CASE d = c
      <3>1. \A v \in DOMAIN ver[c] : ver'[c][v].by = ver[c][v].by
              /\ ver'[c][v].base = ver[c][v].base /\ ver'[c][v].baseId = ver[c][v].baseId
        BY <1>7 DEF Rows, Settles, Same
      <3>2. ver'[c][Len(ver'[c])] = row
        BY DEF Added
      <3>3. \A v \in Agents(ver[c]) : ver[c][v].base \in Texts /\ ver[c][v].baseId < v
        BY DEF Rowed
      <3>4. \A v \in Agents(ver'[c]) : ver'[c][v].base \in Texts /\ ver'[c][v].baseId < v
        BY <1>1, <3>1, <3>2, <3>3 DEF Agents
      <3> QED
        BY <1>1, <1>4, <2>1, <3>4
    <2>2. CASE d # c
      BY <1>6, <2>2 DEF Rowed
    <2> QED
      BY <2>1, <2>2
  <1>10. Rowed'
    BY <1>9 DEF Rowed
  <1> QED
    BY <1>1, <1>3, <1>4, <1>5, <1>6, <1>7, <1>8, <1>10 DEF Latest

(* A row is marked as applied.                                             *)
LEMMA MarkedRow ==
  ASSUME Typed, Rowed, NEW c \in Channels, NEW v \in Rows(c),
         ver' \in [Channels -> Seq(RowSet)], Elsewhere(c, ver'), MarkedAs(ver[c], ver'[c], v)
  PROVE  /\ Rowed' /\ \A d \in Channels \ {c} : SameRegister(d)
         /\ \A d \in Channels : Rows(d)' = Rows(d) /\ Len(ver'[d]) = Len(ver[d])
         /\ \A d \in Channels : Agents(ver'[d]) = Agents(ver[d])
         /\ \A d \in Channels : \A w \in Rows(d) : /\ Same(ver[d][w], ver'[d][w])
                                                   /\ d # c \/ w # v => ver'[d][w] = ver[d][w]
         /\ Latest(c)' = IF v > Latest(c) THEN v ELSE Latest(c)
         /\ Proposed(ver[c])' = Proposed(ver[c])
  <1>1. ver[c] \in Seq(RowSet) /\ ver'[c] \in Seq(RowSet) /\ DOMAIN ver'[c] = DOMAIN ver[c]
    BY DEF Typed, MarkedAs
  <1>2. PICK m \in Nat : IsLatest(ver[c], m)
    BY DEF Rowed
  <1>3. Latest(c) = m
    BY <1>1, <1>2, LatestUnique DEF Latest
  <1>4. /\ IsLatest(ver'[c], IF v > m THEN v ELSE m)
        /\ Proposed(ver'[c]) = Proposed(ver[c])
    BY <1>1, <1>2, MarkedRows
  <1>5. LatestIn(ver'[c]) = IF v > m THEN v ELSE m
    BY <1>1, <1>4, LatestUnique
  <1>6. \A d \in Channels \ {c} : SameRegister(d) /\ ver'[d] = ver[d]
    BY DEF Elsewhere, SameRegister, Latest
  <1>7. \A d \in Channels : \A w \in Rows(d) : /\ Same(ver[d][w], ver'[d][w])
                                               /\ d # c \/ w # v => ver'[d][w] = ver[d][w]
    BY <1>6 DEF MarkedAs, Rows, Same
  <1>8. \A d \in Channels : Rows(d)' = Rows(d) /\ Len(ver'[d]) = Len(ver[d])
    BY <1>1, <1>6 DEF Rows
  <1>9. \A d \in Channels : Agents(ver'[d]) = Agents(ver[d])
    BY <1>7, <1>8 DEF Agents, Rows, Same
  <1>10. v \in Nat
    BY <1>1 DEF Rows
  <1>11. \A d \in Channels : \E n \in Nat : IsLatest(ver'[d], n)
    BY <1>4, <1>6, <1>10 DEF Rowed
  <1>12. Rowed'
    BY <1>7, <1>9, <1>11 DEF Rowed, Agents, Rows, Same
  <1> QED
    BY <1>3, <1>4, <1>5, <1>6, <1>7, <1>8, <1>9, <1>12 DEF Latest

-----------------------------------------------------------------------------
(* The operator's steps.                                                   *)
(* What the operator may do to the rows without disturbing the round.      *)
LEMMA OperatorFrame ==
  ASSUME StoreInv, Rowed', OperatorRows', UNCHANGED others,
         ver' \in [Channels -> Seq(RowSet)], file' \in [Channels -> Texts],
         pending' \in [Channels -> Marks \cup {None}], asked' \in [Channels -> SUBSET Nat],
         \A d \in Channels : /\ Rows(d) \subseteq Rows(d)'
                             /\ Len(ver[d]) <= Len(ver'[d]) /\ Len(ver'[d]) <= MaxVersions,
         \A d \in Channels : \A v \in Rows(d) :
           /\ Same(ver[d][v], ver'[d][v])
           /\ ver'[d][v].status = "applied" =>
                ver[d][v].status = "applied" \/ ver[d][v].by = "human",
         \A d \in Channels : \A v \in Rows(d)' \ Rows(d) : ver'[d][v].by # "agent",
         \A d \in Channels : pending'[d] # None /\ pending'[d].who = "agent" =>
           pending'[d] = pending[d] /\ Latest(d)' = Latest(d)
  PROVE  StoreInv'
  <1> USE DEF StoreInv, others, taskVars
  <1>1. Typed'
    BY DEF Typed
  <1>2. \A d \in Channels : Agents(ver'[d]) = Agents(ver[d])
    BY DEF Agents, Rows, Same
  <1>3. Stamped'
    <2>1. ASSUME NEW d \in Channels, base[d] # None
          PROVE  base[d].id <= Len(ver'[d])
      <3>1. base[d] \in Bases /\ base[d].id <= Len(ver[d])
        BY <2>1 DEF Typed, Stamped
      <3>2. base[d].id \in Nat /\ Len(ver[d]) \in Nat /\ Len(ver'[d]) \in Nat
        BY <3>1 DEF Bases, Typed
      <3> QED
        BY <3>1, <3>2
    <2> QED
      BY <2>1 DEF Stamped
  <1>4. Own'
    <2>1. todo \subseteq AllDrafts /\ AllDrafts' = AllDrafts
      BY DEF Own, AllDrafts
    <2>2. \A d \in Channels : draftIds[d] \subseteq Rows(d)
      BY DEF Own, Agents, Rows
    <2> QED
      BY <1>2, <2>1, <2>2 DEF Own, Same
  <1>5. Held'
    <2>1. ASSUME up, NEW d \in Channels, pending'[d] # None, pending'[d].who = "agent"
          PROVE  /\ Applying(d, pending[d].id)'
                 /\ \/ ver'[d][pending'[d].id].baseId \in {Latest(d)', 0}
                    \/ pending'[d].id <= Latest(d)'
      <3>1. pending'[d] = pending[d] /\ Latest(d)' = Latest(d)
        BY <2>1
      <3>2. pending[d].id \in Rows(d)
        BY <2>1, <3>1 DEF OperatorRows, Requested, Rows
      <3>3. /\ Applying(d, pending[d].id)
            /\ ver[d][pending[d].id].baseId \in {Latest(d), 0} \/ pending[d].id <= Latest(d)
        BY <2>1, <3>1 DEF Held
      <3>4. Applying(d, pending[d].id)'
        BY <3>1, <3>3 DEF Applying
      <3> QED
        BY <3>1, <3>2, <3>3, <3>4 DEF Same
    <2> QED
      BY <2>1 DEF Held
  <1>6. (Early => Unapplied)'
    BY DEF Early, Unapplied, Own, Agents, Rows
  <1>7. Backed'
    BY DEF Backed, Committed
  <1>8. ReportedFirst'
    <2>1. ASSUME NEW d \in Channels, NEW v \in Rows(d)', ver'[d][v].by = "agent",
                 ver'[d][v].status = "applied"
          PROVE  \E r \in reports : r.round = ver'[d][v].round /\ r.ok
      <3>1. v \in Rows(d) /\ Same(ver[d][v], ver'[d][v]) /\ ver[d][v].status = "applied"
        BY <2>1 DEF Same
      <3> QED
        BY <2>1, <3>1 DEF ReportedFirst, Same
    <2> QED
      BY <2>1 DEF ReportedFirst
  <1> QED
    BY <1>1, <1>3, <1>4, <1>5, <1>6, <1>7, <1>8

(* A draft of the operator that is added leaves the register alone.        *)
LEMMA HumanRow ==
  ASSUME StoreInv, NEW c \in Channels, NEW x \in Contents, HasRoom(c),
         ver' = Inserted(c, HumanDraft(x))
  PROVE  /\ HumanDraft(x) \in RowSet /\ ver' \in [Channels -> Seq(RowSet)]
         /\ Elsewhere(c, ver') /\ Added(ver[c], ver'[c], HumanDraft(x))
         /\ Rowed' /\ \A d \in Channels : SameRegister(d)
         /\ \A d \in Channels : /\ Rows(d) \subseteq Rows(d)'
                                /\ Len(ver[d]) <= Len(ver'[d]) /\ Len(ver'[d]) <= MaxVersions
         /\ \A d \in Channels : \A v \in Rows(d) : Settles(ver[d][v], ver'[d][v])
         /\ \A d \in Channels : \A v \in Rows(d)' \ Rows(d) : ver'[d][v] = HumanDraft(x)
         /\ Len(ver[c]) + 1 \in Rows(c)' \ Rows(c)
         /\ HumanDraft(x).by = "human" /\ HumanDraft(x).status = "draft"
  <1>1. /\ HumanDraft(x) \in RowSet /\ HumanDraft(x).by = "human"
        /\ HumanDraft(x).status = "draft"
    BY DEF HumanDraft, Row, RowSet, Texts, Status
  <1>2. ver' \in [Channels -> Seq(RowSet)] /\ Elsewhere(c, ver') /\ Added(ver[c], ver'[c], HumanDraft(x))
    BY <1>1, InsertedRows DEF StoreInv
  <1>3. /\ Rowed' /\ \A d \in Channels \ {c} : SameRegister(d)
        /\ Len(ver'[c]) = Len(ver[c]) + 1
        /\ \A d \in Channels : Len(ver[d]) <= Len(ver'[d]) /\ Rows(d) \subseteq Rows(d)'
        /\ \A d \in Channels : \A v \in Rows(d) : Settles(ver[d][v], ver'[d][v])
        /\ \A d \in Channels : \A v \in Rows(d)' \ Rows(d) : d = c /\ ver'[d][v] = HumanDraft(x)
        /\ Latest(c)' = Latest(c) /\ Proposed(ver[c])' = Proposed(ver[c])
    BY <1>1, <1>2, AddedRow DEF StoreInv
  <1>4. \A d \in Channels : SameRegister(d)
    BY <1>3 DEF SameRegister
  <1>5. /\ Len(ver[c]) + 1 \in Rows(c)' \ Rows(c) /\ Len(ver'[c]) <= MaxVersions
    <2>1. ver[c] \in Seq(RowSet) /\ ver'[c] \in Seq(RowSet) /\ Len(ver[c]) < MaxVersions
      BY <1>2 DEF StoreInv, Typed, HasRoom
    <2>2. Rows(c) = 1..Len(ver[c]) /\ Rows(c)' = 1..Len(ver'[c]) /\ Len(ver[c]) \in Nat
      BY <2>1 DEF Rows
    <2>3. MaxVersions \in Nat /\ Len(ver'[c]) = Len(ver[c]) + 1
      BY <1>3, VersionStoreAssumption
    <2> QED
      BY <2>1, <2>2, <2>3
  <1>6. \A d \in Channels : Len(ver'[d]) <= MaxVersions
    BY <1>2, <1>5 DEF Elsewhere, StoreInv, Typed
  <1> QED
    BY <1>1, <1>2, <1>3, <1>4, <1>5, <1>6

Moves == [Register!Next]_(Register!vars)

LEMMA SaveByHumanKeeps ==
  ASSUME StoreInv, NEW c \in Channels, NEW x \in Contents, SaveByHuman(c, x), UNCHANGED others
  PROVE  StoreInv' /\ Moves
  <1> DEFINE v == Len(ver[c]) + 1
  <1>1. /\ HasRoom(c) /\ ver' = Inserted(c, HumanDraft(x)) /\ Unlocked(c)
        /\ file' = [file EXCEPT ![c] = x] /\ asked' = asked
        /\ pending' = [pending EXCEPT ![c] = Mark("human", v)]
    BY DEF SaveByHuman
  <1>2. /\ ver' \in [Channels -> Seq(RowSet)] /\ Rowed' /\ \A d \in Channels : SameRegister(d)
        /\ \A d \in Channels : /\ Rows(d) \subseteq Rows(d)'
                               /\ Len(ver[d]) <= Len(ver'[d]) /\ Len(ver'[d]) <= MaxVersions
        /\ \A d \in Channels : \A w \in Rows(d) : Settles(ver[d][w], ver'[d][w])
        /\ \A d \in Channels : \A w \in Rows(d)' \ Rows(d) : ver'[d][w].by = "human"
        /\ v \in Rows(c)' \ Rows(c)
    BY <1>1, HumanRow
  <1>3. Mark("human", v) \in Marks /\ Mark("human", v).who = "human" /\ Mark("human", v).id = v
    BY DEF Mark, Marks, StoreInv, Typed
  <1>4. /\ file' \in [Channels -> Texts] /\ pending' \in [Channels -> Marks \cup {None}]
        /\ asked' \in [Channels -> SUBSET Nat]
    BY <1>1, <1>3 DEF StoreInv, Typed, Texts
  <1> HIDE DEF v
  <1>5. OperatorRows'
    <2>1. ASSUME NEW d \in Channels
          PROVE  Requested(ver'[d], asked'[d], pending'[d])
      <3>1. Requested(ver[d], asked[d], pending[d])
        BY DEF StoreInv, OperatorRows
      <3>2. Requested(ver'[d], asked'[d], pending[d])
        BY <1>1, <1>2, <3>1, RequestedKept DEF Settles, Rows
      <3>3. CASE d = c
        BY <1>1, <1>2, <1>3, <3>1, <3>2, <3>3 DEF StoreInv, Typed, Requested, Rows
      <3>4. CASE d # c
        BY <1>1, <3>2, <3>4 DEF StoreInv, Typed
      <3> QED
        BY <3>3, <3>4
    <2> QED
      BY <2>1 DEF OperatorRows
  <1>6. \A d \in Channels : pending'[d] # None /\ pending'[d].who = "agent" =>
          pending'[d] = pending[d] /\ Latest(d)' = Latest(d)
    BY <1>1, <1>2, <1>3 DEF SameRegister, StoreInv, Typed
  <1>7. StoreInv'
    BY <1>2, <1>4, <1>5, <1>6, OperatorFrame DEF Settles
  <1> QED
    BY <1>2, <1>7, RegisterStutters DEF Moves

LEMMA ReviseByHumanKeeps ==
  ASSUME StoreInv, NEW c \in Channels, NEW x \in Contents, ReviseByHuman(c, x), UNCHANGED others
  PROVE  StoreInv' /\ Moves
  <1> DEFINE v == Len(ver[c]) + 1
  <1>1. /\ HasRoom(c) /\ ver' = Inserted(c, HumanDraft(x)) /\ file' = file /\ pending' = pending
        /\ asked' = [asked EXCEPT ![c] = @ \cup {v}]
    BY DEF ReviseByHuman
  <1>2. /\ ver' \in [Channels -> Seq(RowSet)] /\ Rowed' /\ \A d \in Channels : SameRegister(d)
        /\ \A d \in Channels : /\ Rows(d) \subseteq Rows(d)'
                               /\ Len(ver[d]) <= Len(ver'[d]) /\ Len(ver'[d]) <= MaxVersions
        /\ \A d \in Channels : \A w \in Rows(d) : Settles(ver[d][w], ver'[d][w])
        /\ \A d \in Channels : \A w \in Rows(d)' \ Rows(d) :
             ver'[d][w].by = "human" /\ ver'[d][w].status = "draft"
        /\ v \in Rows(c)' \ Rows(c) /\ v \in Nat
    BY <1>1, HumanRow DEF StoreInv, Typed
  <1> HIDE DEF v
  <1>3. asked' \in [Channels -> SUBSET Nat]
    BY <1>1, <1>2 DEF StoreInv, Typed
  <1>4. OperatorRows'
    <2>1. ASSUME NEW d \in Channels
          PROVE  Requested(ver'[d], asked'[d], pending'[d])
      <3>1. Requested(ver[d], asked[d], pending[d])
        BY DEF StoreInv, OperatorRows
      <3>2. Requested(ver'[d], asked[d], pending'[d])
        BY <1>1, <1>2, <3>1, RequestedKept DEF Settles, Rows
      <3>3. CASE d = c
        <4>1. asked'[c] = asked[c] \cup {v}
          BY <1>1 DEF StoreInv, Typed
        <4>2. pending[c] # None => pending[c].id # v
          BY <1>2, <3>1, <3>3 DEF Requested, Rows
        <4> QED
          BY <1>1, <1>2, <3>2, <3>3, <4>1, <4>2 DEF Requested, Rows
      <3>4. CASE d # c
        BY <1>1, <3>2, <3>4 DEF StoreInv, Typed
      <3> QED
        BY <3>3, <3>4
    <2> QED
      BY <2>1 DEF OperatorRows
  <1>5. \A d \in Channels : Latest(d)' = Latest(d)
    BY <1>2 DEF SameRegister
  <1>6. StoreInv'
    BY <1>1, <1>2, <1>3, <1>4, <1>5, OperatorFrame DEF Settles, StoreInv, Typed
  <1> QED
    BY <1>2, <1>6, RegisterStutters DEF Moves

LEMMA ApplyRevisionKeeps ==
  ASSUME StoreInv, NEW c \in Channels, ApplyRevision(c), UNCHANGED others
  PROVE  StoreInv' /\ Moves
  <1> USE DEF StoreInv
  <1>1. PICK v \in asked[c] :
          /\ asked' = [asked EXCEPT ![c] = @ \ {v}]
          /\ IF Stale(c, v)
             THEN ver' = Marked(c, v, "discarded") /\ UNCHANGED <<file, pending>>
             ELSE /\ file' = [file EXCEPT ![c] = ver[c][v].content]
                  /\ pending' = [pending EXCEPT ![c] = Mark("human", v)]
                  /\ UNCHANGED ver
    BY DEF ApplyRevision
  <1>2. Unlocked(c) /\ v \in Rows(c) /\ ver[c][v].status # "applied" /\ ver[c][v].by = "human"
    BY DEF ApplyRevision, OperatorRows, Requested, Rows
  <1>3. v \in Nat /\ ver[c][v] \in RowSet
    BY <1>2 DEF Typed, Rows
  <1>4. asked' \in [Channels -> SUBSET Nat] /\ \A d \in Channels : asked'[d] \subseteq asked[d]
    BY <1>1 DEF Typed
  <1>5. OnlyKept /\ ver' \in [Channels -> Seq(RowSet)]
    <2>1. CASE Stale(c, v)
      BY <1>1, <1>2, <2>1, MarksRows DEF OnlyKept, Status
    <2>2. CASE ~Stale(c, v)
      BY <1>1, <2>2, UnchangedRows DEF Typed
    <2> QED
      BY <2>1, <2>2
  <1>6. /\ Rowed' /\ \A d \in Channels : SameRegister(d) /\ Rows(d)' = Rows(d)
        /\ \A d \in Channels : Len(ver'[d]) = Len(ver[d])
        /\ \A d \in Channels : \A w \in Rows(d) : Settles(ver[d][w], ver'[d][w])
    BY <1>5, OnlyKeptRows
  <1>7. file' \in [Channels -> Texts]
    BY <1>1, <1>3 DEF Typed, RowSet
  <1>8. \/ pending' = pending
        \/ pending' = [pending EXCEPT ![c] = Mark("human", v)]
    BY <1>1
  <1>9. /\ Mark("human", v) \in Marks /\ Mark("human", v).who = "human"
        /\ Mark("human", v).id = v
    BY <1>3 DEF Mark, Marks
  <1>10. pending' \in [Channels -> Marks \cup {None}]
    BY <1>8, <1>9 DEF Typed
  <1>11. OperatorRows'
    <2>1. ASSUME NEW d \in Channels
          PROVE  Requested(ver'[d], asked'[d], pending'[d])
      <3>1. Requested(ver[d], asked[d], pending[d])
        BY DEF OperatorRows
      <3>2. Requested(ver'[d], asked'[d], pending[d])
        BY <1>4, <1>6, <3>1, RequestedKept DEF Settles, Rows
      <3>3. CASE d = c /\ pending'[d] = Mark("human", v)
        <4>1. v \notin asked'[d]
          BY <1>1, <3>3 DEF Typed
        <4>2. v \in Rows(d)' /\ ver'[d][v].by = "human"
          BY <1>2, <1>6, <3>3 DEF Settles, Same
        <4> QED
          BY <1>9, <3>2, <3>3, <4>1, <4>2 DEF Requested, Rows
      <3> QED
        BY <1>8, <3>2, <3>3 DEF Typed
    <2> QED
      BY <2>1 DEF OperatorRows
  <1>12. \A d \in Channels : pending'[d] # None /\ pending'[d].who = "agent" =>
           pending'[d] = pending[d] /\ Latest(d)' = Latest(d)
    BY <1>6, <1>8, <1>9 DEF SameRegister, Typed
  <1>13. \A d \in Channels : /\ Rows(d) \subseteq Rows(d)' /\ Rows(d)' \ Rows(d) = {}
                             /\ Len(ver[d]) <= Len(ver'[d]) /\ Len(ver'[d]) <= MaxVersions
    <2>1. \A d \in Channels : Len(ver[d]) \in Nat /\ Len(ver[d]) <= MaxVersions
      BY DEF Typed
    <2> QED
      BY <1>6, <2>1
  <1>14. \A d \in Channels : \A w \in Rows(d) :
           /\ Same(ver[d][w], ver'[d][w])
           /\ ver'[d][w].status = "applied" => ver[d][w].status = "applied"
    BY <1>6 DEF Settles
  <1>15. StoreInv'
    BY <1>4, <1>5, <1>6, <1>7, <1>10, <1>11, <1>12, <1>13, <1>14, OperatorFrame
  <1> QED
    BY <1>6, <1>15, RegisterStutters DEF Moves

(* A step of the operator that leaves the table alone.                     *)
LEMMA NoRowWritten ==
  ASSUME StoreInv, ver' = ver, asked' = asked, UNCHANGED others, file' \in [Channels -> Texts],
         pending' \in [Channels -> Marks \cup {None}],
         \A d \in Channels : \/ pending'[d] \in {pending[d], None}
                             \/ /\ pending'[d].who = "rollback" /\ pending'[d].id \in Rows(d)
  PROVE  StoreInv' /\ Moves
  <1> USE DEF StoreInv
  <1>1. OnlyKept
    BY UnchangedRows
  <1>2. /\ Rowed' /\ \A d \in Channels : SameRegister(d) /\ Rows(d)' = Rows(d)
        /\ \A d \in Channels : Len(ver'[d]) = Len(ver[d])
    BY <1>1, OnlyKeptRows
  <1>3. OperatorRows'
    BY DEF OperatorRows, Requested, Rows
  <1>4. \A d \in Channels : /\ Rows(d) \subseteq Rows(d)' /\ Rows(d)' \ Rows(d) = {}
                            /\ Len(ver[d]) <= Len(ver'[d]) /\ Len(ver'[d]) <= MaxVersions
    <2>1. \A d \in Channels : Len(ver[d]) \in Nat /\ Len(ver[d]) <= MaxVersions
      BY DEF Typed
    <2> QED
      BY <1>2, <2>1
  <1>5. \A d \in Channels : pending'[d] # None /\ pending'[d].who = "agent" =>
          pending'[d] = pending[d] /\ Latest(d)' = Latest(d)
    BY <1>2 DEF SameRegister
  <1>6. ver' \in [Channels -> Seq(RowSet)] /\ asked' \in [Channels -> SUBSET Nat]
    BY DEF Typed
  <1>7. StoreInv'
    BY <1>2, <1>3, <1>4, <1>5, <1>6, OperatorFrame DEF Same
  <1> QED
    BY <1>2, <1>7, RegisterStutters DEF Moves

LEMMA HotEditKeeps ==
  ASSUME StoreInv, NEW c \in Channels, NEW x \in Contents, HotEdit(c, x), UNCHANGED others
  PROVE  StoreInv' /\ Moves
  <1>1. file' \in [Channels -> Texts]
    BY DEF HotEdit, StoreInv, Typed, Texts
  <1> QED
    BY <1>1, NoRowWritten DEF HotEdit, StoreInv, Typed

LEMMA RollbackKeeps ==
  ASSUME StoreInv, NEW c \in Channels, NEW v \in Ids, Rollback(c, v), UNCHANGED others
  PROVE  StoreInv' /\ Moves
  <1>1. /\ v \in Rows(c) /\ file' = [file EXCEPT ![c] = ver[c][v].content]
        /\ pending' = [pending EXCEPT ![c] = Mark("rollback", v)]
        /\ UNCHANGED <<ver, asked>>
    BY DEF Rollback
  <1>2. ver[c][v].content \in Texts /\ v \in Nat
    <2>1. ver[c] \in Seq(RowSet) /\ v \in DOMAIN ver[c]
      BY <1>1 DEF StoreInv, Typed, Rows
    <2>2. ver[c][v] \in RowSet /\ v \in Nat
      BY <2>1, RowNumbers
    <2> QED
      BY <2>2 DEF RowSet
  <1>3. /\ Mark("rollback", v) \in Marks /\ Mark("rollback", v).who = "rollback"
        /\ Mark("rollback", v).id = v
    BY <1>2 DEF Mark, Marks
  <1>4. file' \in [Channels -> Texts] /\ pending' \in [Channels -> Marks \cup {None}]
    BY <1>1, <1>2, <1>3 DEF StoreInv, Typed
  <1>5. \A d \in Channels : \/ pending'[d] \in {pending[d], None}
                            \/ pending'[d].who = "rollback" /\ pending'[d].id \in Rows(d)
    BY <1>1, <1>3 DEF StoreInv, Typed
  <1> QED
    BY <1>1, <1>4, <1>5, NoRowWritten

LEMMA RecordOperatorKeeps ==
  ASSUME StoreInv, NEW c \in Channels, RecordOperator(c), UNCHANGED others
  PROVE  StoreInv' /\ Moves
  <1> DEFINE v == pending[c].id
             row == Row(ver[c][v].content, "rollback", "applied", None, 0, 0)
  <1> USE DEF StoreInv
  <1>1. /\ pending[c] # None /\ pending[c].who # "agent" /\ pending' = [pending EXCEPT ![c] = None]
        /\ file' = file /\ asked' = asked
        /\ pending[c].who = "rollback" => HasRoom(c)
    BY DEF RecordOperator
  <1>2. /\ file' \in [Channels -> Texts] /\ pending' \in [Channels -> Marks \cup {None}]
        /\ asked' \in [Channels -> SUBSET Nat] /\ pending'[c] = None
        /\ \A d \in Channels \ {c} : pending'[d] = pending[d]
    BY <1>1 DEF Typed
  <1>3. /\ v \in Rows(c) /\ v \in Nat \ {0} /\ ver[c][v] \in RowSet /\ v <= Len(ver[c])
        /\ Len(ver[c]) \in Nat /\ Len(ver[c]) <= MaxVersions
        /\ pending[c].who = "human" => ver[c][v].by = "human" /\ v \notin asked[c]
    BY <1>1 DEF Typed, OperatorRows, Requested, Rows
  <1>4. \A d \in Channels : Requested(ver[d], asked[d], pending[d])
    BY DEF OperatorRows
  <1>5. pending[c].who \in {"human", "rollback"}
    BY <1>1 DEF Typed, Marks
  <1>6. CASE ver' = ver
    BY <1>1, <1>2, <1>6, NoRowWritten
  <1>7. CASE pending[c].who = "human" /\ ver' = Marked(c, v, "applied")
    <2>1. /\ ver' \in [Channels -> Seq(RowSet)] /\ Elsewhere(c, ver')
          /\ MarkedAs(ver[c], ver'[c], v)
      BY <1>3, <1>7, MarksRows DEF Status
    <2>2. /\ Rowed' /\ \A d \in Channels \ {c} : SameRegister(d)
          /\ \A d \in Channels : Rows(d)' = Rows(d) /\ Len(ver'[d]) = Len(ver[d])
          /\ \A d \in Channels : \A w \in Rows(d) : /\ Same(ver[d][w], ver'[d][w])
                                                    /\ d # c \/ w # v => ver'[d][w] = ver[d][w]
          /\ Latest(c)' = IF v > Latest(c) THEN v ELSE Latest(c)
          /\ Proposed(ver[c])' = Proposed(ver[c])
      BY <1>3, <2>1, MarkedRow
    <2>3. OperatorRows'
      <3>1. ASSUME NEW d \in Channels
            PROVE  Requested(ver'[d], asked'[d], pending'[d])
        <4>1. pending'[d] \in {pending[d], None}
          BY <1>2
        <4>2. \A w \in asked[d] : d # c \/ w # v
          BY <1>3, <1>7
        <4> QED
          BY <1>1, <1>4, <2>2, <4>1, <4>2, RequestedKept DEF Rows
      <3> QED
        BY <3>1 DEF OperatorRows
    <2>4. \A d \in Channels : /\ Rows(d) \subseteq Rows(d)' /\ Rows(d)' \ Rows(d) = {}
                              /\ Len(ver[d]) <= Len(ver'[d]) /\ Len(ver'[d]) <= MaxVersions
      <3>1. \A d \in Channels : Len(ver[d]) \in Nat /\ Len(ver[d]) <= MaxVersions
        BY DEF Typed
      <3> QED
        BY <2>2, <3>1
    <2>5. \A d \in Channels : \A w \in Rows(d) :
            /\ Same(ver[d][w], ver'[d][w])
            /\ ver'[d][w].status = "applied" =>
                 ver[d][w].status = "applied" \/ ver[d][w].by = "human"
      BY <1>3, <1>7, <2>2
    <2>6. \A d \in Channels : pending'[d] # None /\ pending'[d].who = "agent" =>
            pending'[d] = pending[d] /\ Latest(d)' = Latest(d)
      BY <1>2, <2>2 DEF SameRegister
    <2>7. StoreInv'
      BY <1>2, <2>1, <2>2, <2>3, <2>4, <2>5, <2>6, OperatorFrame
    <2>8. CASE v > Latest(c)
      <3>1. v \in Ids /\ v \notin Agents(ver[c])
        <4> HIDE DEF v, StoreInv
        <4>3. MaxVersions \in Nat
          BY VersionStoreAssumption
        <4>1. v <= MaxVersions /\ MaxVersions \in Nat
          BY <1>3, <4>3
        <4>2. v \in Ids
          BY <1>3, <4>1 DEF Ids
        <4> QED
          BY <1>3, <1>7, <4>2 DEF Agents
      <3> QED
        BY <2>2, <2>7, <2>8, <3>1, RegisterOverrides DEF Moves
    <2>9. CASE ~(v > Latest(c))
      BY <2>2, <2>7, <2>9, RegisterStutters DEF Moves, SameRegister
    <2> QED
      BY <2>8, <2>9
  <1>8. CASE pending[c].who = "rollback" /\ ver' = Inserted(c, row)
    <2>1. row \in RowSet /\ row.by = "rollback" /\ row.status = "applied"
      BY <1>3 DEF Row, RowSet, Texts, Status
    <2> HIDE DEF row
    <2>2. /\ ver' \in [Channels -> Seq(RowSet)] /\ Elsewhere(c, ver')
          /\ Added(ver[c], ver'[c], row)
      BY <1>8, <2>1, InsertedRows
    <2>3. /\ Rowed' /\ \A d \in Channels \ {c} : SameRegister(d)
          /\ Len(ver'[c]) = Len(ver[c]) + 1 /\ Latest(c) < Len(ver'[c])
          /\ \A d \in Channels : Len(ver[d]) <= Len(ver'[d]) /\ Rows(d) \subseteq Rows(d)'
          /\ \A d \in Channels : \A w \in Rows(d) : Settles(ver[d][w], ver'[d][w])
          /\ \A d \in Channels : \A w \in Rows(d)' \ Rows(d) : d = c /\ ver'[d][w] = row
          /\ Latest(c)' = Len(ver'[c]) /\ Proposed(ver[c])' = Proposed(ver[c])
      BY <2>1, <2>2, AddedRow
    <2>4. OperatorRows'
      <3>1. ASSUME NEW d \in Channels
            PROVE  Requested(ver'[d], asked'[d], pending'[d])
        <4>1. pending'[d] \in {pending[d], None}
          BY <1>2
        <4> QED
          BY <1>1, <1>4, <2>3, <4>1, RequestedKept DEF Rows, Settles
      <3> QED
        BY <3>1 DEF OperatorRows
    <2>5. Len(ver'[c]) <= MaxVersions /\ \A d \in Channels : Len(ver'[d]) <= MaxVersions
      <3>1. Len(ver[c]) < MaxVersions /\ MaxVersions \in Nat
        BY <1>1, <1>8, VersionStoreAssumption DEF HasRoom
      <3>2. Len(ver'[c]) <= MaxVersions
        BY <1>3, <2>3, <3>1
      <3> QED
        BY <2>2, <3>2 DEF Elsewhere, Typed
    <2>6. \A d \in Channels : pending'[d] # None /\ pending'[d].who = "agent" =>
            pending'[d] = pending[d] /\ Latest(d)' = Latest(d)
      BY <1>2, <2>3 DEF SameRegister
    <2>7. StoreInv'
      BY <1>2, <2>1, <2>2, <2>3, <2>4, <2>5, <2>6, OperatorFrame DEF Settles
    <2>8. Len(ver'[c]) \in Ids /\ Len(ver'[c]) \notin Agents(ver[c])
      <3>1. Rows(c) = 1..Len(ver[c]) /\ MaxVersions \in Nat
        BY RowNumbers, VersionStoreAssumption DEF Typed, Rows
      <3> QED
        BY <1>3, <2>3, <2>5, <3>1 DEF Ids, Agents, Rows
    <2>9. Register!Next
      <3> DEFINE id == Len(ver'[c])
      <3>1. /\ id \in Ids /\ id > Latest(c) /\ id \notin Agents(ver[c]) /\ Latest(c)' = id
            /\ \A d \in Channels \ {c} : SameRegister(d)
            /\ Proposed(ver[c])' = Proposed(ver[c])
        <4>1. Latest(c) \in Nat
          <5>1. PICK m \in Nat : IsLatest(ver[c], m)
            BY DEF Rowed
          <5> QED
            BY <5>1, LatestUnique DEF Latest, Typed
        <4> QED
          BY <1>3, <2>3, <2>8, <4>1
      <3> HIDE DEF id
      <3> QED
        BY <3>1, RegisterOverrides
    <2> QED
      BY <2>7, <2>9 DEF Moves
  <1> QED
    BY <1>5, <1>6, <1>7, <1>8 DEF RecordOperator, RecordedRows

-----------------------------------------------------------------------------
(* The steps of the round that write no row but to discard or attach it.   *)
LEMMA KeptFrame ==
  ASSUME StoreInv, OnlyKept, ver' \in [Channels -> Seq(RowSet)], file' \in [Channels -> Texts],
         pending' \in [Channels -> Marks \cup {None}],
         \A c \in Channels : \/ pending'[c] \in {pending[c], None}
                             \/ pending'[c].who = "agent" /\ pending'[c].id \in Rows(c),
         asked' \in [Channels -> SUBSET Nat], \A c \in Channels : asked'[c] \subseteq asked[c],
         draftIds' \in [Channels -> SUBSET Nat], base' \in [Channels -> Bases \cup {None}],
         named' \in [Channels -> Nat], rid' \in 0..MaxRounds, saved' \in BOOLEAN,
         Stamped', Held', Own', (Early => Unapplied)', Backed', reports \subseteq reports'
  PROVE  StoreInv' /\ Moves
  <1> USE DEF StoreInv
  <1>1. /\ Rowed' /\ \A c \in Channels : SameRegister(c) /\ Rows(c)' = Rows(c)
        /\ \A c \in Channels : Len(ver'[c]) = Len(ver[c])
        /\ \A c \in Channels : \A v \in Rows(c) : Settles(ver[c][v], ver'[c][v])
    BY OnlyKeptRows
  <1>2. Typed'
    <2>1. \A c \in Channels : Len(ver'[c]) <= MaxVersions
      BY <1>1 DEF Typed
    <2> QED
      BY <2>1 DEF Typed
  <1>3. OperatorRows'
    <2>1. ASSUME NEW c \in Channels
          PROVE  Requested(ver'[c], asked'[c], pending'[c])
      <3>1. Requested(ver[c], asked[c], pending[c])
        BY DEF OperatorRows
      <3>2. Requested(ver'[c], asked'[c], pending[c]) /\ Requested(ver'[c], asked'[c], None)
        <4>1. /\ DOMAIN ver[c] \subseteq DOMAIN ver'[c] /\ asked'[c] \subseteq asked[c]
              /\ \A v \in DOMAIN ver[c] :
                   /\ Same(ver[c][v], ver'[c][v])
                   /\ ver'[c][v].status \in {ver[c][v].status, "discarded"}
          BY <1>1 DEF Settles, Rows
        <4>2. pending[c] \in {pending[c], None} /\ None \in {pending[c], None}
          OBVIOUS
        <4>3. Requested(ver'[c], asked'[c], pending[c])
          BY <3>1, <4>1, <4>2, RequestedKept
        <4>4. Requested(ver'[c], asked'[c], None)
          BY <4>3 DEF Requested
        <4> QED
          BY <4>3, <4>4
      <3>3. CASE pending'[c].who = "agent" /\ pending'[c].id \in Rows(c)
        BY <1>1, <3>2, <3>3 DEF Requested, Rows
      <3> QED
        BY <3>2, <3>3
    <2> QED
      BY <2>1 DEF OperatorRows
  <1>4. ReportedFirst'
    <2>1. ASSUME NEW c \in Channels, NEW v \in Rows(c)', ver'[c][v].by = "agent",
                 ver'[c][v].status = "applied"
          PROVE  \E r \in reports' : r.round = ver'[c][v].round /\ r.ok
      <3>1. v \in Rows(c) /\ Settles(ver[c][v], ver'[c][v])
        BY <1>1
      <3>2. ver[c][v].by = "agent" /\ ver[c][v].status = "applied"
            /\ ver'[c][v].round = ver[c][v].round
        BY <2>1, <3>1 DEF Settles, Same
      <3> QED
        BY <3>1, <3>2 DEF ReportedFirst
    <2> QED
      BY <2>1 DEF ReportedFirst
  <1>5. StoreInv'
    BY <1>1, <1>2, <1>3, <1>4
  <1> QED
    BY <1>1, <1>5, RegisterStutters DEF Moves

(* The drafts of the round stay what they are.                             *)
LEMMA OwnKept ==
  ASSUME StoreInv, OnlyKept, UNCHANGED <<rid, draftIds, named>>, todo' \subseteq AllDrafts
  PROVE  Own' /\ (Unapplied => Unapplied')
  <1> USE DEF StoreInv
  <1>1. /\ \A c \in Channels : Rows(c)' = Rows(c) /\ Agents(ver'[c]) = Agents(ver[c])
        /\ \A c \in Channels : \A v \in Rows(c) : Settles(ver[c][v], ver'[c][v])
    BY OnlyKeptRows
  <1>2. \A c \in Channels : \A v \in draftIds[c] : Settles(ver[c][v], ver'[c][v])
    BY <1>1 DEF Own, Agents, Rows
  <1>3. AllDrafts' = AllDrafts
    BY DEF AllDrafts
  <1>4. Own'
    BY <1>1, <1>2, <1>3 DEF Own, Settles, Same
  <1>5. Unapplied => Unapplied'
    BY <1>2 DEF Unapplied, Settles
  <1> QED
    BY <1>4, <1>5

LEMMA StampedKept ==
  ASSUME StoreInv, OnlyKept, base' = base, pc' = "chat" => pc = "chat"
  PROVE  Stamped'
  <1>1. \A c \in Channels : Len(ver'[c]) = Len(ver[c])
    BY OnlyKeptRows DEF StoreInv
  <1> QED
    BY <1>1 DEF StoreInv, Stamped

(* A step of the round while no draft is being applied.                    *)
LEMMA QuietKeeps ==
  ASSUME StoreInv, OnlyKept, ver' \in [Channels -> Seq(RowSet)],
         UNCHANGED <<up, file, pending, asked, rid, draftIds, named>>,
         pc # "idle", pc \notin {"apply", "again"} \/ todo = {},
         base' \in [Channels -> Bases \cup {None}], saved' \in BOOLEAN, Stamped',
         todo' \subseteq AllDrafts, Early' => Early, Backed', reports \subseteq reports'
  PROVE  StoreInv' /\ Moves
  <1> USE DEF StoreInv
  <1>1. Own' /\ (Unapplied => Unapplied')
    BY OwnKept
  <1>2. up
    BY DEF Backed
  <1>3. Held'
    BY <1>2, NoneHeld DEF Held
  <1>4. (Early => Unapplied)'
    BY <1>1
  <1>5. /\ file' \in [Channels -> Texts] /\ pending' \in [Channels -> Marks \cup {None}]
        /\ asked' \in [Channels -> SUBSET Nat] /\ draftIds' \in [Channels -> SUBSET Nat]
        /\ named' \in [Channels -> Nat] /\ rid' \in 0..MaxRounds
    BY DEF Typed
  <1> HIDE DEF StoreInv
  <1> QED
    BY <1>1, <1>3, <1>4, <1>5, KeptFrame

(* The round's steps that touch no row.                                    *)
LEMMA UntouchedKeeps ==
  ASSUME StoreInv, UNCHANGED <<file, ver, pending, asked, up, rid, draftIds, named>>,
         pc # "idle", pc \notin {"apply", "again"} \/ todo = {},
         base' = base, saved' \in BOOLEAN, pc' # "chat", todo' \subseteq AllDrafts,
         Early' => Early, Backed', reports \subseteq reports'
  PROVE  StoreInv' /\ Moves
  <1>1. OnlyKept
    BY UnchangedRows DEF StoreInv
  <1>2. Stamped'
    BY <1>1, StampedKept
  <1>3. ver' \in [Channels -> Seq(RowSet)] /\ base' \in [Channels -> Bases \cup {None}]
    BY DEF StoreInv, Typed
  <1> QED
    BY <1>1, <1>2, <1>3, QuietKeeps

(* The steps between "begin" and "tell" that only move the round on.       *)
LEMMA TaskStepsKeep ==
  ASSUME StoreInv,
         TaskStarts \/ ChatEnds \/ SaveBundle \/ DraftsTried \/ CloseAudit \/ TellSuccess
  PROVE  StoreInv' /\ Moves
  <1> USE DEF storeVars, taskVars, ended, Goto
  <1>1. todo \subseteq AllDrafts
    BY DEF StoreInv, Own
  <1>2. Backed /\ saved \in BOOLEAN
    BY DEF StoreInv, Typed
  <1>3. CASE TaskStarts
    <2>1. Early' => Early
      BY <1>3 DEF TaskStarts, Early
    <2>2. Backed'
      BY <1>2, <1>3 DEF TaskStarts, Backed, Committed
    <2> QED
      BY <1>1, <1>2, <1>3, <2>1, <2>2, UntouchedKeeps DEF TaskStarts
  <1>4. CASE ChatEnds
    <2>1. Early' => Early
      BY <1>4 DEF ChatEnds, Early
    <2>2. Backed'
      BY <1>2, <1>4 DEF ChatEnds, Backed, Committed
    <2> QED
      BY <1>1, <1>2, <1>4, <2>1, <2>2, UntouchedKeeps DEF ChatEnds
  <1>5. CASE SaveBundle
    <2>1. PICK rep : /\ rep.round = rid /\ rep.ok
                     /\ \/ /\ pc' = "apply" /\ saved' = TRUE /\ todo' = AllDrafts
                           /\ reports' = reports \cup {rep}
                        \/ /\ pc' = "unwind" /\ UNCHANGED <<saved, todo>>
                           /\ reports' \in {reports, reports \cup {rep}}
      <3>1. PICK today : \/ /\ pc' = "apply" /\ saved' = TRUE /\ todo' = AllDrafts
                            /\ reports' = reports \cup {Report(TRUE, today)}
                         \/ /\ pc' = "unwind" /\ UNCHANGED <<saved, todo>>
                            /\ reports' \in {reports, reports \cup {Report(TRUE, today)}}
        BY <1>5 DEF SaveBundle
      <3>2. Report(TRUE, today).round = rid /\ Report(TRUE, today).ok
        BY DEF Report
      <3> QED
        BY <3>1, <3>2
    <2>3. pc = "save" /\ UNCHANGED <<file, ver, pending, asked, up, rid, draftIds, named, base>>
      BY <1>5 DEF SaveBundle
    <2>4. /\ saved' \in BOOLEAN /\ todo' \subseteq AllDrafts /\ pc' \in {"apply", "unwind"}
          /\ reports \subseteq reports'
          /\ pc' = "apply" => saved'
          /\ saved' => saved \/ rep \in reports'
      <3>1. CASE pc' = "apply" /\ saved' = TRUE /\ todo' = AllDrafts
                 /\ reports' = reports \cup {rep}
        BY <3>1
      <3>2. CASE pc' = "unwind" /\ UNCHANGED <<saved, todo>>
                 /\ reports' \in {reports, reports \cup {rep}}
        <4>1. reports \subseteq reports' /\ todo' \subseteq AllDrafts
          BY <1>1, <3>2
        <4>2. saved' = saved /\ pc' = "unwind"
          BY <3>2
        <4> QED
          BY <1>2, <4>1, <4>2
      <3> QED
        BY <2>1, <3>1, <3>2
    <2>5. Early' => Early
      BY <2>3, <2>4 DEF Early
    <2>6. ASSUME saved'
          PROVE  Committed'
      <3>1. saved \/ rep \in reports'
        BY <2>4, <2>6
      <3>2. CASE saved
        BY <1>2, <2>3, <2>4, <3>2 DEF Backed, Committed
      <3>3. CASE rep \in reports'
        BY <2>1, <2>3, <3>3 DEF Committed
      <3> QED
        BY <3>1, <3>2, <3>3
    <2>7. Backed'
      <3>1. up' /\ (pc' = "apply" => saved')
        BY <1>2, <2>3, <2>4 DEF Backed
      <3> QED
        BY <2>4, <2>6, <3>1 DEF Backed
    <2>8. /\ saved' \in BOOLEAN /\ todo' \subseteq AllDrafts /\ pc' # "chat" /\ pc # "idle"
          /\ pc \notin {"apply", "again"} /\ reports \subseteq reports'
      BY <2>3, <2>4
    <2> QED
      BY <2>3, <2>5, <2>7, <2>8, UntouchedKeeps
  <1>6. CASE DraftsTried
    <2>1. /\ todo = {} /\ todo' \subseteq AllDrafts
          /\ \/ pc = "apply" /\ pc' \in {"attach", "again"}
             \/ pc = "again" /\ pc' = "reattach"
      BY <1>1, <1>6 DEF DraftsTried, Retry
    <2>2. Early' => Early
      BY <2>1 DEF Early
    <2>3. UNCHANGED <<file, ver, pending, asked, up, rid, draftIds, named, base, saved, reports>>
      BY <1>6 DEF DraftsTried
    <2>4. Backed'
      BY <1>2, <2>1, <2>3 DEF Backed, Committed
    <2> QED
      BY <1>2, <2>1, <2>2, <2>3, <2>4, UntouchedKeeps
  <1>7. CASE CloseAudit
    <2>1. /\ pc = "close" /\ pc' \in {"tell", "again"} /\ todo' \subseteq AllDrafts
          /\ UNCHANGED <<file, ver, pending, asked, up, rid, draftIds, named, base, saved,
                         reports>>
      BY <1>1, <1>7 DEF CloseAudit, Retry
    <2>2. Early' => Early
      BY <2>1 DEF Early
    <2>3. Backed'
      BY <1>2, <2>1 DEF Backed, Committed
    <2> QED
      BY <1>2, <2>1, <2>2, <2>3, UntouchedKeeps
  <1>8. CASE TellSuccess
    <2>1. Early' => Early
      BY <1>8 DEF TellSuccess, Early
    <2>2. Backed'
      BY <1>2, <1>8 DEF TellSuccess, Backed, Committed
    <2> QED
      BY <1>1, <1>2, <1>8, <2>1, <2>2, UntouchedKeeps DEF TellSuccess
  <1> QED
    BY <1>3, <1>4, <1>5, <1>6, <1>7, <1>8

(* ... and the steps of a round that has been interrupted.                 *)
LEMMA RecoverySteps ==
  ASSUME StoreInv, Recover \/ Reclose \/ SaveFailure \/ CloseFailed \/ RecordPrestart
  PROVE  StoreInv' /\ Moves
  <1> USE DEF storeVars, taskVars, ended, Goto
  <1>1. todo \subseteq AllDrafts
    BY DEF StoreInv, Own
  <1>2. Backed /\ saved \in BOOLEAN
    BY DEF StoreInv, Typed
  <1>3. CASE Recover
    <2>1. /\ pc = "unwind" /\ todo' \subseteq AllDrafts
          /\ UNCHANGED <<file, ver, pending, asked, up, rid, draftIds, named, base, saved,
                         reports>>
          /\ \/ pc' = "again" /\ (saved \/ Committed)
             \/ pc' = "discard" /\ ~saved
      BY <1>1, <1>3 DEF Recover, Retry
    <2>2. Early' => Early
      BY <2>1 DEF Early
    <2>3. Backed'
      BY <1>2, <2>1 DEF Backed, Committed
    <2> QED
      BY <1>2, <2>1, <2>2, <2>3, UntouchedKeeps
  <1>4. CASE Reclose \/ SaveFailure \/ CloseFailed \/ RecordPrestart
    <2>1. /\ pc \in {"reclose", "report", "refuse", "prestart"} /\ reports \subseteq reports'
          /\ pc' \in {"idle", "refuse"}
          /\ UNCHANGED <<file, ver, pending, asked, up, rid, draftIds, named, base, saved, todo>>
      BY <1>4 DEF Reclose, SaveFailure, CloseFailed, RecordPrestart
    <2>2. Early' => Early
      BY <2>1 DEF Early
    <2>3. Backed'
      BY <1>2, <2>1 DEF Backed, Committed
    <2> QED
      BY <1>1, <1>2, <2>1, <2>2, <2>3, UntouchedKeeps
  <1> QED
    BY <1>3, <1>4

(* A round begins, or the process ends: the task's variables are fresh.    *)
LEMMA FreshTaskKeeps ==
  ASSUME StoreInv, FreshTask, UNCHANGED <<file, ver, pending, asked, reports>>,
         (up /\ pc = "idle" /\ up') \/ ~up', up' \/ pc' = "idle",
         rid' \in 0..MaxRounds, pc' \in {"idle", "reserved", "begin"}
  PROVE  StoreInv' /\ Moves
  <1> USE DEF StoreInv
  <1>1. OnlyKept /\ ver' \in [Channels -> Seq(RowSet)]
    BY UnchangedRows DEF Typed
  <1>2. /\ file' \in [Channels -> Texts] /\ pending' \in [Channels -> Marks \cup {None}]
        /\ asked' \in [Channels -> SUBSET Nat] /\ draftIds' \in [Channels -> SUBSET Nat]
        /\ base' \in [Channels -> Bases \cup {None}] /\ named' \in [Channels -> Nat]
        /\ saved' \in BOOLEAN /\ saved' = FALSE /\ todo' = {}
        /\ \A c \in Channels : draftIds'[c] = {} /\ named'[c] = 0 /\ base'[c] = None
    BY DEF Typed, FreshTask
  <1>3. Held'
    BY NoneHeld DEF Held
  <1>4. Stamped' /\ Own' /\ Unapplied' /\ Backed'
    BY <1>2 DEF Stamped, Own, Unapplied, Backed, AllDrafts
  <1> HIDE DEF StoreInv
  <1> QED
    BY <1>1, <1>2, <1>3, <1>4, KeptFrame

LEMMA BeginningsKeep ==
  ASSUME StoreInv, StartNow \/ Tick \/ Exit
  PROVE  StoreInv' /\ Moves
  <1>1. /\ FreshTask /\ UNCHANGED <<file, ver, pending, asked, reports>>
        /\ (up /\ pc = "idle" /\ up') \/ ~up' 
        /\ up' \/ pc' = "idle"
        /\ pc' \in {"idle", "reserved", "begin"}
    BY DEF StartNow, Tick, Exit, storeVars, Goto
  <1>2. rid' = rid \/ (rid' = rid + 1 /\ rid < MaxRounds)
    BY DEF StartNow, Tick, Exit
  <1>3. rid' \in 0..MaxRounds
    <2>1. rid \in 0..MaxRounds /\ MaxRounds \in Nat
      BY ReviewRoundAssumption DEF StoreInv, Typed
    <2> QED
      BY <1>2, <2>1
  <1> QED
    BY <1>1, <1>3, FreshTaskKeeps

(* The tools and the briefing stamp the bases of what is read.             *)
LEMMA ReadingsKeep ==
  ASSUME StoreInv, BeginRound \/ \E c \in Channels : ReadCurrent(c)
  PROVE  StoreInv' /\ Moves
  <1> USE DEF StoreInv
  <1>1. ASSUME NEW c \in Channels
        PROVE  /\ CurrentBase(c) \in Bases /\ CurrentBase(c) # None
               /\ CurrentBase(c).id <= Len(ver[c])
    <2>1. PICK m \in Nat : IsLatest(ver[c], m)
      BY DEF Rowed
    <2>2. ver[c] \in Seq(RowSet) /\ file[c] \in Texts
      BY DEF Typed
    <2>3. Latest(c) = m /\ m <= Len(ver[c])
      <3>1. m \in 0..Len(ver[c])
        BY <2>1, <2>2 DEF IsLatest
      <3> QED
        BY <2>1, <2>2, <3>1, LatestUnique DEF Latest
    <2>4. CurrentBase(c) \in Bases /\ CurrentBase(c).id = m
      BY <2>2, <2>3 DEF CurrentBase, Bases
    <2> QED
      BY <2>3, <2>4, VersionStoreAssumption DEF Bases, Texts
  <1>2. /\ pc \in {"begin", "chat"} /\ pc' \in {"chat", "unwind"}
        /\ UNCHANGED <<file, ver, pending, asked, up, rid, draftIds, named, saved, todo, reports>>
    BY DEF BeginRound, ReadCurrent, storeVars, ended, Goto
  <1>3. /\ base' \in [Channels -> Bases \cup {None}]
        /\ \A c \in Channels : base'[c] \in {base[c], CurrentBase(c)}
        /\ pc' = "chat" /\ "strategy" \in Channels => base'["strategy"] # None
    <2>1. CASE BeginRound
      <3>1. \/ pc' = "chat" /\ base' = StrategyStamped
            \/ pc' = "unwind" /\ base' = base
        BY <2>1 DEF BeginRound, Goto
      <3> QED
        BY <1>1, <3>1 DEF StrategyStamped, Typed
    <2>2. ASSUME NEW c \in Channels, ReadCurrent(c)
          PROVE  /\ base' \in [Channels -> Bases \cup {None}]
                 /\ \A d \in Channels : base'[d] \in {base[d], CurrentBase(d)}
                 /\ pc' = "chat" /\ "strategy" \in Channels => base'["strategy"] # None
      BY <1>1, <2>2 DEF ReadCurrent, Typed, Stamped
    <2> QED
      BY <2>1, <2>2
  <1>4. OnlyKept /\ ver' \in [Channels -> Seq(RowSet)] /\ saved' \in BOOLEAN
    BY <1>2, UnchangedRows DEF Typed
  <1>5. Stamped'
    BY <1>1, <1>2, <1>3 DEF Stamped
  <1>6. Early' => Early
    BY <1>2 DEF Early
  <1>7. Backed'
    BY <1>2 DEF Backed, Committed
  <1>8. todo' \subseteq AllDrafts
    BY <1>2 DEF Own
  <1> HIDE DEF StoreInv
  <1> QED
    BY <1>2, <1>3, <1>4, <1>5, <1>6, <1>7, <1>8, QuietKeeps

-----------------------------------------------------------------------------
(* The steps that discard rows or attach them.                             *)
Without(rows, S) ==
  [v \in DOMAIN rows |->
     IF v \in S THEN [rows[v] EXCEPT !.status = "discarded"] ELSE rows[v]]

LEMMA WithoutRows ==
  ASSUME NEW rows \in Seq(RowSet), NEW S,
         \A v \in DOMAIN rows : v \in S => rows[v].status # "applied"
  PROVE  Without(rows, S) \in Seq(RowSet) /\ Kept(rows, Without(rows, S))
  <1> DEFINE new == Without(rows, S)
  <1>1. ASSUME NEW v \in DOMAIN rows
        PROVE  new[v] \in RowSet /\ Settles(rows[v], new[v])
    <2>1. rows[v] \in RowSet
      BY RowNumbers
    <2>2. /\ [rows[v] EXCEPT !.status = "discarded"] \in RowSet
          /\ Same(rows[v], [rows[v] EXCEPT !.status = "discarded"])
          /\ [rows[v] EXCEPT !.status = "discarded"].status = "discarded"
      BY <2>1 DEF RowSet, Same, Status
    <2> QED
      BY <2>1, <2>2 DEF Without, Settles, Same
  <1>2. DOMAIN new = 1..Len(rows) /\ DOMAIN new = DOMAIN rows /\ Len(rows) \in Nat
    BY DEF Without
  <1>3. new \in [1..Len(rows) -> RowSet]
    BY <1>1, <1>2 DEF Without
  <1>4. new \in Seq(RowSet)
    BY <1>2, <1>3
  <1> QED
    BY <1>1, <1>2, <1>4 DEF Kept

(* Attaching the round's versions to its report.                           *)
LEMMA AttachedRows ==
  ASSUME StoreInv
  PROVE  Attached \in [Channels -> Seq(RowSet)] /\ \A c \in Channels : Kept(ver[c], Attached[c])
  <1> USE DEF StoreInv
  <1>1. ASSUME NEW c \in Channels
        PROVE  Attached[c] \in Seq(RowSet) /\ Kept(ver[c], Attached[c])
    <2>1. ver[c] \in Seq(RowSet) /\ rid \in Nat
      BY DEF Typed
    <2>2. CASE named[c] = 0
      BY <2>1, <2>2 DEF Attached, Kept, Settles, Same
    <2>3. CASE named[c] # 0
      <3> DEFINE v == named[c]
                 row == [ver[c][v] EXCEPT !.report = rid]
      <3>1. v \in DOMAIN ver[c] /\ ver[c][v] \in RowSet
        BY <2>1, <2>3, RowNumbers DEF Own, Rows
      <3>2. row \in RowSet /\ Settles(ver[c][v], row)
        BY <2>1, <3>1 DEF RowSet, Settles, Same
      <3>3. Attached[c] = [ver[c] EXCEPT ![v] = row]
        BY <2>3 DEF Attached
      <3> HIDE DEF row, v
      <3> QED
        BY <2>1, <3>1, <3>2, <3>3 DEF Kept, Settles, Same
    <2> QED
      BY <2>2, <2>3
  <1> QED
    BY <1>1 DEF Attached

LEMMA AttachKeeps ==
  ASSUME StoreInv, Attach \/ Reattach
  PROVE  StoreInv' /\ Moves
  <1>1. OnlyKept /\ ver' \in [Channels -> Seq(RowSet)]
    <2>1. ver' = ver \/ ver' = Attached
      BY DEF Attach, Reattach
    <2>2. CASE ver' = ver
      BY <2>2, UnchangedRows DEF StoreInv, Typed
    <2>3. CASE ver' = Attached
      BY <2>3, AttachedRows DEF OnlyKept
    <2> QED
      BY <2>1, <2>2, <2>3
  <1>2. /\ UNCHANGED <<up, file, pending, asked, rid, draftIds, named, base, saved, reports>>
        /\ \/ pc = "attach" /\ pc' \in {"close", "again"}
           \/ pc = "reattach" /\ pc' = "reclose"
        /\ todo' \in {todo, AllDrafts}
    BY DEF Attach, Reattach, taskVars, ended, Goto, Retry
  <1>3. Stamped'
    BY <1>1, <1>2, StampedKept
  <1>4. todo' \subseteq AllDrafts
    BY <1>2 DEF StoreInv, Own
  <1>5. Early' => Early
    BY <1>2 DEF Early
  <1>6. Backed'
    BY <1>2 DEF StoreInv, Backed, Committed
  <1>7. base' \in [Channels -> Bases \cup {None}] /\ saved' \in BOOLEAN
    BY <1>2 DEF StoreInv, Typed
  <1> QED
    BY <1>1, <1>2, <1>3, <1>4, <1>5, <1>6, <1>7, QuietKeeps

LEMMA DiscardDraftsKeeps ==
  ASSUME StoreInv, DiscardDrafts
  PROVE  StoreInv' /\ Moves
  <1>1. PICK kept \in SUBSET Channels :
          ver' = [c \in Channels |-> [v \in Rows(c) |->
                    IF c \notin kept /\ v \in draftIds[c]
                    THEN [ver[c][v] EXCEPT !.status = "discarded"] ELSE ver[c][v]]]
    BY DEF DiscardDrafts
  <1>2. /\ UNCHANGED <<up, file, pending, asked, rid, draftIds, named, base, saved, reports, todo>>
        /\ pc = "discard" /\ pc' = "report"
    BY DEF DiscardDrafts, taskVars, ended, Goto
  <1>3. ASSUME NEW c \in Channels
        PROVE  ver'[c] \in Seq(RowSet) /\ Kept(ver[c], ver'[c])
    <2> DEFINE S == IF c \in kept THEN {} ELSE draftIds[c]
    <2>1. ver'[c] = Without(ver[c], S)
      BY <1>1 DEF Without, Rows
    <2>2. \A v \in DOMAIN ver[c] : v \in S => ver[c][v].status # "applied"
      BY <1>2 DEF StoreInv, Early, Unapplied
    <2>3. ver[c] \in Seq(RowSet)
      BY DEF StoreInv, Typed
    <2> HIDE DEF S
    <2> QED
      BY <2>1, <2>2, <2>3, WithoutRows
  <1>4. OnlyKept /\ ver' \in [Channels -> Seq(RowSet)]
    BY <1>1, <1>3 DEF OnlyKept
  <1>5. Stamped'
    BY <1>2, <1>4, StampedKept
  <1>6. todo' \subseteq AllDrafts
    BY <1>2 DEF StoreInv, Own
  <1>7. Early' => Early
    BY <1>2 DEF Early
  <1>8. Backed'
    BY <1>2 DEF StoreInv, Backed, Committed
  <1>9. base' \in [Channels -> Bases \cup {None}] /\ saved' \in BOOLEAN
    BY <1>2 DEF StoreInv, Typed
  <1> QED
    BY <1>2, <1>4, <1>5, <1>6, <1>7, <1>8, <1>9, QuietKeeps

(* At a restart no draft survives, and the table decides.                  *)
LEMMA RestartKeeps ==
  ASSUME StoreInv, Restart
  PROVE  StoreInv' /\ Moves
  <1> USE DEF StoreInv
  <1>1. ASSUME NEW c \in Channels
        PROVE  /\ ver'[c] \in Seq(RowSet) /\ Kept(ver[c], ver'[c])
               /\ file'[c] \in Texts
    <2> DEFINE S == {v \in DOMAIN ver[c] : ver[c][v].status = "draft"}
    <2>1. ver'[c] = Without(ver[c], S)
      BY DEF Restart, Reconcile, Discarded, Without
    <2>2. ver[c] \in Seq(RowSet) /\ file[c] \in Texts
      BY DEF Typed
    <2>3. PICK m \in Nat : IsLatest(ver[c], m)
      BY DEF Rowed
    <2>4. Latest(c) = m
      BY <2>2, <2>3, LatestUnique DEF Latest
    <2>5. m # 0 => ver[c][m].content \in Texts
      <3>1. m # 0 => m \in DOMAIN ver[c]
        BY <2>3 DEF IsLatest
      <3>2. m # 0 => ver[c][m] \in RowSet
        BY <2>2, <3>1, RowNumbers
      <3> QED
        BY <3>2 DEF RowSet
    <2>6. file'[c] \in Texts
      BY <2>2, <2>4, <2>5 DEF Restart, Reconcile
    <2>7. \A v \in DOMAIN ver[c] : v \in S => ver[c][v].status # "applied"
      OBVIOUS
    <2> HIDE DEF S
    <2> QED
      BY <2>1, <2>2, <2>6, <2>7, WithoutRows
  <1>2. /\ OnlyKept /\ ver' \in [Channels -> Seq(RowSet)] /\ file' \in [Channels -> Texts]
    BY <1>1 DEF OnlyKept, Restart, Reconcile
  <1>3. /\ pending' = [c \in Channels |-> None] /\ asked' = [c \in Channels |-> {}] /\ up'
        /\ UNCHANGED <<pc, rid, draftIds, named, base, saved, reports, todo>>
    BY DEF Restart, Reconcile, taskVars
  <1>4. /\ pending' \in [Channels -> Marks \cup {None}] /\ asked' \in [Channels -> SUBSET Nat]
        /\ draftIds' \in [Channels -> SUBSET Nat] /\ base' \in [Channels -> Bases \cup {None}]
        /\ named' \in [Channels -> Nat] /\ rid' \in 0..MaxRounds /\ saved' \in BOOLEAN
    BY <1>3 DEF Typed
  <1>5. Own' /\ (Unapplied => Unapplied')
    BY <1>2, <1>3, OwnKept DEF Own
  <1>6. Stamped'
    BY <1>2, <1>3, StampedKept
  <1>7. Held'
    BY <1>3 DEF Held
  <1>8. (Early => Unapplied)'
    BY <1>3, <1>5 DEF Early
  <1>9. Backed'
    BY <1>3 DEF Backed, Committed
  <1> HIDE DEF StoreInv
  <1> QED
    BY <1>2, <1>3, <1>4, <1>5, <1>6, <1>7, <1>8, <1>9, KeptFrame

-----------------------------------------------------------------------------
(* The steps that apply a draft.                                           *)
LEMMA SkipDraftKeeps ==
  ASSUME StoreInv, NEW c \in Channels, NEW v \in Ids, SkipDraft(c, v)
  PROVE  StoreInv' /\ Moves
  <1> USE DEF StoreInv
  <1>1. /\ Applying(c, v) /\ Unlocked(c) /\ todo' \subseteq todo
        /\ UNCHANGED <<up, file, pending, asked, rid, draftIds, named, base, saved, reports, pc>>
        /\ \/ ver' = ver
           \/ ~Replaced(c, v) /\ Stale(c, v) /\ ver' = Marked(c, v, "discarded")
    BY DEF SkipDraft, Tried, stay, ended
  <1>2. v \in draftIds[c] /\ v \in Rows(c) /\ pc \in {"apply", "again"}
    BY <1>1 DEF Applying, Own, AllDrafts, Agents, Rows
  <1>3. OnlyKept /\ ver' \in [Channels -> Seq(RowSet)]
    <2>1. CASE ver' = ver
      BY <2>1, UnchangedRows DEF Typed
    <2>2. CASE ~Replaced(c, v) /\ Stale(c, v) /\ ver' = Marked(c, v, "discarded")
      <3>1. ver[c][v].status # "applied"
        <4>1. PICK m \in Nat : IsLatest(ver[c], m)
          BY DEF Rowed
        <4>2. Latest(c) = m
          BY <4>1, LatestUnique DEF Latest, Typed
        <4>3. SUFFICES ASSUME ver[c][v].status = "applied"
                       PROVE  FALSE
          OBVIOUS
        <4>4. m = 0 \/ m = v
          BY <2>2, <4>2, <4>3 DEF Replaced
        <4>5. m # v
          BY <2>2, <4>2 DEF Stale
        <4>6. v <= m /\ v \in Nat \ {0}
          BY <1>2, <4>1, <4>3 DEF IsLatest, Rows, Ids
        <4> QED
          BY <4>4, <4>5, <4>6
      <3> QED
        BY <1>2, <2>2, <3>1, MarksRows DEF OnlyKept, Status
    <2> QED
      BY <1>1, <2>1, <2>2
  <1>4. up
    BY <1>2 DEF Backed
  <1>5. \A d \in Channels : pending[d] # None => pending[d].who # "agent"
    BY <1>1, <1>4, NoneHeld
  <1>6. Held'
    BY <1>1, <1>5 DEF Held
  <1>7. Own' /\ ~Early'
    BY <1>1, <1>2, <1>3, OwnKept DEF Own, Early
  <1>8. Stamped'
    BY <1>1, <1>3, StampedKept
  <1>9. Backed'
    BY <1>1 DEF Backed, Committed
  <1>10. /\ file' \in [Channels -> Texts] /\ pending' \in [Channels -> Marks \cup {None}]
         /\ asked' \in [Channels -> SUBSET Nat] /\ draftIds' \in [Channels -> SUBSET Nat]
         /\ base' \in [Channels -> Bases \cup {None}]
         /\ named' \in [Channels -> Nat] /\ rid' \in 0..MaxRounds /\ saved' \in BOOLEAN
    BY <1>1 DEF Typed
  <1>11. (Early => Unapplied)'
    BY <1>7
  <1> HIDE DEF StoreInv
  <1> QED
    BY <1>1, <1>3, <1>6, <1>7, <1>8, <1>9, <1>10, <1>11, KeptFrame

(* What is not stale is written on the current version, or has become it.  *)
LEMMA FreshDraft ==
  ASSUME StoreInv, NEW c \in Channels, NEW v \in Agents(ver[c]), ~Stale(c, v)
  PROVE  ver[c][v].baseId \in {Latest(c), 0} \/ v <= Latest(c)
  <1>1. ver[c][v].base # None
    <2>1. ver[c][v].base \in Texts
      BY DEF StoreInv, Rowed
    <2> QED
      BY <2>1, VersionStoreAssumption DEF Texts
  <1>2. v \in Nat
    BY RowNumbers DEF StoreInv, Typed, Agents
  <1> QED
    BY <1>1, <1>2 DEF Stale

LEMMA WriteDraftKeeps ==
  ASSUME StoreInv, NEW c \in Channels, NEW v \in Ids, WriteDraft(c, v)
  PROVE  StoreInv' /\ Moves
  <1> USE DEF StoreInv
  <1>1. /\ Applying(c, v) /\ Unlocked(c) /\ todo' \subseteq todo /\ ~Stale(c, v)
        /\ UNCHANGED <<ver, up, asked, rid, draftIds, named, base, saved, reports, pc>>
        /\ \/ /\ file' = [file EXCEPT ![c] = ver[c][v].content] /\ todo' = todo
              /\ pending' = [pending EXCEPT ![c] = Mark("agent", v)]
           \/ UNCHANGED <<file, pending>>
    BY DEF WriteDraft, Tried, stay, ended
  <1>2. /\ v \in draftIds[c] /\ v \in Rows(c) /\ pc \in {"apply", "again"}
        /\ v \in Agents(ver[c])
    BY <1>1 DEF Applying, Own, AllDrafts, Agents, Rows
  <1>3. OnlyKept /\ ver' \in [Channels -> Seq(RowSet)]
    BY <1>1, UnchangedRows DEF Typed
  <1>4. up
    BY <1>2 DEF Backed
  <1>5. \A d \in Channels : pending[d] # None => pending[d].who # "agent"
    BY <1>1, <1>4, NoneHeld
  <1>6. /\ Mark("agent", v) \in Marks /\ Mark("agent", v).who = "agent"
        /\ Mark("agent", v).id = v
    BY DEF Mark, Marks, Ids
  <1>7. ver[c][v].content \in Texts
    <2>1. ver[c][v] \in RowSet
      BY <1>2, RowNumbers DEF Typed, Rows
    <2> QED
      BY <2>1 DEF RowSet
  <1>8. /\ file' \in [Channels -> Texts] /\ pending' \in [Channels -> Marks \cup {None}]
    BY <1>1, <1>6, <1>7 DEF Typed
  <1>9. Held'
    <2>1. CASE UNCHANGED pending
      BY <1>1, <1>5, <2>1 DEF Held
    <2>2. CASE todo' = todo /\ pending' = [pending EXCEPT ![c] = Mark("agent", v)]
      <3>1. \A d \in Channels : pending'[d] # None /\ pending'[d].who = "agent" =>
              d = c /\ pending'[d].id = v
        BY <1>5, <1>6, <2>2 DEF Typed
      <3>2. Applying(c, v)'
        BY <1>1, <2>2 DEF Applying
      <3>3. ver[c][v].baseId \in {Latest(c), 0} \/ v <= Latest(c)
        BY <1>1, <1>2, FreshDraft
      <3>4. Latest(c)' = Latest(c) /\ ver'[c] = ver[c]
        BY <1>1 DEF Latest
      <3> QED
        BY <3>1, <3>2, <3>3, <3>4 DEF Held
    <2> QED
      BY <1>1, <2>1, <2>2
  <1>10. Own' /\ ~Early'
    BY <1>1, <1>2, <1>3, OwnKept DEF Own, Early
  <1>11. Stamped'
    BY <1>1, <1>3, StampedKept
  <1>12. Backed'
    BY <1>1 DEF Backed, Committed
  <1>13. /\ asked' \in [Channels -> SUBSET Nat] /\ draftIds' \in [Channels -> SUBSET Nat]
         /\ base' \in [Channels -> Bases \cup {None}]
         /\ named' \in [Channels -> Nat] /\ rid' \in 0..MaxRounds /\ saved' \in BOOLEAN
    BY <1>1 DEF Typed
  <1>14. \A d \in Channels : \/ pending'[d] \in {pending[d], None}
                             \/ pending'[d].who = "agent" /\ pending'[d].id \in Rows(d)
    BY <1>1, <1>2, <1>6 DEF Typed
  <1>15. (Early => Unapplied)'
    BY <1>10
  <1> HIDE DEF StoreInv
  <1> QED
    BY <1>1, <1>3, <1>8, <1>9, <1>10, <1>11, <1>12, <1>13, <1>14, <1>15, KeptFrame

(* The agent's row is marked: the register accepts the proposal, unless a  *)
(* later version is current already.                                       *)
LEMMA DraftMarked ==
  ASSUME StoreInv, NEW c \in Channels, NEW v, pending[c] # None, pending[c].who = "agent",
         pending[c].id = v, up, ver' = Marked(c, v, "applied"),
         pending' = [pending EXCEPT ![c] = None],
         UNCHANGED <<file, asked, up, rid, draftIds, named, base, saved>>,
         todo' \subseteq todo, reports \subseteq reports', pc' # "chat", ~Early', Backed'
  PROVE  StoreInv' /\ Moves
  <1> USE DEF StoreInv
  <1>1. /\ Applying(c, v)
        /\ ver[c][v].baseId \in {Latest(c), 0} \/ v <= Latest(c)
    BY DEF Held
  <1>2. /\ v \in draftIds[c] /\ v \in Rows(c) /\ pc \in {"apply", "again"}
        /\ v \in Agents(ver[c]) /\ ver[c][v].round = rid /\ v \in Ids
    BY <1>1 DEF Applying, Own, AllDrafts, Agents, Rows
  <1>3. /\ ver' \in [Channels -> Seq(RowSet)] /\ Elsewhere(c, ver')
        /\ MarkedAs(ver[c], ver'[c], v)
    BY <1>2, MarksRows DEF Status
  <1>4. /\ Rowed' /\ \A d \in Channels \ {c} : SameRegister(d)
        /\ \A d \in Channels : Rows(d)' = Rows(d) /\ Len(ver'[d]) = Len(ver[d])
        /\ \A d \in Channels : Agents(ver'[d]) = Agents(ver[d])
        /\ \A d \in Channels : \A w \in Rows(d) : /\ Same(ver[d][w], ver'[d][w])
                                                  /\ d # c \/ w # v => ver'[d][w] = ver[d][w]
        /\ Latest(c)' = IF v > Latest(c) THEN v ELSE Latest(c)
        /\ Proposed(ver[c])' = Proposed(ver[c])
    BY <1>2, <1>3, MarkedRow
  <1>5. Typed'
    <2>1. \A d \in Channels : Len(ver'[d]) <= MaxVersions
      BY <1>4 DEF Typed
    <2>2. pending' \in [Channels -> Marks \cup {None}]
      BY DEF Typed
    <2> QED
      BY <1>3, <2>1, <2>2 DEF Typed
  <1>6. Stamped'
    BY <1>4 DEF Stamped
  <1>7. OperatorRows'
    <2>1. ASSUME NEW d \in Channels
          PROVE  Requested(ver'[d], asked'[d], pending'[d])
      <3>1. Requested(ver[d], asked[d], pending[d])
        BY DEF OperatorRows
      <3>2. \A w \in asked[d] : d # c \/ w # v
        BY <1>2, <3>1 DEF Requested, Agents
      <3>3. pending'[d] \in {pending[d], None}
        BY DEF Typed
      <3> QED
        BY <1>4, <3>1, <3>2, <3>3, RequestedKept DEF Rows
    <2> QED
      BY <2>1 DEF OperatorRows
  <1>8. Held'
    <2>1. ASSUME NEW d \in Channels, pending'[d] # None, pending'[d].who = "agent"
          PROVE  FALSE
      <3>1. d # c /\ pending'[d] = pending[d]
        BY <2>1 DEF Typed
      <3>2. Applying(d, pending[d].id)
        BY <2>1, <3>1 DEF Held
      <3> QED
        BY <1>1, <3>1, <3>2, OneApplying
    <2> QED
      BY <2>1 DEF Held
  <1>9. Own'
    <2>1. todo \subseteq AllDrafts /\ AllDrafts' = AllDrafts
      BY DEF Own, AllDrafts
    <2>2. \A d \in Channels : draftIds[d] \subseteq Rows(d)
      BY DEF Own, Agents, Rows
    <2> QED
      BY <1>4, <2>1, <2>2 DEF Own, Same
  <1>10. ReportedFirst'
    <2>1. Committed
      BY <1>2 DEF Backed
    <2>2. ASSUME NEW d \in Channels, NEW w \in Rows(d)', ver'[d][w].by = "agent",
                 ver'[d][w].status = "applied"
          PROVE  \E r \in reports' : r.round = ver'[d][w].round /\ r.ok
      <3>1. w \in Rows(d) /\ Same(ver[d][w], ver'[d][w])
        BY <1>4
      <3>2. CASE d = c /\ w = v
        BY <1>2, <2>1, <3>1, <3>2 DEF Committed, Same
      <3>3. CASE d # c \/ w # v
        BY <1>4, <2>2, <3>1, <3>3 DEF ReportedFirst
      <3> QED
        BY <3>2, <3>3
    <2> QED
      BY <2>2 DEF ReportedFirst
  <1>11. StoreInv'
    BY <1>4, <1>5, <1>6, <1>7, <1>8, <1>9, <1>10
  <1>12. Moves
    <2>1. CASE v > Latest(c)
      <3>1. ver[c][v].baseId \in {Latest(c), 0}
        <4>1. PICK m \in Nat : IsLatest(ver[c], m)
          BY DEF Rowed
        <4>2. Latest(c) \in Nat /\ v \in Nat
          BY <1>2, <4>1, LatestUnique DEF Latest, Typed, Ids
        <4> QED
          BY <1>1, <2>1, <4>2
      <3> QED
        BY <1>2, <1>4, <2>1, <3>1, RegisterAccepts DEF Moves
    <2>2. CASE ~(v > Latest(c))
      BY <1>4, <2>2, RegisterStutters DEF Moves, SameRegister
    <2> QED
      BY <2>1, <2>2
  <1> QED
    BY <1>11, <1>12

(* The lock is let go without the row being marked.                        *)
LEMMA LockReleased ==
  ASSUME StoreInv, NEW c \in Channels, NEW v, pending[c] # None, pending[c].who = "agent",
         pending[c].id = v, up, ver' = ver,
         pending' = [pending EXCEPT ![c] = None],
         UNCHANGED <<file, asked, up, rid, draftIds, named, base, saved>>,
         todo' \subseteq todo, reports \subseteq reports', pc' # "chat", ~Early', Backed'
  PROVE  StoreInv' /\ Moves
  <1> USE DEF StoreInv
  <1>1. Applying(c, v)
    BY DEF Held
  <1>2. OnlyKept /\ ver' \in [Channels -> Seq(RowSet)]
    BY UnchangedRows DEF Typed
  <1>3. Held'
    <2>1. ASSUME NEW d \in Channels, pending'[d] # None, pending'[d].who = "agent"
          PROVE  FALSE
      <3>1. d # c /\ pending'[d] = pending[d]
        BY <2>1 DEF Typed
      <3>2. Applying(d, pending[d].id)
        BY <2>1, <3>1 DEF Held
      <3> QED
        BY <1>1, <3>1, <3>2, OneApplying
    <2> QED
      BY <2>1 DEF Held
  <1>4. todo' \subseteq AllDrafts
    BY DEF Own
  <1>5. Own'
    BY <1>2, <1>4, OwnKept
  <1>6. Stamped'
    BY <1>2, StampedKept
  <1>7. /\ file' \in [Channels -> Texts] /\ pending' \in [Channels -> Marks \cup {None}]
        /\ asked' \in [Channels -> SUBSET Nat] /\ draftIds' \in [Channels -> SUBSET Nat]
        /\ base' \in [Channels -> Bases \cup {None}]
        /\ named' \in [Channels -> Nat] /\ rid' \in 0..MaxRounds /\ saved' \in BOOLEAN
    BY DEF Typed
  <1>8. \A d \in Channels : pending'[d] \in {pending[d], None} /\ asked'[d] \subseteq asked[d]
    BY DEF Typed
  <1>9. (Early => Unapplied)'
    OBVIOUS
  <1> HIDE DEF StoreInv
  <1> QED
    BY <1>2, <1>3, <1>5, <1>6, <1>7, <1>8, <1>9, KeptFrame

LEMMA MarkDraftKeeps ==
  ASSUME StoreInv, NEW c \in Channels, NEW v \in Ids, MarkDraft(c, v)
  PROVE  StoreInv' /\ Moves
  <1>1. /\ pending[c] = Mark("agent", v) /\ Applying(c, v) /\ todo' \subseteq todo
        /\ pending' = [pending EXCEPT ![c] = None]
        /\ UNCHANGED <<file, asked, up, rid, draftIds, named, base, saved, reports, pc>>
        /\ ver' = ver \/ ver' = RecordedRows(c)
    BY DEF MarkDraft, Tried, stay, ended
  <1>2. /\ pending[c].who = "agent" /\ pending[c].id = v /\ pending[c] # None
        /\ RecordedRows(c) = Marked(c, v, "applied")
    <2>1. Mark("agent", v) \in Marks
      BY DEF Mark, Marks, Ids
    <2>2. pending[c] # None
      BY <1>1, <2>1, VersionStoreAssumption DEF Marks
    <2> QED
      BY <1>1, <2>2 DEF Mark, RecordedRows
  <1>3. pc \in {"apply", "again"}
    BY <1>1 DEF Applying
  <1>4. up /\ Backed' /\ ~Early' /\ pc' # "chat"
    BY <1>1, <1>3 DEF StoreInv, Backed, Committed, Early
  <1>5. CASE ver' = ver
    BY <1>1, <1>2, <1>4, <1>5, LockReleased
  <1>6. CASE ver' = Marked(c, v, "applied")
    BY <1>1, <1>2, <1>4, <1>6, DraftMarked
  <1> QED
    BY <1>1, <1>2, <1>5, <1>6

(* A shutdown cancels the round: at most one statement is under way.       *)
LEMMA CancelKeeps ==
  ASSUME StoreInv, Cancel
  PROVE  StoreInv' /\ Moves
  <1> DEFINE held == {c \in Channels : pending[c] # None /\ pending[c].who = "agent"}
  <1>1. /\ UNCHANGED <<file, asked, up, rid, draftIds, named, base, saved, todo>> /\ up
        /\ reports \subseteq reports'
        /\ pc' = IF pc \in InTry THEN "unwind" ELSE IF pc = "reserved" THEN "prestart" ELSE "idle"
    BY DEF Cancel, taskVars
  <1>2. PICK landed \in BOOLEAN :
          /\ ver' = [c \in Channels |->
                       IF landed /\ c \in held THEN RecordedRows(c)[c] ELSE ver[c]]
          /\ pending' = [c \in Channels |-> IF c \in held THEN None ELSE pending[c]]
    BY DEF Cancel
  <1>3. /\ pc' # "chat" /\ Backed'
    BY <1>1 DEF StoreInv, Backed, Committed
  <1>4. CASE held = {}
    <2>1. ver' = ver /\ pending' = pending
      BY <1>2, <1>4 DEF StoreInv, Typed
    <2>2. OnlyKept /\ ver' \in [Channels -> Seq(RowSet)]
      BY <2>1, UnchangedRows DEF StoreInv, Typed
    <2>3. Own' /\ (Unapplied => Unapplied')
      BY <1>1, <2>2, OwnKept DEF StoreInv, Own
    <2>4. Stamped'
      BY <1>1, <1>3, <2>2, StampedKept
    <2>5. Held'
      BY <1>4, <2>1 DEF Held
    <2>6. (Early => Unapplied)'
      <3>1. Early' => Early
        BY <1>1 DEF Early, InTry, StoreInv, Backed
      <3> QED
        BY <2>3, <3>1 DEF StoreInv
    <2>7. /\ file' \in [Channels -> Texts] /\ pending' \in [Channels -> Marks \cup {None}]
          /\ asked' \in [Channels -> SUBSET Nat] /\ draftIds' \in [Channels -> SUBSET Nat]
          /\ base' \in [Channels -> Bases \cup {None}]
          /\ named' \in [Channels -> Nat] /\ rid' \in 0..MaxRounds /\ saved' \in BOOLEAN
      BY <1>1, <2>1 DEF StoreInv, Typed
    <2>8. \A d \in Channels : pending'[d] \in {pending[d], None} /\ asked'[d] \subseteq asked[d]
      BY <1>1, <2>1
    <2> QED
      BY <1>1, <1>3, <2>2, <2>3, <2>4, <2>5, <2>6, <2>7, <2>8, KeptFrame
  <1>5. ASSUME NEW c \in held
        PROVE  StoreInv' /\ Moves
    <2> DEFINE v == pending[c].id
    <2>1. Applying(c, v) /\ \A d \in held : Applying(d, pending[d].id)
      BY <1>1, <1>5 DEF StoreInv, Held
    <2>2. held = {c}
      BY <1>5, <2>1, OneApplying
    <2>3. RecordedRows(c) = Marked(c, v, "applied")
      BY <1>5 DEF RecordedRows
    <2>4. pending' = [pending EXCEPT ![c] = None]
      BY <1>2, <2>2 DEF StoreInv, Typed
    <2>5. v \in Rows(c)
      BY <1>5 DEF StoreInv, OperatorRows, Requested, Rows
    <2>6. Elsewhere(c, Marked(c, v, "applied"))
          /\ Marked(c, v, "applied") \in [Channels -> Seq(RowSet)]
      BY <1>5, <2>5, MarksRows DEF Status, StoreInv
    <2>7. ver' = ver \/ ver' = Marked(c, v, "applied")
      <3>1. CASE landed
        <4>1. ver' = [d \in Channels |-> IF d = c THEN Marked(c, v, "applied")[c] ELSE ver[d]]
          BY <1>2, <2>2, <2>3, <3>1
        <4> QED
          BY <2>6, <4>1 DEF Elsewhere
      <3>2. CASE ~landed
        BY <1>2, <3>2 DEF StoreInv, Typed
      <3> QED
        BY <3>1, <3>2
    <2>8. ~Early'
      <3>1. pc \in {"apply", "again"}
        BY <2>1 DEF Applying
      <3> QED
        BY <1>1, <3>1 DEF InTry, StoreInv, Backed, Early
    <2>9. pending[c] # None /\ pending[c].who = "agent" /\ c \in Channels
      BY <1>5
    <2> HIDE DEF held
    <2>10. CASE ver' = ver
      BY <1>1, <1>3, <2>4, <2>8, <2>9, <2>10, LockReleased
    <2>11. CASE ver' = Marked(c, v, "applied")
      BY <1>1, <1>3, <2>4, <2>8, <2>9, <2>11, DraftMarked
    <2> QED
      BY <2>7, <2>10, <2>11
  <1> QED
    BY <1>4, <1>5

(* A submission is a proposal, on the version the agent had read.          *)
LEMMA SubmitKeeps ==
  ASSUME StoreInv, NEW c \in Channels, NEW x \in Contents, base[c] # None, Submit(c, x)
  PROVE  StoreInv' /\ Moves
  <1> DEFINE v   == Len(ver[c]) + 1
             row == Draft(c, x, base[c], rid)
  <1> USE DEF StoreInv
  <1>1. /\ pc = "chat" /\ HasRoom(c)
        /\ UNCHANGED <<file, pending, asked, pc, saved, base, todo, up, rid, reports>>
        /\ named' = [named EXCEPT ![c] = v]
    BY DEF Submit, ended
  <1>2. \/ /\ ver' = [Inserted(c, row) EXCEPT ![c] = Without(Inserted(c, row)[c], draftIds[c])]
           /\ draftIds' = [draftIds EXCEPT ![c] = {v}]
        \/ ver' = Inserted(c, row) /\ draftIds' = draftIds
    BY DEF Submit, Without
  <1>3. /\ ver[c] \in Seq(RowSet) /\ Len(ver[c]) \in Nat /\ Rows(c) = 1..Len(ver[c])
        /\ v \in Nat /\ v \in Ids /\ v \notin Rows(c)
    <2>1. ver[c] \in Seq(RowSet) /\ Len(ver[c]) < MaxVersions
      BY <1>1 DEF Typed, HasRoom
    <2>2. MaxVersions \in Nat
      BY VersionStoreAssumption
    <2> QED
      BY <2>1, <2>2 DEF Rows, Ids
  <1>4. /\ row \in RowSet /\ row.by = "agent" /\ row.status = "draft" /\ row.base \in Texts
        /\ row.baseId \in Nat /\ row.baseId < v /\ row.round = rid
    <2>1. base[c] \in Bases /\ base[c].id <= Len(ver[c]) /\ rid \in Nat
      BY DEF Typed, Stamped
    <2>2. base[c].id \in Nat /\ base[c].md5 \in Texts
      BY <2>1 DEF Bases
    <2> QED
      <3>1. row = [content |-> x, by |-> "agent", status |-> "draft", base |-> base[c].md5,
                   baseId |-> base[c].id, round |-> rid, report |-> 0]
        BY DEF Draft, Row
      <3>2. row \in RowSet
        <4>1. ASSUME NEW b \in Texts, NEW i \in Nat, NEW r \in Nat
              PROVE  [content |-> x, by |-> "agent", status |-> "draft", base |-> b,
                      baseId |-> i, round |-> r, report |-> 0] \in RowSet
          BY DEF RowSet, Status, Texts
        <4> QED
          BY <2>1, <2>2, <3>1, <4>1
      <3>3. base[c].id < v
        BY <1>3, <2>1, <2>2
      <3> QED
        BY <2>2, <3>1, <3>2, <3>3
  <1> HIDE DEF row
  <1>5. draftIds[c] \subseteq Rows(c) /\ v \notin draftIds[c]
    BY <1>3 DEF Own, Agents, Rows
  <1>6. Unapplied
    BY <1>1 DEF Early
  <1>7. /\ Inserted(c, row) \in [Channels -> Seq(RowSet)] /\ Elsewhere(c, Inserted(c, row))
        /\ Added(ver[c], Inserted(c, row)[c], row)
    BY <1>4, InsertedRows
  <1>8. /\ ver' \in [Channels -> Seq(RowSet)] /\ Elsewhere(c, ver')
        /\ Added(ver[c], ver'[c], row)
    <2> DEFINE rows == Inserted(c, row)[c]
    <2>1. CASE ver' = Inserted(c, row)
      BY <1>7, <2>1
    <2>2. CASE ver' = [Inserted(c, row) EXCEPT ![c] = Without(rows, draftIds[c])]
      <3>1. /\ rows \in Seq(RowSet) /\ Len(rows) = v /\ rows[v] = row
            /\ DOMAIN rows = Rows(c) \cup {v}
            /\ \A w \in Rows(c) : Settles(ver[c][w], rows[w])
        BY <1>3, <1>7 DEF Added, Rows
      <3>2. \A w \in DOMAIN rows : w \in draftIds[c] => rows[w].status # "applied"
        BY <1>5, <1>6, <3>1 DEF Unapplied, Settles
      <3>3. Without(rows, draftIds[c]) \in Seq(RowSet) /\ Kept(rows, Without(rows, draftIds[c]))
        BY <3>1, <3>2, WithoutRows
      <3>4. /\ ver'[c] = Without(rows, draftIds[c])
            /\ \A d \in Channels \ {c} : ver'[d] = Inserted(c, row)[d]
        BY <1>7, <2>2
      <3>5. Without(rows, draftIds[c])[v] = row
        BY <1>5, <3>1 DEF Without
      <3>6. Len(ver'[c]) = v
        BY <3>1, <3>3, <3>4 DEF Kept
      <3>7. \A w \in Rows(c) : Settles(ver[c][w], ver'[c][w])
        <4>1. ASSUME NEW w \in Rows(c)
              PROVE  Settles(ver[c][w], ver'[c][w])
          <5>1. Settles(ver[c][w], rows[w]) /\ Settles(rows[w], ver'[c][w])
            BY <3>1, <3>3, <3>4 DEF Kept
          <5> QED
            BY <5>1 DEF Settles, Same
        <4> QED
          BY <4>1
      <3>8. Added(ver[c], ver'[c], row)
        BY <3>4, <3>5, <3>6, <3>7 DEF Added, Rows
      <3>9. ver' \in [Channels -> Seq(RowSet)]
        BY <1>7, <2>2, <3>3
      <3>10. Elsewhere(c, ver')
        BY <1>7, <3>4 DEF Elsewhere
      <3> QED
        BY <3>8, <3>9, <3>10
    <2> QED
      BY <1>2, <2>1, <2>2
  <1>9. /\ Rowed' /\ \A d \in Channels \ {c} : SameRegister(d)
        /\ Len(ver'[c]) = v /\ Latest(c) < v
        /\ \A d \in Channels : Len(ver[d]) <= Len(ver'[d]) /\ Rows(d) \subseteq Rows(d)'
        /\ \A d \in Channels : \A w \in Rows(d) : Settles(ver[d][w], ver'[d][w])
        /\ \A d \in Channels : \A w \in Rows(d)' \ Rows(d) : d = c /\ ver'[d][w] = row
        /\ Latest(c)' = Latest(c)
        /\ Proposed(ver[c])' = Proposed(ver[c]) \cup {[on |-> row.baseId, id |-> v]}
    BY <1>4, <1>8, AddedRow
  <1>10. v \in Rows(c)' /\ ver'[c][v] = row /\ v \in Agents(ver'[c])
    <2>1. v \in DOMAIN ver'[c] /\ ver'[c][v] = row
      BY <1>3, <1>8, <1>9 DEF Added
    <2> QED
      BY <1>4, <2>1 DEF Rows, Agents
  <1>11. \A d \in Channels : \A w \in draftIds[d] :
           w \in Agents(ver'[d]) /\ Settles(ver[d][w], ver'[d][w])
    BY <1>9 DEF Own, Agents, Rows, Settles, Same
  <1>12. \A d \in Channels : \A w \in draftIds'[d] : w \in draftIds[d] \/ (d = c /\ w = v)
    BY <1>2 DEF Typed
  <1>13. Typed'
    <2>1. \A d \in Channels : Len(ver'[d]) <= MaxVersions
      <3>1. Len(ver'[c]) <= MaxVersions
        BY <1>3, <1>9 DEF Ids
      <3>2. \A d \in Channels \ {c} : Len(ver'[d]) <= MaxVersions
        BY <1>8 DEF Elsewhere, Typed
      <3> QED
        BY <3>1, <3>2
    <2>2. draftIds' \in [Channels -> SUBSET Nat] /\ named' \in [Channels -> Nat]
      <3>1. named \in [Channels -> Nat] /\ draftIds \in [Channels -> SUBSET Nat] /\ {v} \in SUBSET Nat
        BY <1>3 DEF Typed
      <3>2. draftIds' = [draftIds EXCEPT ![c] = {v}] \/ draftIds' = draftIds
        BY <1>2
      <3> HIDE DEF v
      <3> QED
        BY <1>1, <1>3, <3>1, <3>2
    <2> QED
      BY <1>1, <1>8, <2>1, <2>2 DEF Typed
  <1>14. Stamped'
    <2>1. ASSUME NEW d \in Channels, base[d] # None
          PROVE  base[d].id <= Len(ver'[d])
      <3>1. base[d] \in Bases /\ base[d].id <= Len(ver[d])
        BY <2>1 DEF Typed, Stamped
      <3>2. base[d].id \in Nat /\ Len(ver[d]) \in Nat /\ Len(ver'[d]) \in Nat
        BY <1>8, <3>1 DEF Bases, Typed
      <3> QED
        BY <1>9, <3>1, <3>2
    <2> QED
      BY <1>1, <2>1 DEF Stamped
  <1>15. OperatorRows'
    <2>1. ASSUME NEW d \in Channels
          PROVE  Requested(ver'[d], asked'[d], pending'[d])
      <3>1. Requested(ver[d], asked[d], pending[d])
        BY DEF OperatorRows
      <3> QED
        BY <1>1, <1>9, <3>1, RequestedKept DEF Rows, Settles
    <2> QED
      BY <2>1 DEF OperatorRows
  <1>16. Held'
    <2>1. up
      BY <1>1 DEF Backed
    <2>2. \A d \in Channels : pending[d] # None => pending[d].who # "agent"
      BY <1>1, <2>1, NoneHeld
    <2> QED
      BY <1>1, <2>2 DEF Held
  <1>17. Own'
    <2>1. ASSUME NEW d \in Channels
          PROVE  /\ draftIds'[d] \subseteq Agents(ver'[d])
                 /\ \A w \in draftIds'[d] : ver'[d][w].round = rid
                 /\ named'[d] \in Rows(d)' \cup {0}
      <3>1. ASSUME NEW w \in draftIds'[d]
            PROVE  w \in Agents(ver'[d]) /\ ver'[d][w].round = rid
        <4>1. CASE w \in draftIds[d]
          BY <1>11, <4>1 DEF Own, Settles, Same
        <4>2. CASE d = c /\ w = v
          BY <1>4, <1>10, <4>2
        <4> QED
          BY <1>12, <4>1, <4>2
      <3>2. named'[d] \in Rows(d)' \cup {0}
        <4>1. named[d] \in Rows(d) \cup {0} /\ Rows(d) \subseteq Rows(d)'
          BY <1>9 DEF Own
        <4>2. named'[d] = named[d] \/ (d = c /\ named'[d] = v)
          BY <1>1 DEF Typed
        <4> QED
          BY <1>10, <4>1, <4>2
      <3> QED
        BY <3>1, <3>2
    <2>2. todo' \subseteq AllDrafts'
      <3>1. todo = {}
        BY <1>1 DEF Backed
      <3> QED
        BY <1>1, <3>1
    <2> QED
      BY <1>1, <2>1, <2>2 DEF Own
  <1>18. (Early => Unapplied)'
    <2>1. ASSUME NEW d \in Channels, NEW w \in draftIds'[d]
          PROVE  ver'[d][w].status # "applied"
      <3>1. CASE w \in draftIds[d]
        BY <1>6, <1>11, <3>1 DEF Unapplied, Settles
      <3>2. CASE d = c /\ w = v
        BY <1>4, <1>10, <3>2
      <3> QED
        BY <1>12, <3>1, <3>2
    <2> QED
      BY <2>1 DEF Unapplied
  <1>19. Backed'
    BY <1>1 DEF Backed, Committed
  <1>20. ReportedFirst'
    <2>1. ASSUME NEW d \in Channels, NEW w \in Rows(d)', ver'[d][w].by = "agent",
                 ver'[d][w].status = "applied"
          PROVE  \E r \in reports : r.round = ver'[d][w].round /\ r.ok
      <3>1. w \in Rows(d)
        BY <1>4, <1>9, <2>1
      <3>2. ver[d][w].by = "agent" /\ ver[d][w].status = "applied"
            /\ ver'[d][w].round = ver[d][w].round
        BY <1>9, <2>1, <3>1 DEF Settles, Same
      <3> QED
        BY <3>1, <3>2 DEF ReportedFirst
    <2> QED
      BY <1>1, <2>1 DEF ReportedFirst
  <1>21. StoreInv'
    BY <1>9, <1>13, <1>14, <1>15, <1>16, <1>17, <1>18, <1>19, <1>20
  <1>22. Register!Next
    <2> DEFINE on == row.baseId
    <2>1. /\ on \in Ids \cup {0} /\ on < v /\ Latest(c) < v
          /\ Proposed(ver[c])' = Proposed(ver[c]) \cup {[on |-> on, id |-> v]}
      <3>1. on \in Nat /\ on < v /\ v \in 1..MaxVersions /\ MaxVersions \in Nat
        BY <1>3, <1>4, VersionStoreAssumption DEF Ids
      <3> QED
        BY <1>9, <3>1 DEF Ids
    <2> HIDE DEF on, v
    <2> QED
      BY <1>3, <1>9, <2>1, RegisterProposes
  <1> QED
    BY <1>21, <1>22 DEF Moves

-----------------------------------------------------------------------------
(* The stores before the first round.                                      *)
LEMMA StoreInitially ==
  ASSUME Init
  PROVE  StoreInv /\ Register!Init
  <1> USE DEF Init, StoreInit
  <1>1. ASSUME NEW c \in Channels
        PROVE  /\ ver[c] \in Seq(RowSet) /\ Len(ver[c]) <= 1
               /\ \A v \in DOMAIN ver[c] : v = 1 /\ ver[c][v].by = "human"
               /\ \E m \in Nat : IsLatest(ver[c], m) /\ m <= 1 /\ m <= Len(ver[c])
    <2>1. CASE file[c] = ""
      <3>1. ver[c] = <<>>
        BY <2>1 DEF SeededRows
      <3>2. IsLatest(ver[c], 0)
        BY <3>1 DEF IsLatest
      <3> QED
        BY <3>1, <3>2
    <2>2. CASE file[c] # ""
      <3> DEFINE row == Row(file[c], "human", "applied", None, 0, 0)
      <3>1. row \in RowSet /\ row.by = "human" /\ row.status = "applied"
        BY DEF Row, RowSet, Status
      <3>2. ver[c] = <<row>>
        BY <2>2 DEF SeededRows
      <3> HIDE DEF row
      <3>3. IsLatest(ver[c], 1)
        BY <3>1, <3>2 DEF IsLatest
      <3>4. ver[c] \in Seq(RowSet) /\ Len(ver[c]) = 1 /\ DOMAIN ver[c] = {1} /\ ver[c][1] = row
        <4>1. <<row>> \in Seq(RowSet) /\ Len(<<row>>) = 1 /\ <<row>>[1] = row
          BY <3>1
        <4>2. DOMAIN <<row>> = {1}
          OBVIOUS
        <4> QED
          BY <3>2, <4>1, <4>2
      <3>5. IsLatest(ver[c], 1) /\ 1 <= 1 /\ 1 <= Len(ver[c]) /\ 1 \in Nat
        BY <3>3, <3>4
      <3> QED
        BY <3>1, <3>4, <3>5
    <2> QED
      BY <2>1, <2>2
  <1>2. MaxVersions \in Nat \ {0} /\ MaxRounds \in Nat
    BY VersionStoreAssumption, ReviewRoundAssumption
  <1>3. Typed
    <2>1. \A c \in Channels : Len(ver[c]) <= MaxVersions
      BY <1>1, <1>2
    <2>2. ver \in [Channels -> Seq(RowSet)]
      BY <1>1
    <2> QED
      <3>1. /\ pending \in [Channels -> Marks \cup {None}]
            /\ base \in [Channels -> Bases \cup {None}]
        OBVIOUS
      <3>2. /\ asked \in [Channels -> SUBSET Nat] /\ draftIds \in [Channels -> SUBSET Nat]
            /\ named \in [Channels -> Nat]
        OBVIOUS
      <3>3. file \in [Channels -> Texts] /\ rid \in 0..MaxRounds /\ saved \in BOOLEAN
        <4>1. file \in [Channels -> Texts] /\ rid = 0 /\ saved \in BOOLEAN
          OBVIOUS
        <4> HIDE DEF Init, StoreInit
        <4>2. rid \in 0..MaxRounds
          BY <1>2, <4>1
        <4> QED
          BY <4>1, <4>2
      <3> QED
        BY <2>1, <2>2, <3>1, <3>2, <3>3 DEF Typed
  <1>4. \A c \in Channels : Agents(ver[c]) = {}
    BY <1>1 DEF Agents
  <1>5. Rowed
    BY <1>1, <1>4 DEF Rowed
  <1>6. Stamped /\ OperatorRows /\ Held /\ Own /\ Unapplied /\ Backed
    BY DEF Stamped, OperatorRows, Requested, Held, Own, Unapplied, Backed, AllDrafts, Committed
  <1>7. ReportedFirst
    BY <1>1 DEF ReportedFirst, Rows
  <1>8. \A c \in Channels : Latest(c) \in {0} \cup {i \in Ids : i = 1}
    <2>1. ASSUME NEW c \in Channels
          PROVE  Latest(c) \in {0} \cup {i \in Ids : i = 1}
      <3>1. PICK m \in Nat : IsLatest(ver[c], m) /\ m <= 1
        BY <1>1
      <3>2. Latest(c) = m
        BY <1>1, <3>1, LatestUnique DEF Latest
      <3> QED
        BY <1>2, <3>1, <3>2 DEF Ids
    <2> QED
      BY <2>1
  <1>9. Register!Init
    BY <1>4, <1>8 DEF Register!Init, Agents, Rows
  <1> QED
    BY <1>3, <1>5, <1>6, <1>7, <1>9 DEF StoreInv

LEMMA StoreSteps ==
  ASSUME StoreInv, [Next]_vars
  PROVE  StoreInv' /\ Moves
  <1>1. CASE UNCHANGED vars
    <2>1. UNCHANGED others /\ UNCHANGED <<file, ver, pending, asked>>
      BY <1>1 DEF vars, others, storeVars, taskVars
    <2> QED
      BY <2>1, NoRowWritten DEF StoreInv, Typed
  <1>2. CASE StartNow \/ Tick \/ Exit
    BY <1>2, BeginningsKeep
  <1>3. CASE RoundStep
    <2>1. CASE TaskStarts \/ ChatEnds \/ SaveBundle \/ DraftsTried \/ CloseAudit \/ TellSuccess
      BY <2>1, TaskStepsKeep
    <2>2. CASE Recover \/ Reclose \/ SaveFailure \/ CloseFailed \/ RecordPrestart
      BY <2>2, RecoverySteps
    <2>3. CASE BeginRound
      BY <2>3, ReadingsKeep
    <2>4. CASE Attach \/ Reattach
      BY <2>4, AttachKeeps
    <2>5. CASE DiscardDrafts
      BY <2>5, DiscardDraftsKeeps
    <2>6. CASE \E c \in Channels, v \in Ids : SkipDraft(c, v) \/ WriteDraft(c, v) \/ MarkDraft(c, v)
      BY <2>6, SkipDraftKeeps, WriteDraftKeeps, MarkDraftKeeps
    <2> QED
      BY <1>3, <2>1, <2>2, <2>3, <2>4, <2>5, <2>6 DEF RoundStep
  <1>4. CASE \E c \in Channels : ReadCurrent(c)
    BY <1>4, ReadingsKeep
  <1>5. CASE \E x \in Contents : SubmitStrategy(x)
    <2>1. PICK x \in Contents : "strategy" \in Channels /\ Submit("strategy", x)
      BY <1>5 DEF SubmitStrategy
    <2>2. base["strategy"] # None
      BY <2>1 DEF Submit, StoreInv, Stamped
    <2> QED
      BY <2>1, <2>2, SubmitKeeps
  <1>6. CASE \E c \in Channels, x \in Contents : SubmitRead(c, x)
    BY <1>6, SubmitKeeps DEF SubmitRead
  <1>7. CASE Operator
    <2>1. PICK c \in Channels :
            \/ \E x \in Contents : SaveByHuman(c, x) \/ ReviseByHuman(c, x) \/ HotEdit(c, x)
            \/ ApplyRevision(c)
            \/ \E v \in Ids : Rollback(c, v)
            \/ RecordOperator(c)
      BY <1>7 DEF Operator
    <2>2. UNCHANGED others
      BY <1>7 DEF Operator
    <2> QED
      BY <2>1, <2>2, SaveByHumanKeeps, ReviseByHumanKeeps, HotEditKeeps, ApplyRevisionKeeps,
         RollbackKeeps, RecordOperatorKeeps
  <1>8. CASE Cancel
    BY <1>8, CancelKeeps
  <1>9. CASE Restart
    BY <1>9, RestartKeeps
  <1> QED
    BY <1>1, <1>2, <1>3, <1>4, <1>5, <1>6, <1>7, <1>8, <1>9 DEF Next

-----------------------------------------------------------------------------
(* However rounds, operator, faults, shutdowns and restarts interleave,    *)
(* what the stores hold is consistent: the inductive invariant.            *)
THEOREM StoreInvariant == Spec => []StoreInv
  <1>1. Init => StoreInv
    BY StoreInitially
  <1>2. StoreInv /\ [Next]_vars => StoreInv'
    BY StoreSteps
  <1> QED
    BY <1>1, <1>2, PTL DEF Spec

(* Nothing that the agent drafts is applied before, or without, a report   *)
(* of its round that says it succeeded (agent.py: the bundle is committed  *)
(* before a draft is applied, and a round that fails discards its drafts). *)
THEOREM NothingBeforeItsReport == Spec => []ReportedFirst
  <1>1. StoreInv => ReportedFirst
    BY DEF StoreInv
  <1> QED
    BY <1>1, StoreInvariant, PTL

(* The stores implement the register: a revision of the agent takes effect *)
(* only if the version that it was written on is still current, for any    *)
(* number of texts, versions, interventions, faults and restarts.          *)
THEOREM StoresImplementRegister == Spec => NoLostUpdate
  <1>1. Init => Register!Init
    BY StoreInitially
  <1>2. StoreInv /\ [Next]_vars => [Register!Next]_(Register!vars)
    BY StoreSteps DEF Moves
  <1> QED
    BY <1>1, <1>2, StoreInvariant, PTL DEF Spec, NoLostUpdate, Register!Spec

-----------------------------------------------------------------------------
(* The verdict of a round.  Its report is either not yet there, or there   *)
(* and known to the task that goes on: a task that has been interrupted    *)
(* looks it up, and only if the lookup fails may it save another one.      *)
Events == [ok : BOOLEAN, applied : BOOLEAN]
OfRound == {r \in reports : r.round = rid}

Counted ==
  /\ faults \in Nat /\ told \in [Rounds -> Events \cup {None}]
  /\ pc # "idle" => rid \in Rounds
  /\ \A r \in reports : r.round \in 1..rid /\ r.ok \in BOOLEAN
  /\ \A n \in Rounds : n > rid \/ (n = rid /\ pc # "idle") => told[n] = None

Before  == {"reserved", "begin", "chat", "save", "prestart"}
Success == {"apply", "attach", "close", "tell", "again", "reattach", "reclose"}

Judged ==
  /\ pc \in Before => OfRound = {}
  /\ pc \in Success \cup {"unwind"} => \A r \in OfRound : r.ok = TRUE
  /\ pc \in {"chat", "save", "apply", "attach", "close"} => known
  /\ pc = "unwind" /\ OfRound # {} => known
  /\ pc \in {"discard", "report"} => rid \in blind \/ OfRound = {}
  /\ pc = "refuse" /\ faults = 0 => OfRound # {}

Verdict == Counted /\ Judged /\ OneVerdict

(* Nothing is repaired: the number of faults only grows.                   *)
FaultsGrow == faults' \in {faults, faults + 1}

LEMMA StillFaultless ==
  ASSUME Counted, FaultsGrow
  PROVE  faults' \in Nat /\ (faults' = 0 => faults = 0)
  BY DEF Counted, FaultsGrow

(* A step that touches neither the round nor its reports.                  *)
LEMMA VerdictUntouched ==
  ASSUME Verdict, FaultsGrow, UNCHANGED <<pc, rid, known, reports, told, blind>>
  PROVE  Verdict'
  <1>1. faults' \in Nat /\ (faults' = 0 => faults = 0)
    BY StillFaultless DEF Verdict
  <1>2. Counted'
    BY <1>1 DEF Verdict, Counted
  <1>3. Judged'
    BY <1>1 DEF Verdict, Judged, OfRound
  <1>4. OneVerdict'
    BY <1>1 DEF Verdict, OneVerdict
  <1> QED
    BY <1>2, <1>3, <1>4 DEF Verdict

(* A step of a round that saves a report, or none: it may save one only if *)
(* it agrees with those there are, or if the lookup of them has failed.    *)
LEMMA ReportSaved ==
  ASSUME StoreInv, Verdict, FaultsGrow, rid' = rid, told' = told, blind \subseteq blind',
         pc' # "idle" => pc # "idle", NEW rep, rep.round = rid, rep.ok \in BOOLEAN,
         \/ reports' = reports
         \/ /\ reports' = reports \cup {rep} /\ pc # "idle"
            /\ rid \in blind \/ \A r \in OfRound : r.ok = rep.ok
  PROVE  Counted' /\ OneVerdict'
  <1>1. faults' \in Nat /\ (faults' = 0 => faults = 0)
    BY StillFaultless DEF Verdict
  <1>2. /\ told \in [Rounds -> Events \cup {None}]
        /\ pc # "idle" => rid \in Rounds
        /\ \A r \in reports : r.round \in 1..rid /\ r.ok \in BOOLEAN
        /\ \A n \in Rounds : n > rid \/ (n = rid /\ pc # "idle") => told[n] = None
    BY DEF Verdict, Counted
  <1>3. \A r \in reports' : r.round \in 1..rid /\ r.ok \in BOOLEAN
    <2>1. pc # "idle" => rid \in 1..rid
      BY <1>2, ReviewRoundAssumption DEF Rounds
    <2> QED
      BY <1>2, <2>1
  <1>4. Counted'
    BY <1>1, <1>2, <1>3 DEF Counted
  <1>5. \A r, s \in reports : r.round = s.round /\ r.round \notin blind => r.ok = s.ok
    BY DEF Verdict, OneVerdict
  <1>6. \A r, s \in reports' : r.round = s.round /\ r.round \notin blind' => r.ok = s.ok
    <2>1. CASE reports' = reports
      BY <1>5, <2>1
    <2>2. CASE reports' = reports \cup {rep}
               /\ (rid \in blind \/ \A r \in OfRound : r.ok = rep.ok)
      BY <1>5, <2>2 DEF OfRound
    <2> QED
      BY <2>1, <2>2
  <1>7. faults' = 0 => \A n \in Rounds : told'[n] # None => \E r \in reports' : r.round = n
    BY <1>1 DEF Verdict, OneVerdict
  <1>8. OneVerdict'
    BY <1>6, <1>7 DEF OneVerdict
  <1> QED
    BY <1>4, <1>8

(* A step of a round that saves no report.                                 *)
LEMMA NoReportSaved ==
  ASSUME StoreInv, Verdict, FaultsGrow, rid' = rid, told' = told, blind \subseteq blind',
         pc' # "idle" => pc # "idle", reports' = reports
  PROVE  Counted' /\ OneVerdict'
  <1>1. [round |-> rid, ok |-> TRUE].round = rid /\ [round |-> rid, ok |-> TRUE].ok \in BOOLEAN
    OBVIOUS
  <1> QED
    BY <1>1, ReportSaved

(* The closing event of a round that has a report, or had a fault.         *)
LEMMA EventTold ==
  ASSUME StoreInv, Verdict, FaultsGrow, pc # "idle", pc' = "idle", NEW event \in Events,
         told' = [told EXCEPT ![rid] = event], UNCHANGED <<rid, reports, blind>>,
         faults' = 0 => OfRound # {}
  PROVE  Verdict'
  <1>1. faults' \in Nat /\ (faults' = 0 => faults = 0)
    BY StillFaultless DEF Verdict
  <1>2. /\ told \in [Rounds -> Events \cup {None}] /\ rid \in Rounds
        /\ \A n \in Rounds : n > rid => told[n] = None
        /\ \A r \in reports : r.round \in 1..rid /\ r.ok \in BOOLEAN
    BY DEF Verdict, Counted
  <1>3. /\ told' \in [Rounds -> Events \cup {None}]
        /\ \A n \in Rounds \ {rid} : told'[n] = told[n]
    BY <1>2
  <1>4. Counted'
    <2>1. \A n \in Rounds : n > rid => told'[n] = None
      BY <1>2, <1>3 DEF Rounds
    <2> QED
      BY <1>1, <1>2, <1>3, <2>1 DEF Counted
  <1>5. OneVerdict'
    BY <1>1, <1>3 DEF Verdict, OneVerdict, OfRound
  <1>6. Judged'
    BY DEF Judged, Before, Success
  <1> QED
    BY <1>4, <1>5, <1>6 DEF Verdict

(* A round begins, or the process ends.                                    *)
LEMMA VerdictBegins ==
  ASSUME StoreInv, Verdict, StartNow \/ Tick \/ Exit
  PROVE  Verdict'
  <1>1. /\ UNCHANGED <<reports, told, blind>> /\ faults' = faults
        /\ \/ rid' = rid + 1 /\ rid < MaxRounds /\ pc' \in {"reserved", "begin"}
           \/ rid' = rid /\ pc' = "idle"
    BY DEF StartNow, Tick, Exit, storeVars, Goto
  <1>2. rid \in Nat /\ MaxRounds \in Nat
    BY ReviewRoundAssumption DEF StoreInv, Typed
  <1>3. /\ told \in [Rounds -> Events \cup {None}] /\ faults \in Nat
        /\ \A r \in reports : r.round \in 1..rid /\ r.ok \in BOOLEAN
        /\ \A n \in Rounds : n > rid => told[n] = None
    BY DEF Verdict, Counted
  <1>4. \A r \in reports : r.round \in 1..rid' /\ r.ok \in BOOLEAN
    BY <1>1, <1>2, <1>3
  <1>5. pc' # "idle" => rid' \in Rounds
    BY <1>1, <1>2 DEF Rounds
  <1>6. \A n \in Rounds : n > rid' \/ (n = rid' /\ pc' # "idle") => told[n] = None
    BY <1>1, <1>2, <1>3 DEF Rounds, Before
  <1>7. Counted'
    BY <1>1, <1>3, <1>4, <1>5, <1>6 DEF Counted
  <1>8. pc' \in Before => OfRound' = {}
    BY <1>1, <1>2, <1>3 DEF OfRound, Before
  <1>9. Judged'
    BY <1>1, <1>8 DEF Judged, Before, Success
  <1>10. OneVerdict'
    BY <1>1 DEF Verdict, OneVerdict
  <1> QED
    BY <1>7, <1>9, <1>10 DEF Verdict

(* The steps that save no report and tell nothing.                         *)
LEMMA VerdictGoesOn ==
  ASSUME StoreInv, Verdict,
         \/ TaskStarts \/ BeginRound \/ ChatEnds \/ DraftsTried \/ Attach \/ CloseAudit
         \/ Recover \/ Reattach \/ DiscardDrafts \/ Restart
  PROVE  Verdict'
  <1> USE DEF Goto, ended, storeVars, taskVars, NoFault, Fault
  <1>1. /\ FaultsGrow /\ UNCHANGED <<rid, told, reports>> /\ blind \subseteq blind'
        /\ OfRound' = OfRound
    <2>1. CASE TaskStarts \/ BeginRound \/ ChatEnds \/ DraftsTried
      BY <2>1 DEF FaultsGrow, OfRound, TaskStarts, BeginRound, ChatEnds, DraftsTried
    <2>2. CASE Attach \/ CloseAudit \/ Reattach \/ Restart
      BY <2>2 DEF FaultsGrow, OfRound, Attach, CloseAudit, Reattach, Restart, Reconcile
    <2>3. CASE Recover \/ DiscardDrafts
      BY <2>3 DEF FaultsGrow, OfRound, Recover, DiscardDrafts
    <2> QED
      BY <2>1, <2>2, <2>3
  <1>2. up \/ pc = "idle"
    BY DEF StoreInv, Backed
  <1>3. Judged
    BY DEF Verdict
  <1>4. Judged' /\ (pc' # "idle" => pc # "idle")
    <2>1. CASE TaskStarts
      BY <1>1, <1>3, <2>1 DEF TaskStarts, Judged, Before, Success
    <2>2. CASE BeginRound
      <3>1. pc = "begin" /\ ((pc' = "chat" /\ known') \/ pc' = "unwind")
        BY <2>2 DEF BeginRound
      <3> QED
        BY <1>1, <1>3, <3>1 DEF Judged, Before, Success
    <2>3. CASE ChatEnds
      BY <1>1, <1>3, <2>3 DEF ChatEnds, Judged, Before, Success
    <2>4. CASE DraftsTried
      <3>1. /\ known' = known
            /\ \/ pc = "apply" /\ pc' \in {"attach", "again"}
               \/ pc = "again" /\ pc' = "reattach"
        BY <2>4 DEF DraftsTried
      <3> QED
        BY <1>1, <1>3, <3>1 DEF Judged, Before, Success
    <2>5. CASE Attach \/ CloseAudit \/ Reattach
      <3>1. /\ known' = known
            /\ \/ pc = "attach" /\ pc' \in {"close", "again"}
               \/ pc = "close" /\ pc' \in {"tell", "again"}
               \/ pc = "reattach" /\ pc' = "reclose"
        BY <2>5 DEF Attach, CloseAudit, Reattach
      <3> QED
        BY <1>1, <1>3, <3>1 DEF Judged, Before, Success
    <2>6. CASE Recover
      <3>1. CASE pc' = "again"
        BY <1>1, <1>3, <2>6, <3>1 DEF Recover, Judged, Before, Success
      <3>2. CASE pc' = "discard" /\ rid \in blind'
        BY <1>1, <2>6, <3>2 DEF Recover, Judged, Before, Success
      <3>3. CASE pc' = "discard" /\ ~(saved \/ (Claimed /\ Committed))
        <4>1. OfRound = {}
          BY <1>3, <2>6, <3>3 DEF Recover, Judged, Claimed, Committed, OfRound
        <4> QED
          BY <1>1, <2>6, <3>3, <4>1 DEF Recover, Judged, Before, Success
      <3> QED
        BY <2>6, <3>1, <3>2, <3>3 DEF Recover
    <2>7. CASE DiscardDrafts
      BY <1>1, <1>3, <2>7 DEF DiscardDrafts, Judged, Before, Success
    <2>8. CASE Restart
      BY <1>2, <2>8 DEF Restart, Judged, Before, Success
    <2> QED
      BY <2>1, <2>2, <2>3, <2>4, <2>5, <2>6, <2>7, <2>8
  <1>5. Counted' /\ OneVerdict'
    BY <1>1, <1>4, NoReportSaved
  <1> QED
    BY <1>4, <1>5 DEF Verdict

(* The steps that save a report.                                           *)
LEMMA VerdictReported ==
  ASSUME StoreInv, Verdict, SaveBundle \/ SaveFailure \/ RecordPrestart
  PROVE  Verdict'
  <1> USE DEF Goto, ended, storeVars, taskVars, NoFault, Fault
  <1>1. FaultsGrow /\ UNCHANGED <<rid, told, blind, known>>
    BY DEF FaultsGrow, SaveBundle, SaveFailure, RecordPrestart
  <1>2. Judged
    BY DEF Verdict
  <1>3. \A ok, today : Report(ok, today).round = rid /\ Report(ok, today).ok = ok
    BY DEF Report
  <1>4. CASE SaveBundle
    <2>1. PICK rep : /\ rep.round = rid /\ rep.ok = TRUE
                     /\ reports' = reports \/ reports' = reports \cup {rep}
      <3>1. \E today : reports' = reports \/ reports' = reports \cup {Report(TRUE, today)}
        BY <1>4 DEF SaveBundle
      <3> QED
        BY <1>3, <3>1
    <2>2. pc = "save" /\ pc' \in {"apply", "unwind"}
      BY <1>4 DEF SaveBundle
    <2>3. OfRound = {} /\ known
      BY <1>2, <2>2 DEF Judged, Before
    <2>4. \A r \in OfRound' : r = rep
      BY <1>1, <2>1, <2>3 DEF OfRound
    <2>5. Judged'
      BY <1>1, <2>1, <2>2, <2>3, <2>4 DEF Judged, Before, Success
    <2>6. Counted' /\ OneVerdict'
      BY <1>1, <2>1, <2>2, <2>3, ReportSaved
    <2> QED
      BY <2>5, <2>6 DEF Verdict
  <1>5. CASE SaveFailure \/ RecordPrestart
    <2>1. PICK rep : /\ rep.round = rid /\ rep.ok = FALSE
                     /\ reports' = reports \/ reports' = reports \cup {rep}
                     /\ faults' = faults => rep \in reports'
                     /\ faults' = faults \/ faults' = faults + 1
      <3>1. CASE reports' = reports /\ faults' = faults + 1
        <4>1. Report(FALSE, TRUE).round = rid /\ Report(FALSE, TRUE).ok = FALSE
          BY <1>3
        <4>2. faults' # faults
          <5>1. faults \in Nat
            BY DEF Verdict, Counted
          <5> QED
            BY <3>1, <5>1
        <4> QED
          BY <3>1, <4>1, <4>2
      <3>2. CASE faults' = faults /\ \E today : reports' = reports \cup {Report(FALSE, today)}
        BY <1>3, <3>2
      <3> QED
        BY <1>5, <3>1, <3>2 DEF SaveFailure, RecordPrestart
    <2>2. \/ pc = "report" /\ pc' = "refuse"
          \/ pc = "prestart" /\ pc' = "idle"
      BY <1>5 DEF SaveFailure, RecordPrestart
    <2>3. rid \in blind \/ OfRound = {}
      BY <1>2, <2>2 DEF Judged, Before
    <2>4. Counted' /\ OneVerdict'
      BY <1>1, <2>1, <2>2, <2>3, ReportSaved
    <2>5. faults' = 0 => OfRound' # {}
      <3>1. faults' = 0 => faults' = faults
        BY <1>1 DEF FaultsGrow, Verdict, Counted
      <3> QED
        BY <1>1, <2>1, <3>1 DEF OfRound
    <2>6. Judged'
      BY <2>2, <2>5 DEF Judged, Before, Success
    <2> QED
      BY <2>4, <2>6 DEF Verdict
  <1> QED
    BY <1>4, <1>5

(* The steps that tell the browser how the round has ended.                *)
LEMMA VerdictTold ==
  ASSUME StoreInv, Verdict, TellSuccess \/ Reclose \/ CloseFailed
  PROVE  Verdict'
  <1> USE DEF Goto, storeVars, taskVars, NoFault, Fault
  <1>1. FaultsGrow /\ UNCHANGED <<rid, reports, blind>>
    BY DEF FaultsGrow, TellSuccess, Reclose, CloseFailed
  <1>2. Judged /\ Backed
    BY DEF Verdict, StoreInv
  <1>3. faults' = 0 => faults = 0
    BY <1>1, StillFaultless DEF Verdict
  <1>4. CASE TellSuccess \/ Reclose
    <2>1. /\ pc \in {"tell", "reclose"} /\ pc' = "idle"
          /\ told' = [told EXCEPT ![rid] = SuccessEvent]
      BY <1>4 DEF TellSuccess, Reclose
    <2>2. OfRound # {}
      BY <1>2, <2>1 DEF Backed, Committed, OfRound
    <2>3. SuccessEvent \in Events
      BY DEF SuccessEvent, Events
    <2> QED
      BY <1>1, <2>1, <2>2, <2>3, EventTold
  <1>5. CASE CloseFailed
    <2> DEFINE refusal == [ok |-> FALSE, applied |-> FALSE]
    <2>1. /\ pc = "refuse" /\ pc' = "idle"
          /\ told' = told \/ told' = [told EXCEPT ![rid] = refusal]
      BY <1>5 DEF CloseFailed
    <2>2. faults' = 0 => OfRound # {}
      BY <1>2, <1>3, <2>1 DEF Judged
    <2>3. refusal \in Events
      BY DEF Events
    <2>4. CASE told' = [told EXCEPT ![rid] = refusal]
      <3> HIDE DEF refusal
      <3> QED
        BY <1>1, <2>1, <2>2, <2>3, <2>4, EventTold
    <2>5. CASE told' = told
      <3>1. Counted' /\ OneVerdict'
        BY <1>1, <2>1, <2>5, NoReportSaved
      <3>2. Judged'
        BY <2>1 DEF Judged, Before, Success
      <3> QED
        BY <3>1, <3>2 DEF Verdict
    <2> QED
      BY <2>1, <2>4, <2>5
  <1> QED
    BY <1>4, <1>5

(* A shutdown: the bundle under way may have been committed.               *)
LEMMA VerdictCancelled ==
  ASSUME StoreInv, Verdict, Cancel
  PROVE  Verdict'
  <1>1. /\ FaultsGrow /\ UNCHANGED <<rid, told, blind, known>>
        /\ pc' = IF pc \in InTry THEN "unwind" ELSE IF pc = "reserved" THEN "prestart" ELSE "idle"
        /\ reports' = reports \/ (pc = "save" /\ reports' = reports \cup {Report(TRUE, TRUE)})
    BY DEF Cancel, FaultsGrow, taskVars
  <1>2. Judged
    BY DEF Verdict
  <1>3. Report(TRUE, TRUE).round = rid /\ Report(TRUE, TRUE).ok = TRUE
    BY DEF Report
  <1>4. pc = "save" => OfRound = {} /\ known
    BY <1>2 DEF Judged, Before
  <1>5. pc' # "idle" => pc # "idle"
    BY <1>1 DEF InTry
  <1>6. Counted' /\ OneVerdict'
    BY <1>1, <1>3, <1>4, <1>5, ReportSaved
  <1>7. Judged'
    <2>1. CASE reports' = reports
      <3>1. OfRound' = OfRound
        BY <1>1, <2>1 DEF OfRound
      <3> QED
        BY <1>1, <1>2, <3>1 DEF Judged, Before, Success, InTry
    <2>2. CASE pc = "save" /\ reports' = reports \cup {Report(TRUE, TRUE)}
      <3>1. \A r \in OfRound' : r.ok = TRUE
        BY <1>1, <1>3, <1>4, <2>2 DEF OfRound
      <3> QED
        BY <1>1, <1>4, <2>2, <3>1 DEF Judged, Before, Success, InTry
    <2> QED
      BY <1>1, <2>1, <2>2
  <1> QED
    BY <1>6, <1>7 DEF Verdict

LEMMA VerdictSteps ==
  ASSUME StoreInv, Verdict, [Next]_vars
  PROVE  Verdict'
  <1>1. CASE UNCHANGED vars
    BY <1>1, VerdictUntouched DEF vars, FaultsGrow, storeVars, taskVars
  <1>2. CASE StartNow \/ Tick \/ Exit
    BY <1>2, VerdictBegins
  <1>3. CASE RoundStep
    <2>1. CASE \E c \in Channels, v \in Ids : SkipDraft(c, v) \/ WriteDraft(c, v) \/ MarkDraft(c, v)
      <3>1. FaultsGrow /\ UNCHANGED <<pc, rid, known, reports, told, blind>>
        BY <2>1 DEF SkipDraft, WriteDraft, MarkDraft, FaultsGrow, NoFault, Fault, stay, ended
      <3> QED
        BY <3>1, VerdictUntouched
    <2> QED
      BY <1>3, <2>1, VerdictGoesOn, VerdictReported, VerdictTold DEF RoundStep
  <1>4. CASE \/ \E c \in Channels : ReadCurrent(c)
             \/ \E x \in Contents : SubmitStrategy(x)
             \/ \E c \in Channels, x \in Contents : SubmitRead(c, x)
    <2>1. FaultsGrow /\ UNCHANGED <<pc, rid, known, reports, told, blind>>
      <3>1. CASE \E c \in Channels : ReadCurrent(c)
        BY <3>1 DEF ReadCurrent, FaultsGrow, storeVars, ended
      <3>2. CASE \E c \in Channels, x \in Contents : Submit(c, x)
        BY <3>2 DEF Submit, FaultsGrow, NoFault, Fault, ended
      <3> QED
        BY <1>4, <3>1, <3>2 DEF SubmitStrategy, SubmitRead
    <2> QED
      BY <2>1, VerdictUntouched
  <1>5. CASE Operator
    <2>1. UNCHANGED <<pc, rid, known, reports, told, blind>>
      BY <1>5 DEF Operator, others, taskVars
    <2>2. FaultsGrow
      BY <1>5 DEF Operator, FaultsGrow, SaveByHuman, ReviseByHuman, HotEdit, ApplyRevision,
                  Rollback, RecordOperator, NoFault, Fault
    <2> QED
      BY <2>1, <2>2, VerdictUntouched
  <1>6. CASE Cancel
    BY <1>6, VerdictCancelled
  <1>7. CASE Restart
    BY <1>7, VerdictGoesOn
  <1> QED
    BY <1>1, <1>2, <1>3, <1>4, <1>5, <1>6, <1>7 DEF Next

-----------------------------------------------------------------------------
(* What becomes of the drafts.  A row that is no draft any more does not   *)
(* become one again, so the round need only go through its list once.      *)
Done(c, v) == ver[c][v].status # "draft"
Onward == \A c \in Channels : \A v \in Rows(c) : Done(c, v) => Done(c, v)'

(* While drafts are applied, those no longer to do are done, or failed.    *)
Worked ==
  /\ pc \in {"apply", "again"} =>
       \A c \in Channels : \A v \in draftIds[c] : <<c, v>> \in todo \/ c \in failed \/ Done(c, v)
  /\ pc \in {"attach", "close", "tell", "reattach", "reclose"} =>
       \A c \in Channels : \A v \in draftIds[c] : c \in failed \/ Done(c, v)

LEMMA OnwardInserted ==
  ASSUME StoreInv, NEW c \in Channels, NEW row, ver' = Inserted(c, row)
  PROVE  Onward
  <1>1. ASSUME NEW d \in Channels, NEW v \in Rows(d)
        PROVE  ver'[d][v] = ver[d][v]
    <2>1. ver[c] \in Seq(RowSet) /\ ver \in [Channels -> Seq(RowSet)]
      BY DEF StoreInv, Typed
    <2>2. CASE d = c
      <3>1. ver'[c] = Append(ver[c], row)
        BY <2>1 DEF Inserted
      <3>2. v \in 1..Len(ver[c]) /\ Len(ver[c]) \in Nat
        BY <2>1, <2>2 DEF Rows
      <3> QED
        BY <2>1, <2>2, <3>1, <3>2
    <2>3. CASE d # c
      BY <2>1, <2>3 DEF Inserted
    <2> QED
      BY <2>2, <2>3
  <1> QED
    BY <1>1 DEF Onward, Done

LEMMA MarkedStatus ==
  ASSUME StoreInv, NEW c \in Channels, NEW v, NEW st, NEW d \in Channels, NEW w \in Rows(d)
  PROVE  Marked(c, v, st)[d][w].status = IF d = c /\ w = v THEN st ELSE ver[d][w].status
  <1>1. ver \in [Channels -> Seq(RowSet)] /\ ver[d][w] \in RowSet
    BY DEF StoreInv, Typed, Rows
  <1> DEFINE new == [ver[c] EXCEPT ![v] = [ver[c][v] EXCEPT !.status = st]]
  <1>2. Marked(c, v, st) = [ver EXCEPT ![c] = new]
    BY DEF Marked
  <1>3. CASE d # c
    BY <1>1, <1>2, <1>3
  <1>4. CASE d = c
    <2>1. Marked(c, v, st)[d] = new
      BY <1>1, <1>2, <1>4
    <2>2. w # v => new[w] = ver[d][w]
      BY <1>4 DEF Rows
    <2>3. w = v => new[w] = [ver[d][w] EXCEPT !.status = st]
      BY <1>4 DEF Rows
    <2>4. [ver[d][w] EXCEPT !.status = st].status = st
      BY <1>1 DEF RowSet
    <2> HIDE DEF new
    <2> QED
      BY <1>4, <2>1, <2>2, <2>3, <2>4
  <1> QED
    BY <1>3, <1>4

LEMMA OnwardMarked ==
  ASSUME StoreInv, NEW c \in Channels, NEW v, NEW st, st # "draft", ver' = Marked(c, v, st)
  PROVE  Onward
  BY MarkedStatus DEF Onward, Done

LEMMA OnwardRecorded ==
  ASSUME StoreInv, NEW c \in Channels, ver' = RecordedRows(c)
  PROVE  Onward
  BY OnwardInserted, OnwardMarked DEF RecordedRows

LEMMA OnwardAttached ==
  ASSUME StoreInv, ver' = Attached
  PROVE  Onward
  <1>1. ASSUME NEW c \in Channels, NEW v \in Rows(c)
        PROVE  ver'[c][v].status = ver[c][v].status
    <2>1. ver[c][v] \in RowSet
      BY DEF StoreInv, Typed, Rows
    <2>2. ver'[c] = IF named[c] = 0 THEN ver[c] ELSE [ver[c] EXCEPT ![named[c]].report = rid]
      BY DEF Attached
    <2>3. ver'[c][v] = ver[c][v] \/ ver'[c][v] = [ver[c][v] EXCEPT !.report = rid]
      BY <2>2 DEF Rows
    <2>4. [ver[c][v] EXCEPT !.report = rid].status = ver[c][v].status
      BY <2>1 DEF RowSet
    <2> QED
      BY <2>3, <2>4
  <1> QED
    BY <1>1 DEF Onward, Done

LEMMA OnwardDiscarded ==
  ASSUME StoreInv, DiscardDrafts
  PROVE  Onward
  <1>1. PICK kept : ver' = [c \in Channels |-> [v \in Rows(c) |->
                             IF c \notin kept /\ v \in draftIds[c]
                             THEN [ver[c][v] EXCEPT !.status = "discarded"] ELSE ver[c][v]]]
    BY DEF DiscardDrafts
  <1>2. ASSUME NEW c \in Channels, NEW v \in Rows(c)
        PROVE  Done(c, v) => Done(c, v)'
    <2>1. ver[c][v] \in RowSet
      BY DEF StoreInv, Typed, Rows
    <2>2. \/ ver'[c][v] = ver[c][v]
          \/ ver'[c][v] = [ver[c][v] EXCEPT !.status = "discarded"]
      BY <1>1
    <2>3. [ver[c][v] EXCEPT !.status = "discarded"].status = "discarded"
      BY <2>1 DEF RowSet
    <2> QED
      BY <2>2, <2>3 DEF Done
  <1> QED
    BY <1>2 DEF Onward

(* The reconciliation leaves no draft.                                     *)
LEMMA OnwardReconciled ==
  ASSUME StoreInv, Restart
  PROVE  \A c \in Channels : \A v \in Rows(c) : Done(c, v)'
  <1> SUFFICES ASSUME NEW c \in Channels, NEW v \in Rows(c)
               PROVE  ver'[c][v].status # "draft"
    BY DEF Done
  <1>1. ver[c][v] \in RowSet
    BY DEF StoreInv, Typed, Rows
  <1>2. ver'[c] = Discarded(ver[c])
    BY DEF Restart, Reconcile
  <1>3. ver'[c][v] = IF ver[c][v].status = "draft"
                     THEN [ver[c][v] EXCEPT !.status = "discarded"] ELSE ver[c][v]
    BY <1>2 DEF Discarded, Rows
  <1>4. [ver[c][v] EXCEPT !.status = "discarded"].status = "discarded"
    BY <1>1 DEF RowSet
  <1> QED
    BY <1>3, <1>4

(* A submission: the older drafts of the round are discarded.              *)
LEMMA OnwardSubmitted ==
  ASSUME StoreInv, NEW c \in Channels, NEW x \in Contents, Submit(c, x)
  PROVE  Onward
  <1> DEFINE rows == Inserted(c, Draft(c, x, base[c], rid))
  <1>1. \/ ver' = rows
        \/ ver' = [rows EXCEPT ![c] = [w \in DOMAIN rows[c] |->
                     IF w \in draftIds[c] THEN [rows[c][w] EXCEPT !.status = "discarded"]
                     ELSE rows[c][w]]]
    BY DEF Submit
  <1>2. CASE ver' = rows
    BY <1>2, OnwardInserted
  <1>3. ASSUME NEW d \in Channels, NEW v \in Rows(d)
        PROVE  v \in DOMAIN rows[d] /\ rows[d][v] = ver[d][v]
    <2>1. ver[c] \in Seq(RowSet) /\ ver \in [Channels -> Seq(RowSet)]
      BY DEF StoreInv, Typed
    <2>2. CASE d = c
      <3> DEFINE row == Draft(c, x, base[c], rid)
      <3>1. rows[c] = Append(ver[c], row)
        BY <2>1 DEF Inserted
      <3> HIDE DEF rows, row
      <3>2. v \in 1..Len(ver[c]) /\ Len(ver[c]) \in Nat
        BY <2>1, <2>2 DEF Rows
      <3>3. Append(ver[c], row)[v] = ver[c][v] /\ v \in DOMAIN Append(ver[c], row)
        BY <2>1, <3>2
      <3> QED
        BY <2>2, <3>1, <3>3
    <2>3. CASE d # c
      BY <2>1, <2>3 DEF Inserted, Rows
    <2> QED
      BY <2>2, <2>3
  <1>4. rows \in [Channels -> {rows[d] : d \in Channels}]
    BY DEF StoreInv, Typed, Inserted
  <1> HIDE DEF rows
  <1>5. ASSUME NEW d \in Channels, NEW v \in Rows(d),
               ver' = [rows EXCEPT ![c] = [w \in DOMAIN rows[c] |->
                         IF w \in draftIds[c] THEN [rows[c][w] EXCEPT !.status = "discarded"]
                         ELSE rows[c][w]]]
        PROVE  Done(d, v) => Done(d, v)'
    <2>1. ver[d][v] \in RowSet
      BY DEF StoreInv, Typed, Rows
    <2>2. v \in DOMAIN rows[d] /\ rows[d][v] = ver[d][v]
      BY <1>3
    <2>3. \/ ver'[d][v] = rows[d][v]
          \/ ver'[d][v] = [rows[d][v] EXCEPT !.status = "discarded"]
      BY <1>4, <1>5, <2>2
    <2>4. [ver[d][v] EXCEPT !.status = "discarded"].status = "discarded"
      BY <2>1 DEF RowSet
    <2> QED
      BY <2>2, <2>3, <2>4 DEF Done
  <1> QED
    BY <1>1, <1>2, <1>5 DEF Onward

LEMMA OnwardCancelled ==
  ASSUME StoreInv, Cancel
  PROVE  Onward
  <1>1. ASSUME NEW c \in Channels
        PROVE  \/ ver'[c] = ver[c]
               \/ ver'[c] = Marked(c, pending[c].id, "applied")[c]
    <2>1. \/ ver'[c] = ver[c]
          \/ pending[c].who = "agent" /\ ver'[c] = RecordedRows(c)[c]
      BY DEF Cancel
    <2> QED
      BY <2>1 DEF RecordedRows
  <1> QED
    BY <1>1, MarkedStatus DEF Onward, Done

LEMMA OnwardSteps ==
  ASSUME StoreInv, [Next]_vars
  PROVE  Onward
  <1>1. ver' = ver => Onward
    BY DEF Onward, Done
  <1>2. CASE UNCHANGED vars \/ StartNow \/ Tick \/ Exit
    BY <1>1, <1>2 DEF vars, storeVars, StartNow, Tick, Exit
  <1>3. CASE RoundStep
    <2>1. CASE \E c \in Channels, v \in Ids : SkipDraft(c, v) \/ WriteDraft(c, v) \/ MarkDraft(c, v)
      <3>1. PICK c \in Channels, v \in Ids : SkipDraft(c, v) \/ WriteDraft(c, v) \/ MarkDraft(c, v)
        BY <2>1
      <3>2. ver' = ver \/ ver' = Marked(c, v, "discarded") \/ ver' = RecordedRows(c)
        BY <3>1 DEF SkipDraft, WriteDraft, MarkDraft
      <3> QED
        BY <1>1, <3>2, OnwardMarked, OnwardRecorded
    <2>2. CASE \/ TaskStarts \/ BeginRound \/ ChatEnds \/ SaveBundle \/ DraftsTried \/ CloseAudit
               \/ TellSuccess \/ Recover \/ Reclose \/ SaveFailure \/ CloseFailed \/ RecordPrestart
      BY <1>1, <2>2 DEF TaskStarts, BeginRound, ChatEnds, SaveBundle, DraftsTried, CloseAudit,
         TellSuccess, Recover, Reclose, SaveFailure, CloseFailed, RecordPrestart, storeVars
    <2>3. CASE Attach \/ Reattach
      BY <1>1, <2>3, OnwardAttached DEF Attach, Reattach
    <2>4. CASE DiscardDrafts
      BY <2>4, OnwardDiscarded
    <2> QED
      BY <1>3, <2>1, <2>2, <2>3, <2>4 DEF RoundStep
  <1>4. CASE \E c \in Channels : ReadCurrent(c)
    BY <1>1, <1>4 DEF ReadCurrent, storeVars
  <1>5. CASE \/ \E x \in Contents : SubmitStrategy(x)
             \/ \E c \in Channels, x \in Contents : SubmitRead(c, x)
    BY <1>5, OnwardSubmitted DEF SubmitStrategy, SubmitRead
  <1>6. CASE Operator
    <2>1. PICK c \in Channels :
            \/ ver' = ver \/ (\E row : ver' = Inserted(c, row))
            \/ (\E v : ver' = Marked(c, v, "discarded")) \/ ver' = RecordedRows(c)
      BY <1>6 DEF Operator, SaveByHuman, ReviseByHuman, HotEdit, ApplyRevision, Rollback,
         RecordOperator
    <2> QED
      BY <1>1, <2>1, OnwardInserted, OnwardMarked, OnwardRecorded
  <1>7. CASE Cancel
    BY <1>7, OnwardCancelled
  <1>8. CASE Restart
    BY <1>8, OnwardReconciled DEF Onward
  <1> QED
    BY <1>2, <1>3, <1>4, <1>5, <1>6, <1>7, <1>8 DEF Next

(* A step that leaves the list of drafts and the round alone.              *)
LEMMA WorkedUntouched ==
  ASSUME StoreInv, Worked, SettledAsTold, Onward,
         UNCHANGED <<up, pc, rid, draftIds, todo, failed, told>>
  PROVE  Worked' /\ SettledAsTold'
  <1>1. \A c \in Channels : \A v \in draftIds[c] : Done(c, v) => Done(c, v)'
    BY DEF StoreInv, Own, Agents, Rows, Onward
  <1>2. Worked'
    BY <1>1 DEF Worked
  <1>3. SettledAsTold'
    BY <1>1 DEF SettledAsTold, Done
  <1> QED
    BY <1>2, <1>3

(* A step after which nothing is claimed of the drafts: the round has not  *)
(* reached them, is a failure, or has told nothing.                        *)
LEMMA NothingClaimed ==
  ASSUME pc' \notin {"apply", "again", "attach", "close", "tell", "reattach", "reclose"},
         pc' = "idle" => ~up' \/ told'[rid'] # [ok |-> TRUE, applied |-> TRUE]
  PROVE  Worked' /\ SettledAsTold'
  BY DEF Worked, SettledAsTold

LEMMA NoEventYet ==
  ASSUME Verdict, pc # "idle"
  PROVE  rid \in Rounds /\ told[rid] = None /\ None # [ok |-> TRUE, applied |-> TRUE]
  <1>1. [ok |-> TRUE, applied |-> TRUE] \in [ok : BOOLEAN, applied : BOOLEAN]
    OBVIOUS
  <1> QED
    BY <1>1, ReviewRoundAssumption DEF Verdict, Counted

(* The drafts are tried one by one.                                        *)
LEMMA DraftTried ==
  ASSUME StoreInv, Worked, Onward, NEW c \in Channels, NEW v \in Ids,
         SkipDraft(c, v) \/ WriteDraft(c, v) \/ MarkDraft(c, v)
  PROVE  Worked' /\ SettledAsTold'
  <1>1. /\ Applying(c, v) /\ UNCHANGED <<pc, draftIds>> /\ failed \subseteq failed'
        /\ todo' = todo \/ (todo' = todo \ {<<c, v>>} /\ (Done(c, v)' \/ c \in failed'))
    <2>1. CASE SkipDraft(c, v)
      <3>1. /\ Applying(c, v) /\ UNCHANGED <<pc, draftIds, failed>> /\ todo' = todo \ {<<c, v>>}
            /\ \/ ver[c][v].status = "applied" /\ ver' = ver
               \/ ver' = Marked(c, v, "discarded")
        BY <2>1 DEF SkipDraft, Tried, Replaced, stay
      <3>2. Done(c, v)'
        <4>1. v \in Rows(c)
          BY <3>1 DEF Applying, StoreInv, Own, AllDrafts, Agents, Rows
        <4>2. Marked(c, v, "discarded")[c][v].status = "discarded"
          BY <4>1, MarkedStatus
        <4> QED
          BY <3>1, <4>2 DEF Done
      <3> QED
        BY <3>1, <3>2
    <2>2. CASE WriteDraft(c, v)
      BY <2>2 DEF WriteDraft, Tried, stay
    <2>3. CASE MarkDraft(c, v)
      <3>1. /\ Applying(c, v) /\ UNCHANGED <<pc, draftIds>> /\ todo' = todo \ {<<c, v>>}
            /\ pending[c] = Mark("agent", v)
            /\ \/ ver' = RecordedRows(c) /\ failed' = failed
               \/ failed' = failed \cup {c}
        BY <2>3 DEF MarkDraft, Tried, stay
      <3>2. ver' = RecordedRows(c) => Done(c, v)'
        <4>1. v \in Rows(c)
          BY <3>1 DEF Applying, StoreInv, Own, AllDrafts, Agents, Rows
        <4>2. RecordedRows(c) = Marked(c, v, "applied")
          BY <3>1 DEF RecordedRows, Mark
        <4>3. Marked(c, v, "applied")[c][v].status = "applied"
          BY <4>1, MarkedStatus
        <4> QED
          BY <4>2, <4>3 DEF Done
      <3> QED
        BY <3>1, <3>2
    <2> QED
      BY <2>1, <2>2, <2>3
  <1>2. \A d \in Channels : \A w \in draftIds[d] : Done(d, w) => Done(d, w)'
    BY DEF StoreInv, Own, Agents, Rows, Onward
  <1>3. pc' \in {"apply", "again"}
    BY <1>1 DEF Applying
  <1>4. ASSUME NEW d \in Channels, NEW w \in draftIds'[d]
        PROVE  <<d, w>> \in todo' \/ d \in failed' \/ Done(d, w)'
    <2>1. w \in draftIds[d] /\ (<<d, w>> \in todo \/ d \in failed \/ Done(d, w))
      BY <1>1, <1>3 DEF Worked
    <2>2. CASE d = c /\ w = v
      BY <1>1, <1>2, <2>1, <2>2
    <2>3. CASE ~(d = c /\ w = v)
      BY <1>1, <1>2, <2>1, <2>3
    <2> QED
      BY <2>2, <2>3
  <1> QED
    BY <1>3, <1>4 DEF Worked, SettledAsTold

(* The steps that take the list up, leave it, or go on behind it.          *)
LEMMA ListSteps ==
  ASSUME StoreInv, Verdict, Worked, Onward,
         \/ SaveBundle \/ DraftsTried \/ Attach \/ CloseAudit \/ Recover \/ Reattach
         \/ TellSuccess \/ Reclose
  PROVE  Worked' /\ SettledAsTold'
  <1> USE DEF Goto, ended, taskVars
  <1>1. \A c \in Channels : \A v \in draftIds[c] : Done(c, v) => Done(c, v)'
    BY DEF StoreInv, Own, Agents, Rows, Onward
  <1>2. draftIds' = draftIds
    BY DEF SaveBundle, DraftsTried, Attach, CloseAudit, Recover, Reattach, TellSuccess, Reclose
  <1>3. \A c \in Channels : \A v \in draftIds[c] : <<c, v>> \in AllDrafts
    <2>1. ASSUME NEW c \in Channels, NEW v \in draftIds[c]
          PROVE  <<c, v>> \in AllDrafts
      <3>1. v \in Rows(c) /\ Len(ver[c]) <= MaxVersions /\ ver[c] \in Seq(RowSet)
        BY DEF StoreInv, Typed, Own, Agents, Rows
      <3>2. v \in 1..Len(ver[c]) /\ Len(ver[c]) \in Nat
        BY <3>1 DEF Rows
      <3>3. v \in Ids
        <4>1. MaxVersions \in Nat
          BY VersionStoreAssumption
        <4> QED
          BY <3>1, <3>2, <4>1 DEF Ids
      <3> QED
        BY <3>3 DEF AllDrafts
    <2> QED
      BY <2>1
  <1>4. CASE pc' \in {"apply", "again"} /\ todo' = AllDrafts
    BY <1>2, <1>3, <1>4 DEF Worked, SettledAsTold
  <1>5. CASE pc' \in {"unwind", "discard"}
    BY <1>5, NothingClaimed
  <1>6. CASE SaveBundle \/ Recover
    BY <1>4, <1>5, <1>6 DEF SaveBundle, Recover, Retry
  <1>7. CASE DraftsTried \/ Attach \/ CloseAudit \/ Reattach
    <2>1. \/ pc' = "again" /\ todo' = AllDrafts
          \/ /\ failed' = failed /\ pc' \in {"attach", "close", "tell", "reattach", "reclose"}
             /\ \/ pc \in {"apply", "again"} /\ todo = {}
                \/ pc \in {"attach", "close", "reattach"}
      BY <1>7 DEF DraftsTried, Attach, CloseAudit, Reattach, Retry
    <2>2. CASE /\ failed' = failed /\ pc' \in {"attach", "close", "tell", "reattach", "reclose"}
               /\ \/ pc \in {"apply", "again"} /\ todo = {}
                  \/ pc \in {"attach", "close", "reattach"}
      <3>1. \A c \in Channels : \A v \in draftIds[c] : c \in failed \/ Done(c, v)
        BY <2>2 DEF Worked
      <3> QED
        BY <1>1, <1>2, <2>2, <3>1 DEF Worked, SettledAsTold
    <2> QED
      BY <1>4, <2>1, <2>2
  <1>8. CASE TellSuccess \/ Reclose
    <2>1. /\ pc \in {"tell", "reclose"} /\ pc' = "idle" /\ rid' = rid
          /\ told' = [told EXCEPT ![rid] = SuccessEvent]
      BY <1>8 DEF TellSuccess, Reclose
    <2>2. \A c \in Channels : \A v \in draftIds[c] : c \in failed \/ Done(c, v)
      BY <2>1 DEF Worked
    <2>3. told'[rid] = SuccessEvent
      <3>1. told \in [Rounds -> Events \cup {None}] /\ rid \in Rounds
        BY <2>1 DEF Verdict, Counted
      <3> QED
        BY <2>1, <3>1
    <2>4. SuccessEvent = [ok |-> TRUE, applied |-> TRUE] => failed = {}
      <3>1. failed # {} => SuccessEvent.applied = FALSE
        BY DEF SuccessEvent
      <3>2. [ok |-> TRUE, applied |-> TRUE].applied = TRUE
        OBVIOUS
      <3> QED
        BY <3>1, <3>2
    <2>5. SettledAsTold'
      BY <1>1, <1>2, <2>1, <2>2, <2>3, <2>4 DEF SettledAsTold, Done
    <2>6. Worked'
      BY <2>1 DEF Worked
    <2> QED
      BY <2>5, <2>6
  <1> QED
    BY <1>6, <1>7, <1>8

LEMMA WorkedSteps ==
  ASSUME StoreInv, Verdict, Worked, SettledAsTold, [Next]_vars
  PROVE  Worked' /\ SettledAsTold'
  <1> USE DEF Goto
  <1>1. Onward
    BY OnwardSteps
  <1>2. CASE UNCHANGED vars
    BY <1>1, <1>2, WorkedUntouched DEF vars, taskVars
  <1>3. CASE StartNow \/ Tick \/ Exit
    BY <1>3, NothingClaimed DEF StartNow, Tick, Exit
  <1>4. CASE RoundStep
    <2>1. CASE \E c \in Channels, v \in Ids : SkipDraft(c, v) \/ WriteDraft(c, v) \/ MarkDraft(c, v)
      BY <1>1, <2>1, DraftTried
    <2>2. CASE TaskStarts \/ BeginRound \/ ChatEnds \/ DiscardDrafts \/ SaveFailure
      BY <2>2, NothingClaimed DEF TaskStarts, BeginRound, ChatEnds, DiscardDrafts, SaveFailure
    <2>3. CASE CloseFailed \/ RecordPrestart
      <3>1. /\ pc # "idle" /\ pc' = "idle" /\ rid' = rid
            /\ \/ told' = told
               \/ told' = [told EXCEPT ![rid] = [ok |-> FALSE, applied |-> FALSE]]
        BY <2>3 DEF CloseFailed, RecordPrestart
      <3>2. rid \in Rounds /\ told[rid] = None /\ None # [ok |-> TRUE, applied |-> TRUE]
        BY <3>1, NoEventYet
      <3>3. told \in [Rounds -> Events \cup {None}]
        BY DEF Verdict, Counted
      <3>4. [ok |-> FALSE, applied |-> FALSE] # [ok |-> TRUE, applied |-> TRUE]
        <4>1. /\ [ok |-> FALSE, applied |-> FALSE].ok = FALSE
              /\ [ok |-> TRUE, applied |-> TRUE].ok = TRUE
          OBVIOUS
        <4> QED
          BY <4>1
      <3>5. told'[rid'] # [ok |-> TRUE, applied |-> TRUE]
        <4>1. CASE told' = told
          BY <3>1, <3>2, <4>1
        <4> DEFINE refusal == [ok |-> FALSE, applied |-> FALSE]
        <4>2. CASE told' = [told EXCEPT ![rid] = refusal]
          <5>1. refusal # [ok |-> TRUE, applied |-> TRUE]
            BY <3>4
          <5> HIDE DEF refusal
          <5>2. told'[rid] = refusal
            BY <3>2, <3>3, <4>2
          <5> QED
            BY <3>1, <5>1, <5>2
        <4> QED
          BY <3>1, <4>1, <4>2
      <3> QED
        BY <3>1, <3>5, NothingClaimed
    <2> QED
      BY <1>1, <1>4, <2>1, <2>2, <2>3, ListSteps DEF RoundStep
  <1>5. CASE \E c \in Channels : ReadCurrent(c)
    BY <1>1, <1>5, WorkedUntouched DEF ReadCurrent, ended
  <1>6. CASE \/ \E x \in Contents : SubmitStrategy(x)
             \/ \E c \in Channels, x \in Contents : SubmitRead(c, x)
    <2>1. pc' = "chat"
      BY <1>6 DEF SubmitStrategy, SubmitRead, Submit
    <2> QED
      BY <2>1, NothingClaimed
  <1>7. CASE Operator
    BY <1>1, <1>7, WorkedUntouched DEF Operator, others, taskVars
  <1>8. CASE Cancel
    <2>1. /\ UNCHANGED <<up, rid, draftIds, todo, failed, told>>
          /\ \/ pc' \in {"unwind", "prestart"}
             \/ pc' = "idle"
      BY <1>8 DEF Cancel, taskVars
    <2>2. CASE pc = "idle"
      <3>1. pc' = pc
        BY <1>8, <2>2 DEF Cancel, InTry
      <3> QED
        BY <1>1, <2>1, <3>1, WorkedUntouched
    <2>3. CASE pc # "idle"
      <3>1. told'[rid'] # [ok |-> TRUE, applied |-> TRUE]
        BY <2>1, <2>3, NoEventYet
      <3> QED
        BY <2>1, <3>1, NothingClaimed
    <2> QED
      BY <2>2, <2>3
  <1>9. CASE Restart
    <2>1. pc' = "idle" /\ draftIds' = draftIds
      BY <1>9 DEF Restart, StoreInv, Backed, taskVars
    <2>2. \A c \in Channels : \A v \in draftIds'[c] : Done(c, v)'
      BY <1>9, <2>1, OnwardReconciled DEF StoreInv, Own, Agents, Rows
    <2> QED
      BY <2>1, <2>2 DEF Worked, SettledAsTold, Done
  <1> QED
    BY <1>2, <1>3, <1>4, <1>5, <1>6, <1>7, <1>8, <1>9 DEF Next

-----------------------------------------------------------------------------
LEMMA VerdictInitially ==
  ASSUME Init
  PROVE  Verdict /\ Worked /\ SettledAsTold
  <1>1. Counted
    BY DEF Init, StoreInit, Counted
  <1>2. Judged /\ OneVerdict /\ Worked /\ SettledAsTold
    BY DEF Init, Judged, Before, Success, OneVerdict, Worked, SettledAsTold
  <1> QED
    BY <1>1, <1>2 DEF Verdict

(* However a round ends (its last event sent, cancelled at any await, cut  *)
(* short by a crash), nothing of it is in effect without its report, it is *)
(* never on record both as a success and as a failure unless the lookup of *)
(* the report failed, and if it was announced as applied, none of its      *)
(* drafts still waits (agent.py: _finalize_success, _complete_interrupted, *)
(* _fail; drafts.py: apply_drafts).                                        *)
THEOREM RoundsAreSettled == Spec => []RoundsSettled
  <1> DEFINE Inv == StoreInv /\ Verdict /\ Worked /\ SettledAsTold
  <1>1. Init => Inv
    BY StoreInitially, VerdictInitially
  <1>2. Inv /\ [Next]_vars => Inv'
    BY StoreSteps, VerdictSteps, WorkedSteps
  <1>3. Inv => RoundsSettled
    BY DEF StoreInv, Verdict, RoundsSettled
  <1> QED
    BY <1>1, <1>2, <1>3, PTL DEF Spec

-----------------------------------------------------------------------------
(* The configuration.  What the file, the program and the open forms hold, *)
(* and what each part of a setting may be.                                 *)
Versions    == {1, 2}
Credentials == [name : Names \cup {"default"}, ver : Versions]
Settings ==
  [lock : BOOLEAN, limit : Versions, mode : Versions, model : Versions,
   credentials : SUBSET Credentials, binding : [Config!Agents -> Names \cup {"default"}]]

Settled ==
  /\ config \in Settings /\ run \in Settings /\ form \in [Forms -> SUBSET Settings]
  /\ provider \in [Config!Agents -> {provider[a] : a \in Config!Agents}]
  /\ routed \in [Names -> {0} \cup Versions] /\ unsaved \in BOOLEAN /\ unbuilt \in BOOLEAN

(* What the program runs is in the file, but for what was reported.        *)
InEffect ==
  /\ \A k \in Config!Fields \ {"lock"} : config[k] # run[k] => k \in restart
  /\ config.lock # run.lock => unsaved = TRUE /\ run.lock = TRUE
Spoken ==
  unbuilt = FALSE => \A a \in Config!Agents :
    Config!BuiltFrom(run, env, a) # {} => provider[a] \in Config!BuiltFrom(run, env, a)

(* What is to be kept of the credentials: also the file can be started.    *)
RoutesKept ==
  /\ config.credentials = run.credentials
  /\ \A n \in Names \ {"default"} :
       {c.ver : c \in {d \in config.credentials : d.name = n}} = {routed[n]} \ {0}
  /\ Config!Valid(run) /\ Config!Valid(config)

ConfigInv == Settled /\ InEffect /\ Spoken /\ RoutesKept

LEMMA ThreeLess == \A v \in Versions : 3 - v \in Versions /\ 3 - v # 0
  BY DEF Versions

(* create_provider finds what there is to be found.                        *)
LEMMA RebuiltSpeaks ==
  ASSUME NEW s, NEW e, NEW old
  PROVE  \A a \in Config!Agents : Config!BuiltFrom(s, e, a) # {} => Config!Rebuilt(s, e,
           old)[a] \in Config!BuiltFrom(s, e, a)
  <1> TAKE a \in Config!Agents
  <1> HAVE Config!BuiltFrom(s, e, a) # {}
  <1>1. Config!Rebuilt(s, e, old)[a] = CHOOSE p \in Config!BuiltFrom(s, e, a) : TRUE
    BY DEF Config!Rebuilt
  <1> QED
    BY <1>1

LEMMA NamesResolved ==
  ASSUME NEW s \in Settings, NEW t \in Settings, s.credentials = t.credentials
  PROVE  /\ Config!NamesOf(Config!resolve_credentials(s)) =
              Config!NamesOf(Config!resolve_credentials(t))
         /\ Config!resolve_credentials(s) \in SUBSET Credentials
         /\ s.binding = t.binding => (Config!Valid(s) <=> Config!Valid(t))
  <1>1. s.model \in Versions /\ t.model \in Versions /\ s.credentials \in SUBSET Credentials
    BY DEF Settings
  <1>2. [name |-> "default", ver |-> s.model] \in Credentials
    BY <1>1 DEF Credentials
  <1>3. Config!NamesOf(Config!resolve_credentials(s)) =
          Config!NamesOf(Config!resolve_credentials(t))
    <2>1. CASE s.credentials = {}
      <3>1. /\ Config!resolve_credentials(s) = {[name |-> "default", ver |-> s.model]}
            /\ Config!resolve_credentials(t) = {[name |-> "default", ver |-> t.model]}
        BY <2>1 DEF Config!resolve_credentials
      <3>2. /\ Config!NamesOf(Config!resolve_credentials(s)) = {"default"}
            /\ Config!NamesOf(Config!resolve_credentials(t)) = {"default"}
        BY <3>1 DEF Config!NamesOf
      <3> QED
        BY <3>2
    <2>2. CASE s.credentials # {}
      BY <2>2 DEF Config!resolve_credentials
    <2> QED
      BY <2>1, <2>2
  <1>4. Config!resolve_credentials(s) \in SUBSET Credentials
    BY <1>1, <1>2 DEF Config!resolve_credentials
  <1> QED
    BY <1>3, <1>4 DEF Config!Valid

LEMMA ConfigAtFirst == Config!Init => ConfigInv
  <1> SUFFICES ASSUME Config!Init PROVE ConfigInv
    OBVIOUS
  <1>1. /\ config = [lock |-> FALSE, limit |-> 1, mode |-> 1, model |-> 1, credentials |-> {},
                   binding |-> [a \in Config!Agents |-> "default"]]
        /\ run = config /\ provider = Config!Rebuilt(run, env, Config!NoProvider)
        /\ form = [f \in Forms |-> {}] /\ routed = [n \in Names |-> 0]
        /\ unbuilt = FALSE /\ unsaved = FALSE
    BY DEF Config!Init
  <1>2. config \in Settings
    <2>1. [a \in Config!Agents |-> "default"] \in [Config!Agents -> Names \cup {"default"}]
      OBVIOUS
    <2> QED
      BY <1>1, <2>1 DEF Settings, Versions
  <1>3. provider \in [Config!Agents -> {provider[a] : a \in Config!Agents}]
    BY <1>1 DEF Config!Rebuilt
  <1>4. Settled
    <2>1. form \in [Forms -> SUBSET Settings] /\ routed \in [Names -> {0} \cup Versions]
      BY <1>1
    <2> QED
      BY <1>1, <1>2, <1>3, <2>1 DEF Settled
  <1>5. InEffect
    BY <1>1 DEF InEffect
  <1>6. Spoken
    BY <1>1, RebuiltSpeaks DEF Spoken
  <1>7. Config!Valid(config)
    <2>1. config.credentials = {} /\ config.binding["trader"] = "default"
      BY <1>1 DEF Config!Agents
    <2>2. Config!NamesOf(Config!resolve_credentials(config)) = {"default"}
      BY <2>1 DEF Config!resolve_credentials, Config!NamesOf
    <2> QED
      BY <2>1, <2>2 DEF Config!Valid
  <1>8. RoutesKept
    <2>1. \A n \in Names : {routed[n]} \ {0} = {}
      BY <1>1
    <2>2. config.credentials = {}
      BY <1>1
    <2> QED
      BY <1>1, <1>7, <2>1, <2>2 DEF RoutesKept
  <1> QED
    BY <1>4, <1>5, <1>6, <1>8 DEF ConfigInv

(* What a form that is saved makes of the file and of the program.         *)
LEMMA EditedSettings ==
  ASSUME NEW s \in Settings, NEW body \in Config!Edited(s), config \in Settings, run \in Settings
  PROVE  /\ Config!Merge(body) \in Settings /\ Config!WriteBack(Config!Merge(body)) \in Settings
         /\ Config!Merge(body).credentials = config.credentials
         /\ Config!WriteBack(Config!Merge(body)).credentials = run.credentials
         /\ \A k \in Config!Fields :
              k \in Config!Changed(Config!Merge(body)) \cap Config!RuntimeKeys =>
              Config!WriteBack(Config!Merge(body))[k] = Config!Merge(body)[k]
         /\ \A k \in Config!Fields :
              k \notin Config!Changed(Config!Merge(body)) \cap Config!RuntimeKeys =>
              Config!WriteBack(Config!Merge(body))[k] = run[k]
  <1>1. body \in Settings
    <2>1. \A v \in Versions : 3 - v \in Versions
      BY ThreeLess
    <2>2. /\ s.limit \in Versions /\ s.mode \in Versions /\ s.model \in Versions
          /\ s.binding \in [Config!Agents -> Names \cup {"default"}]
               /\ s.credentials \in SUBSET Credentials
      BY DEF Settings
    <2>3. CASE body = [s EXCEPT !.limit = 3 - @]
      BY <2>1, <2>2, <2>3 DEF Settings
    <2>4. CASE body = [s EXCEPT !.mode = 3 - @]
      BY <2>1, <2>2, <2>4 DEF Settings
    <2>5. CASE body = [s EXCEPT !.model = 3 - @]
      BY <2>1, <2>2, <2>5 DEF Settings
    <2>6. ASSUME NEW a \in Config!Agents, NEW n \in Config!NamesOf(Config!resolve_credentials(s)),
                 body = [s EXCEPT !.binding[a] = n]
          PROVE  body \in Settings
      <3>1. Config!resolve_credentials(s) \in SUBSET Credentials
        BY NamesResolved
      <3>2. n \in Names \cup {"default"}
        BY <2>6, <3>1 DEF Config!NamesOf, Credentials
      <3>3. [s.binding EXCEPT ![a] = n] \in [Config!Agents -> Names \cup {"default"}]
        BY <2>2, <3>2
      <3>4. body = [s EXCEPT !.binding = [s.binding EXCEPT ![a] = n]]
        BY <2>6
      <3> QED
        BY <3>3, <3>4 DEF Settings
    <2> QED
      BY <2>3, <2>4, <2>5, <2>6 DEF Config!Edited
  <1> DEFINE new == Config!Merge(body)
  <1>2. new \in Settings /\ new.credentials = config.credentials
    <2>1. config.credentials \in SUBSET Credentials
      BY DEF Settings
    <2> QED
      BY <1>1, <2>1 DEF Config!Merge, Settings
  <1> HIDE DEF new
  <1>3. DOMAIN run = {"lock", "limit", "mode", "model", "credentials", "binding"}
    BY DEF Settings
  <1> DEFINE w == Config!WriteBack(new)
  <1>4. /\ w.lock \in {new.lock, run.lock} /\ w.limit \in {new.limit, run.limit}
        /\ w.mode = run.mode /\ w.model \in {new.model, run.model}
        /\ w.credentials = run.credentials /\ w.binding \in {new.binding, run.binding}
        /\ DOMAIN w = DOMAIN run
    BY <1>3 DEF Config!WriteBack, Config!RuntimeKeys, Config!Fields
  <1>5. /\ \A k \in Config!Fields : k \in Config!Changed(new) \cap Config!RuntimeKeys =>
             w[k] = new[k]
        /\ \A k \in Config!Fields : k \notin Config!Changed(new) \cap Config!RuntimeKeys =>
             w[k] = run[k]
    BY <1>3 DEF Config!WriteBack, Config!Fields
  <1>6. w = [lock |-> w.lock, limit |-> w.limit, mode |-> w.mode, model |-> w.model,
             credentials |-> w.credentials, binding |-> w.binding]
    BY <1>3, <1>4 DEF Config!WriteBack
  <1>7. w \in Settings
    <2> HIDE DEF w
    <2>1. /\ new.lock \in BOOLEAN /\ new.limit \in Versions /\ new.model \in Versions
          /\ new.binding \in [Config!Agents -> Names \cup {"default"}]
          /\ run.lock \in BOOLEAN /\ run.limit \in Versions /\ run.model \in Versions
          /\ run.binding \in [Config!Agents -> Names \cup {"default"}] /\ run.mode \in Versions
          /\ run.credentials \in SUBSET Credentials
      BY <1>2 DEF Settings
    <2>2. /\ w.lock \in BOOLEAN /\ w.limit \in Versions /\ w.mode \in Versions
          /\ w.model \in Versions /\ w.credentials \in SUBSET Credentials
          /\ w.binding \in [Config!Agents -> Names \cup {"default"}]
      BY <1>4, <2>1
    <2> QED
      BY <1>6, <2>2 DEF Settings
  <1> QED
    BY <1>2, <1>4, <1>5, <1>7 DEF new

LEMMA ConfigSaveForm ==
  ASSUME ConfigInv, NEW f \in Forms, Config!SaveForm(f)
  PROVE  ConfigInv'
  <1>1. Settled /\ InEffect /\ Spoken /\ RoutesKept
    BY DEF ConfigInv
  <1>2. PICK s \in form[f] : \E body \in Config!Edited(s) :
          /\ Config!WriteSettings(Config!Merge(body)) /\ run' = Config!WriteBack(Config!Merge(body))
          /\ restart' = restart \cup (Config!Changed(Config!Merge(body)) \ Config!RuntimeKeys)
          /\ unsaved' = (unsaved /\ "lock" \notin Config!Changed(Config!Merge(body)))
          /\ IF Config!Changed(Config!Merge(body)) \cap Config!RuntimeKeys \cap Config!HotKeys # {}
             THEN Config!Reconfigure(run', env)
             ELSE UNCHANGED <<provider, unbuilt>>
    BY DEF Config!SaveForm
  <1>3. PICK body \in Config!Edited(s) :
          /\ Config!WriteSettings(Config!Merge(body)) /\ run' = Config!WriteBack(Config!Merge(body))
          /\ restart' = restart \cup (Config!Changed(Config!Merge(body)) \ Config!RuntimeKeys)
          /\ unsaved' = (unsaved /\ "lock" \notin Config!Changed(Config!Merge(body)))
          /\ IF Config!Changed(Config!Merge(body)) \cap Config!RuntimeKeys \cap Config!HotKeys # {}
             THEN Config!Reconfigure(run', env)
             ELSE UNCHANGED <<provider, unbuilt>>
    BY <1>2
  <1>4. s \in Settings
    BY <1>1 DEF Settled
  <1> DEFINE new == Config!Merge(body)
  <1>5. /\ new \in Settings /\ run' \in Settings
        /\ new.credentials = config.credentials /\ run'.credentials = run.credentials
        /\ \A k \in Config!Fields : k \in Config!Changed(new) \cap Config!RuntimeKeys =>
             run'[k] = new[k]
        /\ \A k \in Config!Fields : k \notin Config!Changed(new) \cap Config!RuntimeKeys =>
             run'[k] = run[k]
    BY <1>1, <1>3, <1>4, EditedSettings DEF Settled
  <1> HIDE DEF new
  <1>6. /\ Config!Valid(new) /\ config' = new /\ restart' =
             restart \cup (Config!Changed(new) \ Config!RuntimeKeys)
        /\ unsaved' = (unsaved /\ "lock" \notin Config!Changed(new))
        /\ IF Config!Changed(new) \cap Config!RuntimeKeys \cap Config!HotKeys # {}
           THEN Config!Reconfigure(run', env)
           ELSE UNCHANGED <<provider, unbuilt>>
        /\ form' = [form EXCEPT ![f] = {config'}] /\ UNCHANGED <<env, routed>>
    BY <1>3 DEF new, Config!SaveForm, Config!WriteSettings
  <1>7. \A k \in Config!Fields : k \notin Config!Changed(new) => new[k] = config[k]
    BY DEF Config!Changed
  <1>8. provider' \in [Config!Agents -> {provider'[a] : a \in Config!Agents}]
          /\ unbuilt' \in BOOLEAN
    BY <1>1, <1>6 DEF Settled, Config!Reconfigure, Config!Rebuilt
  <1>9. Settled'
    <2>1. form' \in [Forms -> SUBSET Settings]
      BY <1>1, <1>5, <1>6 DEF Settled
    <2> QED
      BY <1>1, <1>5, <1>6, <1>8, <2>1 DEF Settled
  <1>10. InEffect'
    <2>1. ASSUME NEW k \in Config!Fields \ {"lock"}, config'[k] # run'[k] PROVE k \in restart'
      <3>1. CASE k \notin Config!Changed(new)
        BY <1>1, <1>5, <1>6, <1>7, <2>1, <3>1 DEF InEffect
      <3>2. CASE k \in Config!Changed(new)
        BY <1>5, <1>6, <2>1, <3>2
      <3> QED
        BY <3>1, <3>2
    <2>2. "lock" \in Config!Fields /\ "lock" \in Config!RuntimeKeys
      BY DEF Config!Fields, Config!RuntimeKeys
    <2>3. config'["lock"] # run'["lock"] => unsaved' = TRUE /\ run'["lock"] = TRUE
      <3>1. CASE "lock" \in Config!Changed(new)
        BY <1>5, <1>6, <2>2, <3>1
      <3>2. CASE "lock" \notin Config!Changed(new)
        <4>1. config'["lock"] = config["lock"] /\ run'["lock"] = run["lock"] /\ unsaved' = unsaved
          BY <1>1, <1>5, <1>6, <1>7, <2>2, <3>2 DEF Settled
        <4> QED
          BY <1>1, <4>1 DEF InEffect
      <3> QED
        BY <3>1, <3>2
    <2> QED
      BY <2>1, <2>3 DEF InEffect
  <1>11. Spoken'
    <2>1. CASE Config!Changed(new) \cap Config!RuntimeKeys \cap Config!HotKeys # {}
      <3>1. provider' = Config!Rebuilt(run', env, provider) /\ env' = env
        BY <1>6, <2>1 DEF Config!Reconfigure
      <3> QED
        BY <3>1, RebuiltSpeaks DEF Spoken
    <2>2. CASE Config!Changed(new) \cap Config!RuntimeKeys \cap Config!HotKeys = {}
      <3>1. "model" \in Config!Fields /\ "binding" \in Config!Fields
              /\ "model" \in Config!HotKeys /\ "binding" \in Config!HotKeys
        BY DEF Config!Fields, Config!HotKeys
      <3>2. run'["model"] = run["model"] /\ run'["binding"] = run["binding"]
        BY <1>5, <2>2, <3>1
      <3>3. Config!resolve_credentials(run)' = Config!resolve_credentials(run)
        BY <1>5, <3>2 DEF Config!resolve_credentials
      <3>4. \A a \in Config!Agents : Config!BuiltFrom(run, env, a)' = Config!BuiltFrom(run, env, a)
        BY <1>6, <3>2, <3>3 DEF Config!BuiltFrom
      <3> QED
        BY <1>1, <1>6, <2>2, <3>4 DEF Spoken
    <2> QED
      BY <2>1, <2>2
  <1>12. RoutesKept'
    <2>1. Config!Valid(run)'
      <3>1. config \in Settings /\ run \in Settings /\ config.credentials =
              run.credentials /\ Config!Valid(run)
        BY <1>1 DEF Settled, RoutesKept
      <3>2. CASE run'["binding"] = run["binding"]
        BY <1>5, <3>1, <3>2, NamesResolved DEF Config!Valid
      <3>3. CASE run'["binding"] = new["binding"]
        BY <1>5, <1>6, <3>1, <3>3, NamesResolved DEF Config!Valid
      <3> QED
        BY <1>5, <3>2, <3>3 DEF Config!Fields
    <2> QED
      BY <1>1, <1>5, <1>6, <2>1 DEF RoutesKept, Config!Valid
  <1> QED
    BY <1>9, <1>10, <1>11, <1>12 DEF ConfigInv

(* Only the model, the credentials and the bindings say what is built.     *)
LEMMA BuiltAlike ==
  ASSUME NEW s, NEW t, s.model = t.model, s.credentials = t.credentials, s.binding = t.binding
  PROVE  /\ Config!resolve_credentials(s) = Config!resolve_credentials(t)
         /\ \A e : \A a \in Config!Agents : Config!BuiltFrom(s, e, a) = Config!BuiltFrom(t, e, a)
         /\ Config!Valid(s) <=> Config!Valid(t)
  <1>1. Config!resolve_credentials(s) = Config!resolve_credentials(t)
    BY DEF Config!resolve_credentials
  <1>2. ASSUME NEW e, NEW a \in Config!Agents PROVE Config!BuiltFrom(s, e, a) =
                 Config!BuiltFrom(t, e, a)
    BY <1>1 DEF Config!BuiltFrom
  <1> QED
    BY <1>1, <1>2 DEF Config!Valid

LEMMA RebuiltIsTyped ==
  ASSUME NEW s, NEW e, NEW old
  PROVE  Config!Rebuilt(s, e, old) \in [Config!Agents -> {Config!Rebuilt(s, e, old)[a] :
           a \in Config!Agents}]
  BY DEF Config!Rebuilt

LEMMA ConfigOpenForm ==
  ASSUME ConfigInv, NEW f \in Forms, Config!OpenForm(f)
  PROVE  ConfigInv'
  <1>1. form' \in [Forms -> SUBSET Settings]
    BY DEF ConfigInv, Settled, Config!OpenForm
  <1>2. UNCHANGED <<config, run, env, provider, routed, restart, unbuilt, unsaved>>
    BY DEF Config!OpenForm
  <1>3. Settled'
    BY <1>1, <1>2 DEF ConfigInv, Settled
  <1>4. InEffect' /\ Spoken'
    BY <1>2 DEF ConfigInv, InEffect, Spoken
  <1>5. RoutesKept'
    BY <1>2 DEF ConfigInv, RoutesKept, Config!Valid
  <1> QED
    BY <1>3, <1>4, <1>5 DEF ConfigInv

(* A lock that is set or released, in the file or in the program only.     *)
LEMMA LockOnly ==
  ASSUME NEW s \in Settings, NEW b \in BOOLEAN
  PROVE  LET t == [s EXCEPT !.lock = b]
         IN  /\ t \in Settings /\ t.lock = b /\ \A k \in Config!Fields \ {"lock"} : t[k] = s[k]
             /\ t.model = s.model /\ t.credentials = s.credentials /\ t.binding = s.binding
  BY DEF Settings, Config!Fields

LEMMA ConfigLocks ==
  ASSUME ConfigInv, NEW b \in BOOLEAN,
         config' \in {config, [config EXCEPT !.lock = b]}, run' = [run EXCEPT !.lock = b],
         config'.lock # b => unsaved' = TRUE /\ b = TRUE, unsaved' \in BOOLEAN,
         UNCHANGED <<env, provider, form, routed, restart, unbuilt>>
  PROVE  ConfigInv'
  <1>1. Settled /\ InEffect /\ Spoken /\ RoutesKept /\ config \in Settings /\ run \in Settings
    BY DEF ConfigInv, Settled
  <1>2. /\ config' \in Settings /\ \A k \in Config!Fields \ {"lock"} : config'[k] = config[k]
        /\ config'.model = config.model /\ config'.credentials = config.credentials
        /\ config'.binding = config.binding
    <2>1. CASE config' = config
      BY <1>1, <2>1
    <2>2. CASE config' = [config EXCEPT !.lock = b]
      BY <1>1, <2>2, LockOnly
    <2> QED
      BY <2>1, <2>2
  <1>3. /\ run' \in Settings /\ run'.lock = b /\ \A k \in Config!Fields \ {"lock"} :
             run'[k] = run[k]
        /\ run'.model = run.model /\ run'.credentials = run.credentials
        /\ run'.binding = run.binding
    BY <1>1, LockOnly
  <1>4. Settled'
    BY <1>1, <1>2, <1>3 DEF Settled
  <1>5. InEffect'
    <2>1. \A k \in Config!Fields \ {"lock"} : config'[k] # run'[k] => k \in restart'
      BY <1>1, <1>2, <1>3 DEF InEffect
    <2>2. config'.lock # run'.lock => unsaved' = TRUE /\ run'.lock = TRUE
      BY <1>3
    <2> QED
      BY <2>1, <2>2 DEF InEffect
  <1>6. Spoken'
    <2>1. \A a \in Config!Agents : Config!BuiltFrom(run', env, a) = Config!BuiltFrom(run, env, a)
      <3>1. ASSUME NEW t, t.model = run.model, t.credentials = run.credentials,
                   t.binding = run.binding, NEW a \in Config!Agents
            PROVE  Config!BuiltFrom(t, env, a) = Config!BuiltFrom(run, env, a)
        BY <3>1, BuiltAlike
      <3> QED
        BY <1>3, <3>1
    <2>2. env' = env /\ provider' = provider /\ unbuilt' = unbuilt
      OBVIOUS
    <2> QED
      BY <1>1, <2>1, <2>2 DEF Spoken
  <1>7. RoutesKept'
    <2>1. (Config!Valid(run') <=> Config!Valid(run)) /\ (Config!Valid(config') <=>
            Config!Valid(config))
      BY <1>2, <1>3, BuiltAlike
    <2>2. Config!Valid(run)' /\ Config!Valid(config)'
      BY <1>1, <2>1 DEF RoutesKept, Config!Valid, Config!resolve_credentials
    <2> QED
      BY <1>1, <1>2, <1>3, <2>2 DEF RoutesKept
  <1> QED
    BY <1>4, <1>5, <1>6, <1>7 DEF ConfigInv

LEMMA ConfigKillSwitch ==
  ASSUME ConfigInv, NEW b \in BOOLEAN, Config!KillSwitch(b)
  PROVE  ConfigInv'
  <1>1. /\ config' = [config EXCEPT !.lock = b] /\ run' = [run EXCEPT !.lock = b]
             /\ unsaved' = FALSE
        /\ UNCHANGED <<env, provider, form, routed, restart, unbuilt>>
    BY DEF Config!KillSwitch, Config!WriteSettings
  <1>2. config'.lock = b
    BY <1>1, LockOnly DEF ConfigInv, Settled
  <1> QED
    BY <1>1, <1>2, ConfigLocks

LEMMA ConfigEngageLock ==
  ASSUME ConfigInv, Config!EngageLock
  PROVE  ConfigInv'
  <1>1. /\ run' = [run EXCEPT !.lock = TRUE]
        /\ UNCHANGED <<env, provider, form, routed, restart, unbuilt>>
    BY DEF Config!EngageLock
  <1>2. CASE config' = [config EXCEPT !.lock = TRUE] /\ unsaved' = FALSE
    <2>1. config'.lock = TRUE
      BY <1>2, LockOnly DEF ConfigInv, Settled
    <2> QED
      BY <1>1, <1>2, <2>1, ConfigLocks
  <1>3. CASE config' = config /\ unsaved' = ~config.lock
    <2>1. config.lock \in BOOLEAN
      BY DEF ConfigInv, Settled, Settings
    <2>2. config'.lock # TRUE => unsaved' = TRUE
      BY <1>3, <2>1
    <2>3. unsaved' \in BOOLEAN
      BY <1>3, <2>1
    <2> QED
      BY <1>1, <1>3, <2>2, <2>3, ConfigLocks
  <1> QED
    BY <1>2, <1>3 DEF Config!EngageLock

(* What is resolved has the versions asked for.                            *)
LEMMA ResolvedAsked ==
  ASSUME ConfigInv
  PROVE  /\ Config!resolve_credentials(run) \in SUBSET Credentials
         /\ \A n \in Names \ {"default"} :
              {c.ver : c \in {d \in Config!resolve_credentials(run) : d.name = n}} =
                {routed[n]} \ {0}
         /\ run.binding["trader"] \in Config!NamesOf(Config!resolve_credentials(run))
  <1>1. Config!resolve_credentials(run) \in SUBSET Credentials
    BY NamesResolved DEF ConfigInv, Settled
  <1>2. ASSUME NEW n \in Names \ {"default"}
        PROVE  {d \in Config!resolve_credentials(run) : d.name = n} =
                 {d \in config.credentials : d.name = n}
    <2>1. run.credentials = config.credentials
      BY DEF ConfigInv, RoutesKept
    <2>2. CASE run.credentials = {}
      <3>1. Config!resolve_credentials(run) = {[name |-> "default", ver |-> run.model]}
        BY <2>2 DEF Config!resolve_credentials
      <3> QED
        BY <2>1, <2>2, <3>1
    <2>3. CASE run.credentials # {}
      BY <2>1, <2>3 DEF Config!resolve_credentials
    <2> QED
      BY <2>2, <2>3
  <1>3. \A n \in Names \ {"default"} :
          {c.ver : c \in {d \in config.credentials : d.name = n}} = {routed[n]} \ {0}
    BY DEF ConfigInv, RoutesKept
  <1>4. run.binding["trader"] \in Config!NamesOf(Config!resolve_credentials(run))
    BY DEF ConfigInv, RoutesKept, Config!Valid
  <1> QED
    BY <1>1, <1>2, <1>3, <1>4

(* A list of credentials that is saved to the file and to the program.     *)
LEMMA ConfigSaveCredentials ==
  ASSUME ConfigInv, NEW creds \in SUBSET Credentials, Config!SaveCredentials(creds),
         run.binding["trader"] \in Config!NamesOf(creds),
         routed' \in [Names -> {0} \cup Versions],
         \A n \in Names \ {"default"} :
           {c.ver : c \in {d \in creds : d.name = n}} = {routed'[n]} \ {0},
         Config!Reconfigure(run', env') \/ (provider' = provider /\ unbuilt' = TRUE),
         UNCHANGED <<form, restart, unsaved>>
  PROVE  ConfigInv'
  <1>1. Settled /\ InEffect /\ Spoken /\ RoutesKept /\ config \in Settings /\ run \in Settings
    BY DEF ConfigInv, Settled
  <1>2. /\ config' = [config EXCEPT !.credentials = creds] /\ run' =
             [run EXCEPT !.credentials = creds]
        /\ Config!Valid(config')
    BY DEF Config!SaveCredentials, Config!WriteSettings
  <1>3. /\ config' \in Settings /\ run' \in Settings
        /\ config'.credentials = creds /\ run'.credentials = creds
        /\ run'.binding = run.binding
        /\ \A k \in Config!Fields : config'[k] = config[k] /\ run'[k] = run[k]
        /\ config'.lock = config.lock /\ run'.lock = run.lock
    BY <1>1, <1>2 DEF Settings, Config!Fields
  <1>4. Settled'
    <2>1. provider' \in [Config!Agents -> {provider'[a] : a \in Config!Agents}]
            /\ unbuilt' \in BOOLEAN
      <3>1. CASE Config!Reconfigure(run', env')
        <4>1. provider' = Config!Rebuilt(run', env', provider) /\ unbuilt' = FALSE
          BY <3>1 DEF Config!Reconfigure
        <4> QED
          BY <4>1, RebuiltIsTyped
      <3>2. CASE provider' = provider /\ unbuilt' = TRUE
        BY <1>1, <3>2 DEF Settled
      <3> QED
        BY <3>1, <3>2
    <2>2. form' \in [Forms -> SUBSET Settings] /\ unsaved' \in BOOLEAN
      BY <1>1 DEF Settled
    <2> QED
      BY <1>3, <2>1, <2>2 DEF Settled
  <1>5. InEffect'
    <2>1. \A k \in Config!Fields \ {"lock"} : config'[k] # run'[k] => k \in restart'
      BY <1>1, <1>3 DEF InEffect
    <2>2. config'.lock # run'.lock => unsaved' = TRUE /\ run'.lock = TRUE
      BY <1>1, <1>3 DEF InEffect
    <2> QED
      BY <2>1, <2>2 DEF InEffect
  <1>6. Spoken'
    <2>1. CASE Config!Reconfigure(run', env')
      <3>1. provider' = Config!Rebuilt(run', env', provider)
        BY <2>1 DEF Config!Reconfigure
      <3> QED
        BY <3>1, RebuiltSpeaks DEF Spoken
    <2>2. CASE unbuilt' = TRUE
      BY <2>2 DEF Spoken
    <2> QED
      BY <2>1, <2>2
  <1>7. RoutesKept'
    <2>1. creds # {}
      BY DEF Config!NamesOf
    <2>2. Config!resolve_credentials(run)' = creds
      BY <1>3, <2>1 DEF Config!resolve_credentials
    <2>3. Config!Valid(run)'
      BY <1>3, <2>2 DEF Config!Valid
    <2>4. Config!Valid(config)'
      BY <1>2 DEF Config!Valid, Config!resolve_credentials
    <2> QED
      BY <1>3, <2>3, <2>4 DEF RoutesKept
  <1> QED
    BY <1>4, <1>5, <1>6, <1>7 DEF ConfigInv

LEMMA KeySaved ==
  ASSUME NEW n \in Names, Config!SaveKeyAndReconfigure(n)
  PROVE  Config!Reconfigure(run', env') \/ (provider' = provider /\ unbuilt' = TRUE)
  <1>1. CASE UNCHANGED env /\ Config!Reconfigure(run', env)
    BY <1>1
  <1> QED
    BY <1>1 DEF Config!SaveKeyAndReconfigure

LEMMA ConfigPostCredential ==
  ASSUME ConfigInv, NEW n \in Names, Config!PostCredential(n)
  PROVE  ConfigInv'
  <1> DEFINE old == Config!resolve_credentials(run)
             creds == old \cup {[name |-> n, ver |-> 1]}
  <1>1. /\ n \notin Config!NamesOf(old) /\ Config!SaveCredentials(creds)
             /\ Config!SaveKeyAndReconfigure(n)
        /\ routed' = [routed EXCEPT ![n] = 1] /\ UNCHANGED <<form, restart, unsaved>>
    BY DEF Config!PostCredential, Config!rest
  <1>2. /\ old \in SUBSET Credentials
        /\ \A m \in Names \ {"default"} : {c.ver : c \in {d \in old : d.name = m}} =
             {routed[m]} \ {0}
        /\ run.binding["trader"] \in Config!NamesOf(old)
    BY ResolvedAsked
  <1> HIDE DEF old
  <1>3. creds \in SUBSET Credentials
    BY <1>2 DEF Credentials, Versions
  <1>4. run.binding["trader"] \in Config!NamesOf(creds)
    BY <1>2 DEF Config!NamesOf
  <1>5. routed \in [Names -> {0} \cup Versions]
    BY DEF ConfigInv, Settled
  <1>6. routed' \in [Names -> {0} \cup Versions]
    BY <1>1, <1>5 DEF Versions
  <1>7. ASSUME NEW m \in Names \ {"default"}
        PROVE  {c.ver : c \in {d \in creds : d.name = m}} = {routed'[m]} \ {0}
    <2>1. CASE m = n
      <3>1. {d \in creds : d.name = m} = {[name |-> n, ver |-> 1]}
        BY <1>1, <2>1 DEF Config!NamesOf
      <3>2. routed'[m] = 1
        BY <1>1, <1>5, <2>1
      <3>3. {c.ver : c \in {d \in creds : d.name = m}} = {1}
        <4>1. PICK new : new = [name |-> n, ver |-> 1]
          OBVIOUS
        <4>2. new.ver = 1 /\ {d \in creds : d.name = m} = {new}
          BY <3>1, <4>1
        <4> QED
          BY <4>2
      <3> QED
        BY <3>2, <3>3
    <2>2. CASE m # n
      <3>1. {d \in creds : d.name = m} = {d \in old : d.name = m}
        BY <2>2
      <3>2. routed'[m] = routed[m]
        BY <1>1, <1>5, <2>2
      <3> QED
        BY <1>2, <3>1, <3>2
    <2> QED
      BY <2>1, <2>2
  <1>8. Config!Reconfigure(run', env') \/ (provider' = provider /\ unbuilt' = TRUE)
    BY <1>1, KeySaved
  <1> HIDE DEF creds
  <1> QED
    BY <1>1, <1>3, <1>4, <1>6, <1>7, <1>8, ConfigSaveCredentials

LEMMA ConfigPutCredential ==
  ASSUME ConfigInv, NEW n \in Names, Config!PutCredential(n)
  PROVE  ConfigInv'
  <1> DEFINE all == Config!resolve_credentials(run)
  <1>1. PICK old \in all :
          /\ old.name = n
          /\ Config!SaveCredentials((all \ {old}) \cup {[old EXCEPT !.ver = 3 - @]})
          /\ routed' = [routed EXCEPT ![n] = 3 - old.ver]
    BY DEF Config!PutCredential
  <1>2. Config!SaveKeyAndReconfigure(n) /\ UNCHANGED <<form, restart, unsaved>>
    BY DEF Config!PutCredential, Config!rest
  <1>3. /\ all \in SUBSET Credentials
        /\ \A m \in Names \ {"default"} : {c.ver : c \in {d \in all : d.name = m}} =
             {routed[m]} \ {0}
        /\ run.binding["trader"] \in Config!NamesOf(all)
    BY ResolvedAsked
  <1> HIDE DEF all
  <1> DEFINE new == [old EXCEPT !.ver = 3 - @]
             creds == (all \ {old}) \cup {new}
  <1>4. new.name = n /\ new.ver = 3 - old.ver /\ new \in Credentials
    <2>1. old \in Credentials
      BY <1>1, <1>3
    <2>2. 3 - old.ver \in Versions
      BY <2>1, ThreeLess DEF Credentials
    <2> QED
      BY <1>1, <2>1, <2>2 DEF Credentials
  <1>5. 3 - old.ver \in Versions /\ 3 - old.ver # 0
    BY <1>1, <1>3, ThreeLess DEF Credentials
  <1>6. Config!SaveCredentials(creds)
    BY <1>1
  <1> HIDE DEF new
  <1>7. creds \in SUBSET Credentials
    BY <1>3, <1>4
  <1>8. run.binding["trader"] \in Config!NamesOf(creds)
    <2>1. PICK c \in all : c.name = run.binding["trader"]
      BY <1>3 DEF Config!NamesOf
    <2>2. CASE c = old
      <3>1. new.name = run.binding["trader"] /\ new \in creds
        BY <1>1, <1>4, <2>1, <2>2
      <3> QED
        BY <3>1 DEF Config!NamesOf
    <2>3. CASE c # old
      <3>1. c \in creds
        BY <2>3
      <3> QED
        BY <2>1, <3>1 DEF Config!NamesOf
    <2> QED
      BY <2>2, <2>3
  <1>9. routed \in [Names -> {0} \cup Versions]
    BY DEF ConfigInv, Settled
  <1>10. routed' \in [Names -> {0} \cup Versions]
    BY <1>1, <1>5, <1>9
  <1>11. ASSUME NEW m \in Names \ {"default"}
         PROVE  {c.ver : c \in {d \in creds : d.name = m}} = {routed'[m]} \ {0}
    <2>1. CASE m = n
      <3>1. ASSUME NEW d \in all, d.name = m PROVE d = old
        <4>1. d.ver \in {c.ver : c \in {e \in all : e.name = m}}
          BY <3>1
        <4>2. old.ver \in {c.ver : c \in {e \in all : e.name = m}}
          BY <1>1, <2>1
        <4>3. d.ver = routed[m] /\ old.ver = routed[m]
          BY <1>3, <4>1, <4>2
        <4>4. d \in Credentials /\ old \in Credentials
          BY <1>1, <1>3
        <4> QED
          BY <1>1, <2>1, <3>1, <4>3, <4>4 DEF Credentials
      <3>2. {d \in creds : d.name = m} = {new}
        BY <1>4, <2>1, <3>1
      <3>3. routed'[m] = 3 - old.ver
        BY <1>1, <1>9, <2>1
      <3> QED
        BY <1>4, <1>5, <3>2, <3>3
    <2>2. CASE m # n
      <3>1. {d \in creds : d.name = m} = {d \in all : d.name = m}
        BY <1>1, <1>4, <2>2
      <3>2. routed'[m] = routed[m]
        BY <1>1, <1>9, <2>2
      <3> QED
        BY <1>3, <3>1, <3>2
    <2> QED
      BY <2>1, <2>2
  <1>12. Config!Reconfigure(run', env') \/ (provider' = provider /\ unbuilt' = TRUE)
    BY <1>2, KeySaved
  <1> HIDE DEF creds
  <1> QED
    BY <1>2, <1>6, <1>7, <1>8, <1>10, <1>11, <1>12, ConfigSaveCredentials

LEMMA ConfigDeleteCredential ==
  ASSUME ConfigInv, NEW n \in Names, Config!DeleteCredential(n)
  PROVE  ConfigInv'
  <1> DEFINE all == Config!resolve_credentials(run)
             creds == {c \in all : c.name # n}
  <1>1. /\ ~Config!UsedBy(n) /\ Config!SaveCredentials(creds) /\ env' = env
             /\ Config!Reconfigure(run', env)
        /\ routed' = [routed EXCEPT ![n] = 0] /\ UNCHANGED <<form, restart, unsaved>>
    BY DEF Config!DeleteCredential, Config!rest
  <1>2. /\ all \in SUBSET Credentials
        /\ \A m \in Names \ {"default"} : {c.ver : c \in {d \in all : d.name = m}} =
             {routed[m]} \ {0}
        /\ run.binding["trader"] \in Config!NamesOf(all)
    BY ResolvedAsked
  <1> HIDE DEF all
  <1>3. creds \in SUBSET Credentials
    BY <1>2
  <1>4. run.binding["trader"] \in Config!NamesOf(creds)
    <2>1. run.binding["trader"] # n
      BY <1>1 DEF Config!UsedBy, Config!Agents
    <2> QED
      BY <1>2, <2>1 DEF Config!NamesOf
  <1>5. routed \in [Names -> {0} \cup Versions]
    BY DEF ConfigInv, Settled
  <1>6. routed' \in [Names -> {0} \cup Versions]
    BY <1>1, <1>5
  <1>7. ASSUME NEW m \in Names \ {"default"}
        PROVE  {c.ver : c \in {d \in creds : d.name = m}} = {routed'[m]} \ {0}
    <2>1. CASE m = n
      <3>1. {d \in creds : d.name = m} = {}
        BY <2>1
      <3>2. routed'[m] = 0
        BY <1>1, <1>5, <2>1
      <3> QED
        BY <3>1, <3>2
    <2>2. CASE m # n
      <3>1. {d \in creds : d.name = m} = {d \in all : d.name = m}
        BY <2>2
      <3>2. routed'[m] = routed[m]
        BY <1>1, <1>5, <2>2
      <3> QED
        BY <1>2, <3>1, <3>2
    <2> QED
      BY <2>1, <2>2
  <1>8. Config!Reconfigure(run', env')
    BY <1>1
  <1> HIDE DEF creds
  <1> QED
    BY <1>1, <1>3, <1>4, <1>6, <1>7, <1>8, ConfigSaveCredentials

LEMMA ConfigPostSecrets ==
  ASSUME ConfigInv, NEW n \in Names, Config!PostSecrets(n)
  PROVE  ConfigInv'
  <1>1. /\ provider' = Config!Rebuilt(run, env', provider) /\ unbuilt' = FALSE
        /\ UNCHANGED <<config, run, routed, form, restart, unsaved>>
    BY DEF Config!PostSecrets, Config!Reconfigure, Config!rest
  <1>2. Settled'
    <2>1. provider' \in [Config!Agents -> {provider'[a] : a \in Config!Agents}]
      BY <1>1, RebuiltIsTyped
    <2> QED
      BY <1>1, <2>1 DEF ConfigInv, Settled
  <1>3. InEffect'
    BY <1>1 DEF ConfigInv, InEffect
  <1>4. Spoken'
    <2>1. provider' = Config!Rebuilt(run', env', provider)
      BY <1>1
    <2> QED
      BY <2>1, RebuiltSpeaks DEF Spoken
  <1>5. RoutesKept'
    BY <1>1 DEF ConfigInv, RoutesKept, Config!Valid
  <1> QED
    BY <1>2, <1>3, <1>4, <1>5 DEF ConfigInv

LEMMA ConfigRestart ==
  ASSUME ConfigInv, Config!Restart
  PROVE  ConfigInv'
  <1>1. /\ run' = config /\ config' = config /\ provider' = Config!Rebuilt(config, env,
             Config!NoProvider) /\ env' = env
        /\ restart' = {} /\ unbuilt' = FALSE /\ unsaved' = FALSE
        /\ UNCHANGED <<form, routed>>
    BY DEF Config!Restart
  <1>2. Settled'
    <2>1. provider' \in [Config!Agents -> {provider'[a] : a \in Config!Agents}]
      BY <1>1, RebuiltIsTyped
    <2> QED
      BY <1>1, <2>1 DEF ConfigInv, Settled
  <1>3. InEffect'
    BY <1>1 DEF InEffect
  <1>4. Spoken'
    <2>1. provider' = Config!Rebuilt(run', env', Config!NoProvider)
      BY <1>1
    <2> QED
      BY <2>1, RebuiltSpeaks DEF Spoken
  <1>5. RoutesKept'
    <2>1. Config!Valid(config)' /\ Config!Valid(run)'
      BY <1>1 DEF ConfigInv, RoutesKept, Config!Valid, Config!resolve_credentials
    <2> QED
      BY <1>1, <2>1 DEF ConfigInv, RoutesKept
  <1> QED
    BY <1>2, <1>3, <1>4, <1>5 DEF ConfigInv

LEMMA ConfigStep ==
  ASSUME ConfigInv, [Config!Next]_(Config!vars)
  PROVE  ConfigInv'
  <1>1. ASSUME NEW f \in Forms, Config!OpenForm(f) \/ Config!SaveForm(f) PROVE ConfigInv'
    BY <1>1, ConfigOpenForm, ConfigSaveForm
  <1>2. ASSUME NEW b \in BOOLEAN, Config!KillSwitch(b) PROVE ConfigInv'
    BY <1>2, ConfigKillSwitch
  <1>3. CASE Config!EngageLock \/ Config!Restart
    BY <1>3, ConfigEngageLock, ConfigRestart
  <1>4. ASSUME NEW n \in Names, Config!PostCredential(n) \/ Config!PutCredential(n)
        PROVE  ConfigInv'
    BY <1>4, ConfigPostCredential, ConfigPutCredential
  <1>5. ASSUME NEW n \in Names, Config!DeleteCredential(n) \/ Config!PostSecrets(n)
        PROVE  ConfigInv'
    BY <1>5, ConfigDeleteCredential, ConfigPostSecrets
  <1>6. CASE UNCHANGED Config!vars
    <2>1. UNCHANGED <<config, run, env, provider, form, routed, restart, unbuilt, unsaved>>
      BY <1>6 DEF Config!vars
    <2> QED
      BY <2>1 DEF ConfigInv, Settled, InEffect, Spoken, RoutesKept, Config!Valid
  <1> QED
    BY <1>1, <1>2, <1>3, <1>4, <1>5, <1>6 DEF Config!Next

LEMMA ConfigShown == ConfigInv => ConfigHolds
  BY DEF ConfigInv, InEffect, Spoken, RoutesKept, Config!Valid, ConfigHolds,
       Config!ConfigHolds, Config!CredentialsKept, Config!SavedIsEffective

(* What has been configured stays, and is in effect.                       *)
THEOREM ConfigurationStays == Config!Spec => []ConfigHolds
  <1>1. Config!Init => ConfigInv
    BY ConfigAtFirst
  <1>2. ConfigInv /\ [Config!Next]_(Config!vars) => ConfigInv'
    BY ConfigStep
  <1>3. ConfigInv => ConfigHolds
    BY ConfigShown
  <1> QED
    BY <1>1, <1>2, <1>3, PTL DEF Config!Spec

-----------------------------------------------------------------------------
(* The database.  What a database is, and what it may hold of the links:   *)
(* the rows as they were or mapped once, and the column that v3 drops only *)
(* with the old rows.                                                      *)
ListedColumns == {"trades", "versions", "topic", "await", "md5", "review", "version_id"}
AllColumns == {"is_close", "verify"} \cup ListedColumns
IsDatabase(db) ==
  /\ db = [tables |-> db.tables, columns |-> db.columns, flagged |-> db.flagged,
           form |-> db.form, rows |-> db.rows]
  /\ db.columns \subseteq AllColumns /\ db.form \in {"old", "v3"}
RowsOf(db) ==
  /\ db.form = "old" => db.rows = origin
  /\ db.form = "v3" => db.rows = [l \in DOMAIN origin |-> Opening!V3Status(origin[l])]
  /\ "await" \in db.columns => db.form = "old"
NoneWithout(db) == "links" \notin db.tables => DOMAIN origin = {} /\ "await" \notin db.columns

(* The stages of open(), and when its transaction is open.                 *)
EarlyStages   == {"closed", "validate", "create", "is_close", "flag", "columns"}
Inside  == {"copy", "rename", "release"}
Rebuild == {"check", "savepoint"} \cup Inside
Stages  == EarlyStages \cup Rebuild \cup {"last", "open"}

Opened ==
  /\ stage \in Stages /\ table \in {"assets", "links"}
  /\ inTxn \in BOOLEAN /\ begun \in BOOLEAN
  /\ IsDatabase(disk) /\ IsDatabase(work)
  /\ inTxn = FALSE => work = disk
  /\ stage = "closed" => inTxn = FALSE
  /\ stage \in Inside => inTxn = TRUE
  /\ stage \in EarlyStages => table = "assets"

LinksThere ==
  /\ RowsOf(disk) /\ RowsOf(work) /\ NoneWithout(disk)
  /\ (stage = "rename" /\ table = "links") \/ NoneWithout(work)

(* What each stage has behind it.                                          *)
TablesThere ==
  /\ stage \in {"is_close", "flag", "columns", "check", "savepoint", "copy", "release", "last"} =>
       {"reports", "assets", "links"} \subseteq work.tables
  /\ stage = "rename" => {"reports", "assets", "links"} \subseteq work.tables \cup {table}
ColumnsThere ==
  /\ stage \in {"flag", "columns", "last"} \cup Rebuild => "is_close" \in work.columns
  /\ stage \in Rebuild /\ work.form = "old" => "await" \in work.columns
  /\ stage \in Rebuild /\ table = "links" => "verify" \notin work.columns
  /\ stage \in {"savepoint", "copy", "rename"} => Opening!Dropped[table] \in work.columns
  /\ stage = "last" => "verify" \notin work.columns /\ "await" \notin work.columns
       /\ work.form = "v3"

OpenInv == Opened /\ LinksThere /\ TablesThere /\ ColumnsThere /\ Opening!OpensCurrent

LEMMA ColumnsListed ==
  /\ Len(Opening!Columns) = 7 /\ DOMAIN Opening!Columns = 1..7
  /\ Opening!Columns[1] = "trades" /\ Opening!Columns[2] = "versions" /\ Opening!Columns[3] =
       "topic"
  /\ Opening!Columns[4] = "await" /\ Opening!Columns[5] = "md5" /\ Opening!Columns[6] = "review"
  /\ Opening!Columns[7] = "version_id"
  /\ Opening!Range(Opening!Columns) = ListedColumns
  <1>1. /\ Len(Opening!Columns) = 7 /\ DOMAIN Opening!Columns = 1..7
        /\ Opening!Columns[1] = "trades" /\ Opening!Columns[2] = "versions"
             /\ Opening!Columns[3] = "topic"
        /\ Opening!Columns[4] = "await" /\ Opening!Columns[5] = "md5" /\ Opening!Columns[6] =
             "review"
        /\ Opening!Columns[7] = "version_id"
    BY DEF Opening!Columns
  <1>2. \A i \in 1..7 : i = 1 \/ i = 2 \/ i = 3 \/ i = 4 \/ i = 5 \/ i = 6 \/ i = 7
    OBVIOUS
  <1>3. \A c : c \in Opening!Range(Opening!Columns) <=> \E i \in 1..7 : Opening!Columns[i] = c
    BY <1>1 DEF Opening!Range
  <1>4. Opening!Range(Opening!Columns) \subseteq ListedColumns
    BY <1>1, <1>2, <1>3 DEF ListedColumns
  <1>5. ListedColumns \subseteq Opening!Range(Opening!Columns)
    BY <1>1, <1>3 DEF ListedColumns
  <1> QED
    BY <1>1, <1>4, <1>5

LEMMA TablesListed ==
  /\ Len(Opening!Tables) = 3 /\ Opening!Range(Opening!Tables) = {"reports", "assets", "links"}
  /\ Opening!Tables[1] = "reports" /\ Opening!Tables[2] = "assets" /\ Opening!Tables[3] = "links"
  <1>1. /\ Len(Opening!Tables) = 3 /\ DOMAIN Opening!Tables = 1..3
        /\ Opening!Tables[1] = "reports" /\ Opening!Tables[2] = "assets"
             /\ Opening!Tables[3] = "links"
    BY DEF Opening!Tables
  <1>2. \A i \in 1..3 : i = 1 \/ i = 2 \/ i = 3
    OBVIOUS
  <1>3. \A t : t \in Opening!Range(Opening!Tables) <=> \E i \in 1..3 : Opening!Tables[i] = t
    BY <1>1 DEF Opening!Range
  <1>4. Opening!Range(Opening!Tables) \subseteq {"reports", "assets", "links"}
    BY <1>1, <1>2, <1>3
  <1> QED
    BY <1>1, <1>3, <1>4

LEMMA OpenAtFirst == Opening!Init => OpenInv
  <1> SUFFICES ASSUME Opening!Init PROVE OpenInv
    OBVIOUS
  <1>1. PICK g \in {"v1", "unversioned", "v2", "v3", "r5"} :
          /\ origin \in [IF Opening!HasResearch(g) THEN Links ELSE {} -> Opening!OldRows]
          /\ disk = Opening!File(g, IF Opening!Old(g) THEN origin
                            ELSE [l \in DOMAIN origin |-> Opening!V3Status(origin[l])])
    BY DEF Opening!Init
  <1>2. stage = "closed" /\ inTxn = FALSE /\ begun = FALSE /\ table = "assets" /\ work = disk
    BY DEF Opening!Init
  <1>3. /\ disk.tables = IF Opening!HasResearch(g) THEN Opening!Range(Opening!Tables) ELSE {}
        /\ disk.columns = Opening!ColumnsOf(g) /\ disk.form = IF Opening!Old(g) THEN "old" ELSE "v3"
        /\ disk.rows = IF Opening!Old(g)
             THEN origin ELSE [l \in DOMAIN origin |-> Opening!V3Status(origin[l])]
        /\ disk = [tables |-> disk.tables, columns |-> disk.columns, flagged |-> disk.flagged,
                   form |-> disk.form, rows |-> disk.rows]
    BY <1>1 DEF Opening!File
  <1>4. /\ Opening!ColumnsOf(g) \subseteq AllColumns
        /\ "await" \in Opening!ColumnsOf(g) => Opening!Old(g) /\ Opening!HasResearch(g)
    <2>1. Opening!Range(Opening!Columns) = ListedColumns
      BY ColumnsListed
    <2> HIDE DEF Opening!Columns
    <2>2. CASE g = "v1"
      BY <2>2 DEF Opening!ColumnsOf
    <2>3. CASE g = "unversioned"
      BY <2>3 DEF Opening!ColumnsOf, AllColumns, ListedColumns
    <2>4. CASE g = "v2"
      BY <2>4 DEF Opening!ColumnsOf, AllColumns, ListedColumns, Opening!Old, Opening!HasResearch
    <2>5. CASE g = "v3"
      BY <2>5 DEF Opening!ColumnsOf, AllColumns, ListedColumns
    <2>6. CASE g = "r5"
      BY <2>1, <2>6 DEF Opening!ColumnsOf, AllColumns, ListedColumns
    <2> QED
      BY <2>2, <2>3, <2>4, <2>5, <2>6
  <1>5. Opened
    <2>1. IsDatabase(disk)
      BY <1>3, <1>4 DEF IsDatabase
    <2> QED
      BY <1>2, <2>1 DEF Opened, Stages, EarlyStages, Inside
  <1>6. RowsOf(disk)
    BY <1>3, <1>4 DEF RowsOf
  <1>7. NoneWithout(disk)
    <2>1. Opening!HasResearch(g) => "links" \in disk.tables
      BY <1>3, TablesListed
    <2>2. ~Opening!HasResearch(g) => DOMAIN origin = {}
      BY <1>1
    <2> QED
      BY <1>3, <1>4, <2>1, <2>2 DEF NoneWithout
  <1>8. LinksThere
    BY <1>2, <1>6, <1>7 DEF LinksThere
  <1> QED
    BY <1>2, <1>5, <1>8 DEF OpenInv, TablesThere, ColumnsThere, Rebuild, Inside,
         Opening!OpensCurrent

LEMMA OpenShown == OpenInv => LinksWhole /\ OpensCurrent
  <1> SUFFICES ASSUME OpenInv PROVE LinksWhole
    BY DEF OpenInv, OpensCurrent
  <1>1. RowsOf(disk) /\ NoneWithout(disk) /\ disk.form \in {"old", "v3"}
    BY DEF OpenInv, LinksThere, Opened, IsDatabase
  <1> QED
    BY <1>1 DEF LinksWhole, Opening!LinksWhole, RowsOf, NoneWithout

(* What a stage says nothing of may change.                                *)
LEMMA OpenRaise ==
  ASSUME OpenInv, Opening!Raise
  PROVE  OpenInv'
  <1>1. /\ stage' = "closed" /\ work' = disk /\ inTxn' = FALSE /\ begun' = FALSE
        /\ table' = "assets" /\ disk' = disk /\ origin' = origin
    BY DEF Opening!Raise
  <1>2. Opened /\ LinksThere
    BY DEF OpenInv
  <1>3. Opened'
    BY <1>1, <1>2 DEF Opened, IsDatabase, Stages, EarlyStages, Inside
  <1>4. LinksThere'
    BY <1>1, <1>2 DEF LinksThere, RowsOf, NoneWithout
  <1> QED
    BY <1>1, <1>3, <1>4 DEF OpenInv, TablesThere, ColumnsThere, Rebuild, Inside,
         Opening!OpensCurrent

(* Steps that change no database: what the next stage has behind it is     *)
(* what is to be shown.                                                    *)
LEMMA OpenOnly ==
  ASSUME OpenInv, UNCHANGED <<disk, work, inTxn, begun, origin>>,
         stage' \in Stages \ ({"closed", "open"} \cup Inside), table' \in {"assets", "links"},
         stage' \in EarlyStages => table' = "assets",
         stage # "rename", TablesThere', ColumnsThere'
  PROVE  OpenInv'
  <1>1. Opened /\ LinksThere
    BY DEF OpenInv
  <1>2. Opened'
    BY <1>1 DEF Opened, IsDatabase
  <1>3. LinksThere'
    BY <1>1 DEF LinksThere, RowsOf, NoneWithout
  <1> QED
    BY <1>2, <1>3 DEF OpenInv, Opening!OpensCurrent

LEMMA OpenOpen ==
  ASSUME OpenInv, Opening!Open
  PROVE  OpenInv'
  <1>1. /\ stage = "closed" /\ stage' = "validate" /\ work' = disk
        /\ UNCHANGED <<disk, inTxn, table, begun, origin>>
    BY DEF Opening!Open
  <1>2. work' = work
    BY <1>1 DEF OpenInv, Opened
  <1>3. table = "assets"
    BY <1>1 DEF OpenInv, Opened, EarlyStages
  <1>4. TablesThere' /\ ColumnsThere'
    BY <1>1 DEF TablesThere, ColumnsThere, Rebuild, Inside
  <1> QED
    BY <1>1, <1>2, <1>3, <1>4, OpenOnly DEF Stages, EarlyStages, Inside

LEMMA OpenValidate ==
  ASSUME OpenInv, Opening!Validate
  PROVE  OpenInv'
  <1>1. CASE stage' = "create" /\ UNCHANGED <<disk, work, inTxn, table, begun, origin>>
    <2>1. stage = "validate"
      BY DEF Opening!Validate
    <2>2. table = "assets"
      BY <2>1 DEF OpenInv, Opened, EarlyStages
    <2>3. TablesThere' /\ ColumnsThere'
      BY <1>1 DEF TablesThere, ColumnsThere, Rebuild, Inside
    <2> QED
      BY <1>1, <2>1, <2>2, <2>3, OpenOnly DEF Stages, EarlyStages, Inside
  <1> QED
    BY <1>1, OpenRaise DEF Opening!Validate

LEMMA OpenTablesCreated ==
  ASSUME OpenInv, Opening!TablesCreated
  PROVE  OpenInv'
  <1>1. /\ stage = "create" /\ stage' = "is_close"
             /\ Opening!Range(Opening!Tables) \subseteq work.tables
        /\ UNCHANGED <<disk, work, inTxn, table, begun, origin>>
    BY DEF Opening!TablesCreated
  <1>2. table = "assets"
    BY <1>1 DEF OpenInv, Opened, EarlyStages
  <1>3. {"reports", "assets", "links"} \subseteq work.tables
    BY <1>1, TablesListed
  <1>4. TablesThere' /\ ColumnsThere'
    BY <1>1, <1>3 DEF TablesThere, ColumnsThere, Rebuild, Inside
  <1> QED
    BY <1>1, <1>2, <1>4, OpenOnly DEF Stages, EarlyStages, Inside

LEMMA OpenColumnsAdded ==
  ASSUME OpenInv, Opening!ColumnsAdded
  PROVE  OpenInv'
  <1>1. /\ stage = "columns" /\ stage' = "check" /\ \A i \in Opening!Missing : ~Opening!Before(i)
        /\ UNCHANGED <<disk, work, inTxn, table, begun, origin>>
    BY DEF Opening!ColumnsAdded
  <1>2. table = "assets"
    BY <1>1 DEF OpenInv, Opened, EarlyStages
  <1>3. work.form = "old" => "await" \in work.columns
    <2>1. 4 \in 1..Len(Opening!Columns) /\ Opening!Columns[4] = "await"
      BY ColumnsListed
    <2>2. 4 \notin Opening!Missing
      BY <1>1, <2>1 DEF Opening!Before
    <2> QED
      BY <2>1, <2>2 DEF Opening!Missing, Opening!Has, Opening!Wants
  <1>4. TablesThere' /\ ColumnsThere'
    BY <1>1, <1>2, <1>3 DEF OpenInv, TablesThere, ColumnsThere, Rebuild, Inside
  <1> QED
    BY <1>1, <1>2, <1>4, OpenOnly DEF Stages, EarlyStages, Inside, Rebuild

LEMMA OpenCheckTable ==
  ASSUME OpenInv, Opening!CheckTable
  PROVE  OpenInv'
  <1>1. stage = "check" /\ table \in {"assets", "links"} /\ TablesThere /\ ColumnsThere
    BY DEF Opening!CheckTable, OpenInv, Opened
  <1>2. Opening!Dropped["assets"] = "verify" /\ Opening!Dropped["links"] = "await"
    BY DEF Opening!Dropped
  <1>3. /\ {"reports", "assets", "links"} \subseteq work.tables /\ "is_close" \in work.columns
        /\ work.form = "old" => "await" \in work.columns
        /\ table = "links" => "verify" \notin work.columns
    BY <1>1 DEF TablesThere, ColumnsThere, Rebuild
  <1>4. CASE Opening!Raise
    BY <1>4, OpenRaise
  <1>5. CASE /\ ~Opening!Has(Opening!Dropped[table]) /\ table = "assets" /\ table' =
                  "links" /\ UNCHANGED stage
             /\ UNCHANGED <<disk, work, inTxn, begun, origin>>
    <2>1. TablesThere' /\ ColumnsThere'
      BY <1>1, <1>2, <1>3, <1>5 DEF TablesThere, ColumnsThere, Rebuild, Inside, Opening!Has
    <2> QED
      BY <1>1, <1>5, <2>1, OpenOnly DEF Stages, EarlyStages, Inside, Rebuild
  <1>6. CASE /\ ~Opening!Has(Opening!Dropped[table]) /\ table = "links" /\ stage' =
                  "last" /\ UNCHANGED table
             /\ UNCHANGED <<disk, work, inTxn, begun, origin>>
    <2>1. "await" \notin work.columns
      BY <1>2, <1>6 DEF Opening!Has
    <2>2. work.form = "v3"
      BY <1>3, <2>1 DEF OpenInv, Opened, IsDatabase
    <2>3. TablesThere' /\ ColumnsThere'
      BY <1>3, <1>6, <2>1, <2>2 DEF TablesThere, ColumnsThere, Rebuild, Inside
    <2> QED
      BY <1>1, <1>6, <2>3, OpenOnly DEF Stages, EarlyStages, Inside
  <1>7. CASE /\ Opening!Has(Opening!Dropped[table]) /\ stage' = "savepoint"
             /\ UNCHANGED <<disk, work, inTxn, table, begun, origin>>
    <2>1. TablesThere' /\ ColumnsThere'
      BY <1>1, <1>3, <1>7 DEF TablesThere, ColumnsThere, Rebuild, Inside, Opening!Has
    <2> QED
      BY <1>1, <1>7, <2>1, OpenOnly DEF Stages, EarlyStages, Inside, Rebuild
  <1> QED
    BY <1>4, <1>5, <1>6, <1>7 DEF Opening!CheckTable

LEMMA OpenBeginRebuild ==
  ASSUME OpenInv, Opening!BeginRebuild
  PROVE  OpenInv'
  <1>1. /\ stage = "savepoint" /\ stage' = "copy" /\ inTxn' = TRUE /\ begun' = ~inTxn
        /\ UNCHANGED <<disk, work, table, origin>>
    BY DEF Opening!BeginRebuild, Opening!Savepoint
  <1>2. Opened /\ LinksThere /\ TablesThere /\ ColumnsThere
    BY DEF OpenInv
  <1>3. begun' \in BOOLEAN
    BY <1>1, <1>2 DEF Opened
  <1>4. Opened'
    BY <1>1, <1>2, <1>3 DEF Opened, IsDatabase, Stages, EarlyStages, Inside, Rebuild
  <1>5. LinksThere'
    BY <1>1, <1>2 DEF LinksThere, RowsOf, NoneWithout
  <1>6. TablesThere' /\ ColumnsThere'
    BY <1>1, <1>2 DEF TablesThere, ColumnsThere, Rebuild, Inside
  <1> QED
    BY <1>1, <1>4, <1>5, <1>6 DEF OpenInv, Opening!OpensCurrent

(* A statement outside the rebuild leaves the links as they are, and stays *)
(* in the same stage or in the one after it.                               *)
LEMMA OpenDdl ==
  ASSUME OpenInv, NEW db, Opening!Ddl(db), stage \in Stages \ ({"closed", "open"} \cup Inside),
         stage' \in Stages \ ({"closed", "open"} \cup Inside), table' = table,
         stage' \in EarlyStages => stage \in EarlyStages,
         IsDatabase(db), RowsOf(db), NoneWithout(db), TablesThere', ColumnsThere'
  PROVE  OpenInv'
  <1>1. /\ work' = db /\ disk' = (IF inTxn THEN disk ELSE db)
        /\ UNCHANGED <<inTxn, begun, origin>>
    BY DEF Opening!Ddl
  <1>2. Opened /\ LinksThere
    BY DEF OpenInv
  <1>3. \/ inTxn = TRUE /\ disk' = disk
        \/ inTxn = FALSE /\ disk' = db
    BY <1>1, <1>2 DEF Opened
  <1>4. IsDatabase(disk') /\ RowsOf(disk') /\ NoneWithout(disk')
    BY <1>2, <1>3 DEF Opened, LinksThere
  <1>5. Opened'
    <2>1. IsDatabase(work') /\ (inTxn' = FALSE => work' = disk')
      BY <1>1, <1>3
    <2>2. stage' \in Stages /\ stage' # "closed" /\ stage' \notin Inside
      BY DEF Stages, EarlyStages
    <2>3. IsDatabase(disk)' /\ IsDatabase(work)'
      BY <1>4, <2>1 DEF IsDatabase
    <2> QED
      BY <1>1, <1>2, <2>1, <2>2, <2>3 DEF Opened
  <1>6. LinksThere'
    BY <1>1, <1>4 DEF LinksThere, RowsOf, NoneWithout
  <1>7. stage' # "open"
    OBVIOUS
  <1> QED
    BY <1>5, <1>6, <1>7 DEF OpenInv, Opening!OpensCurrent

LEMMA OpenCreateTable ==
  ASSUME OpenInv, Opening!CreateTable
  PROVE  OpenInv'
  <1> DEFINE AddedBy(i) == {c \in Opening!Range(Opening!Columns) : Opening!TableOf(c) =
               Opening!Tables[i] /\ c # "await"}
  <1>1. PICK i \in 1..Len(Opening!Tables) :
          /\ Opening!Tables[i] \notin work.tables
          /\ Opening!Ddl([work EXCEPT
                 !.tables = @ \cup {Opening!Tables[i]},
                 !.columns = @ \cup AddedBy(i),
                 !.form = IF Opening!Tables[i] = "links" THEN "v3" ELSE @,
                 !.rows = IF Opening!Tables[i] = "links" THEN Opening!NoRows ELSE @])
    BY DEF Opening!CreateTable
  <1>2. stage = "create" /\ stage' = stage /\ table' = table
    BY DEF Opening!CreateTable
  <1> DEFINE db == [work EXCEPT
                 !.tables = @ \cup {Opening!Tables[i]},
                 !.columns = @ \cup AddedBy(i),
                 !.form = IF Opening!Tables[i] = "links" THEN "v3" ELSE @,
                 !.rows = IF Opening!Tables[i] = "links" THEN Opening!NoRows ELSE @]
  <1>3. /\ AddedBy(i) \subseteq ListedColumns /\ "await" \notin AddedBy(i)
    BY ColumnsListed
  <1>4. IsDatabase(work) /\ RowsOf(work) /\ NoneWithout(work)
    BY <1>2 DEF OpenInv, Opened, LinksThere
  <1> HIDE DEF AddedBy
  <1>a. PICK f : f = IF Opening!Tables[i] = "links" THEN "v3" ELSE work.form
    OBVIOUS
  <1>b. PICK r : r = IF Opening!Tables[i] = "links" THEN Opening!NoRows ELSE work.rows
    OBVIOUS
  <1>c. db = [tables |-> work.tables \cup {Opening!Tables[i]},
          columns |-> work.columns \cup AddedBy(i),
              flagged |-> work.flagged, form |-> f, rows |-> r]
    <2>1. PICK k : k = work.columns \cup AddedBy(i)
      OBVIOUS
    <2>2. PICK t : t = work.tables \cup {Opening!Tables[i]}
      OBVIOUS
    <2>3. db = [work EXCEPT !.tables = t, !.columns = k, !.form = f, !.rows = r]
      BY <1>a, <1>b, <2>1, <2>2
    <2>4. DOMAIN work = {"tables", "columns", "flagged", "form", "rows"}
      BY <1>4 DEF IsDatabase
    <2> HIDE DEF db
    <2>5. db = [tables |-> t, columns |-> k, flagged |-> work.flagged, form |-> f, rows |-> r]
      BY <1>4, <2>3, <2>4 DEF IsDatabase
    <2> QED
      BY <2>1, <2>2, <2>5
  <1>5. /\ db.tables = work.tables \cup {Opening!Tables[i]} /\ db.columns =
             work.columns \cup AddedBy(i)
        /\ db.form = IF Opening!Tables[i] = "links" THEN "v3" ELSE work.form
        /\ db.rows = IF Opening!Tables[i] = "links" THEN Opening!NoRows ELSE work.rows
        /\ db = [tables |-> db.tables, columns |-> db.columns, flagged |-> db.flagged,
                 form |-> db.form, rows |-> db.rows]
    BY <1>a, <1>b, <1>c
  <1>6. Opening!Ddl(db)
    BY <1>1
  <1> HIDE DEF db
  <1>7. IsDatabase(db)
    BY <1>3, <1>4, <1>5 DEF IsDatabase, AllColumns
  <1>8. RowsOf(db)
    <2>1. CASE Opening!Tables[i] = "links"
      <3>1. DOMAIN origin = {} /\ "await" \notin work.columns
        BY <1>1, <1>4, <2>1 DEF NoneWithout
      <3>2. Opening!NoRows = [l \in DOMAIN origin |-> Opening!V3Status(origin[l])]
        BY <3>1 DEF Opening!NoRows
      <3> QED
        BY <1>3, <1>5, <2>1, <3>1, <3>2 DEF RowsOf
    <2>2. CASE Opening!Tables[i] # "links"
      BY <1>3, <1>4, <1>5, <2>2 DEF RowsOf
    <2> QED
      BY <2>1, <2>2
  <1>9. NoneWithout(db)
    BY <1>3, <1>4, <1>5 DEF NoneWithout
  <1>10. TablesThere' /\ ColumnsThere'
    BY <1>2 DEF TablesThere, ColumnsThere, Rebuild, Inside
  <1> QED
    BY <1>2, <1>6, <1>7, <1>8, <1>9, <1>10, OpenDdl DEF Stages, EarlyStages, Inside

LEMMA OpenAddIsClose ==
  ASSUME OpenInv, Opening!AddIsClose
  PROVE  OpenInv'
  <1>1. stage = "is_close" /\ table = "assets" /\ {"reports", "assets",
          "links"} \subseteq work.tables
    BY DEF Opening!AddIsClose, OpenInv, Opened, EarlyStages, TablesThere
  <1>2. CASE stage' = "columns" /\ UNCHANGED <<disk, work, inTxn, table, begun, origin>>
               /\ Opening!Has("is_close")
    <2>1. TablesThere' /\ ColumnsThere'
      BY <1>1, <1>2 DEF TablesThere, ColumnsThere, Rebuild, Inside, Opening!Has
    <2> QED
      BY <1>1, <1>2, <2>1, OpenOnly DEF Stages, EarlyStages, Inside
  <1>3. CASE /\ Opening!Ddl([work EXCEPT !.columns = @ \cup {"is_close"}])
             /\ stage' = "flag" /\ UNCHANGED table
    <2> DEFINE db == [work EXCEPT !.columns = @ \cup {"is_close"}]
    <2>1. IsDatabase(work) /\ RowsOf(work) /\ NoneWithout(work)
      BY <1>1 DEF OpenInv, Opened, LinksThere
    <2>2. /\ db.tables = work.tables /\ db.columns = work.columns \cup {"is_close"}
          /\ db.form = work.form /\ db.rows = work.rows
          /\ db = [tables |-> db.tables, columns |-> db.columns, flagged |-> db.flagged,
                   form |-> db.form, rows |-> db.rows]
      BY <2>1 DEF IsDatabase
    <2>3. Opening!Ddl(db)
      BY <1>3
    <2> HIDE DEF db
    <2>4. IsDatabase(db)
      BY <2>1, <2>2 DEF IsDatabase, AllColumns
    <2>5. RowsOf(db) /\ NoneWithout(db)
      BY <2>1, <2>2 DEF RowsOf, NoneWithout
    <2>6. work' = db
      BY <2>3 DEF Opening!Ddl
    <2>7. TablesThere' /\ ColumnsThere'
      BY <1>1, <1>3, <2>2, <2>6 DEF TablesThere, ColumnsThere, Rebuild, Inside
    <2> QED
      BY <1>1, <1>3, <2>3, <2>4, <2>5, <2>7, OpenDdl DEF Stages, EarlyStages, Inside
  <1> QED
    BY <1>2, <1>3 DEF Opening!AddIsClose

LEMMA OpenFlagCloseOrders ==
  ASSUME OpenInv, Opening!FlagCloseOrders
  PROVE  OpenInv'
  <1>1. /\ stage = "flag" /\ stage' = "columns" /\ work' = [work EXCEPT !.flagged = TRUE]
             /\ inTxn' = TRUE
        /\ UNCHANGED <<disk, table, begun, origin>>
    BY DEF Opening!FlagCloseOrders
  <1>2. Opened /\ LinksThere /\ TablesThere /\ ColumnsThere /\ IsDatabase(work)
    BY DEF OpenInv, Opened
  <1>3. /\ work'.tables = work.tables /\ work'.columns = work.columns
        /\ work'.form = work.form /\ work'.rows = work.rows
        /\ work' = [tables |-> work'.tables, columns |-> work'.columns, flagged |-> work'.flagged,
                    form |-> work'.form, rows |-> work'.rows]
    BY <1>1, <1>2 DEF IsDatabase
  <1>4. Opened'
    <2>1. IsDatabase(work)'
      BY <1>2, <1>3 DEF IsDatabase
    <2>2. IsDatabase(disk)'
      BY <1>1, <1>2 DEF IsDatabase, Opened
    <2>3. table = "assets"
      BY <1>1, <1>2 DEF Opened, EarlyStages
    <2> QED
      BY <1>1, <1>2, <2>1, <2>2, <2>3 DEF Opened, Stages, EarlyStages, Inside
  <1>5. LinksThere'
    BY <1>1, <1>2, <1>3 DEF LinksThere, RowsOf, NoneWithout
  <1>6. TablesThere' /\ ColumnsThere'
    BY <1>1, <1>2, <1>3 DEF TablesThere, ColumnsThere, Rebuild, Inside
  <1> QED
    BY <1>1, <1>4, <1>5, <1>6 DEF OpenInv, Opening!OpensCurrent

LEMMA OpenAddColumn ==
  ASSUME OpenInv, Opening!AddColumn
  PROVE  OpenInv'
  <1>1. PICK i \in Opening!Missing : Opening!Ddl([work EXCEPT !.columns =
               @ \cup {Opening!Columns[i]}])
    BY DEF Opening!AddColumn
  <1>2. stage \in {"columns", "last"} /\ stage' = stage /\ table' = table
    BY DEF Opening!AddColumn
  <1>3. PICK c : c = Opening!Columns[i]
    OBVIOUS
  <1>4. c \in ListedColumns /\ (c = "await" => work.form = "old")
    <2>1. i \in 1..7 /\ Opening!Wants(c)
      BY <1>3, ColumnsListed DEF Opening!Missing
    <2>2. c \in Opening!Range(Opening!Columns)
      BY <1>3, <2>1, ColumnsListed DEF Opening!Range
    <2> QED
      BY <2>1, <2>2, ColumnsListed DEF Opening!Wants
  <1> DEFINE db == [work EXCEPT !.columns = @ \cup {c}]
  <1>5. IsDatabase(work) /\ RowsOf(work) /\ NoneWithout(work)
    BY <1>2 DEF OpenInv, Opened, LinksThere
  <1>6. /\ db.tables = work.tables /\ db.columns = work.columns \cup {c}
        /\ db.form = work.form /\ db.rows = work.rows
        /\ db = [tables |-> db.tables, columns |-> db.columns, flagged |-> db.flagged,
                 form |-> db.form, rows |-> db.rows]
    BY <1>5 DEF IsDatabase
  <1>7. Opening!Ddl(db)
    BY <1>1, <1>3
  <1> HIDE DEF db
  <1>8. {"reports", "assets", "links"} \subseteq work.tables
    BY <1>2 DEF OpenInv, TablesThere
  <1>9. IsDatabase(db)
    BY <1>4, <1>5, <1>6 DEF IsDatabase, AllColumns
  <1>10. RowsOf(db)
    BY <1>4, <1>5, <1>6 DEF RowsOf
  <1>11. NoneWithout(db)
    BY <1>6, <1>8 DEF NoneWithout
  <1>12. work' = db
    BY <1>7 DEF Opening!Ddl
  <1>13. TablesThere'
    BY <1>2, <1>6, <1>8, <1>12 DEF TablesThere
  <1>14. ColumnsThere'
    <2>1. c # "verify" /\ c # "is_close"
      BY <1>4 DEF ListedColumns
    <2>2. "is_close" \in work'.columns
      BY <1>2, <1>6, <1>12 DEF OpenInv, ColumnsThere
    <2>3. stage = "last" => /\ "verify" \notin work'.columns /\ "await" \notin work'.columns
                         /\ work'.form = "v3"
      BY <1>4, <1>6, <1>12, <2>1 DEF OpenInv, ColumnsThere
    <2> QED
      BY <1>2, <2>2, <2>3 DEF ColumnsThere, Rebuild, Inside
  <1> QED
    BY <1>2, <1>7, <1>9, <1>10, <1>11, <1>13, <1>14, OpenDdl DEF Stages, EarlyStages, Inside

(* Inside the rebuild a transaction is open: the file stays.               *)
LEMMA OpenInside ==
  ASSUME OpenInv, NEW db, Opening!Ddl(db), stage \in {"copy", "rename"},
           stage' \in {"rename", "release"},
         table' = table, IsDatabase(db), RowsOf(db),
         (stage' = "rename" /\ table = "links") \/ NoneWithout(db), TablesThere', ColumnsThere'
  PROVE  OpenInv'
  <1>1. Opened /\ LinksThere /\ inTxn = TRUE
    BY DEF OpenInv, Opened, Inside
  <1>2. work' = db /\ disk' = disk /\ UNCHANGED <<inTxn, begun, origin>>
    BY <1>1 DEF Opening!Ddl
  <1>3. Opened'
    <2>1. IsDatabase(disk)' /\ IsDatabase(work)'
      BY <1>1, <1>2 DEF Opened, IsDatabase
    <2>2. stage' \in Stages /\ stage' # "closed" /\ stage' \notin EarlyStages
      BY DEF Stages, Rebuild, Inside, EarlyStages
    <2> QED
      BY <1>1, <1>2, <2>1, <2>2 DEF Opened
  <1>4. LinksThere'
    <2>1. RowsOf(disk)' /\ NoneWithout(disk)'
      BY <1>1, <1>2 DEF LinksThere, RowsOf, NoneWithout
    <2>2. RowsOf(work)'
      BY <1>2 DEF RowsOf
    <2>3. (stage' = "rename" /\ table' = "links") \/ NoneWithout(work)'
      BY <1>2 DEF NoneWithout
    <2> QED
      BY <2>1, <2>2, <2>3 DEF LinksThere
  <1> QED
    BY <1>3, <1>4 DEF OpenInv, Opening!OpensCurrent

LEMMA OpenCopyTable ==
  ASSUME OpenInv, Opening!CopyTable
  PROVE  OpenInv'
  <1>1. /\ stage = "copy" /\ stage' = "rename" /\ table' = table
        /\ Opening!Ddl([work EXCEPT !.tables = @ \ {table}])
    BY DEF Opening!CopyTable
  <1>2. /\ IsDatabase(work) /\ RowsOf(work) /\ NoneWithout(work) /\ table \in {"assets", "links"}
        /\ TablesThere /\ ColumnsThere
    BY <1>1 DEF OpenInv, Opened, LinksThere
  <1> DEFINE db == [work EXCEPT !.tables = @ \ {table}]
  <1>3. /\ db.tables = work.tables \ {table} /\ db.columns = work.columns
        /\ db.form = work.form /\ db.rows = work.rows
        /\ db = [tables |-> db.tables, columns |-> db.columns, flagged |-> db.flagged,
                 form |-> db.form, rows |-> db.rows]
    BY <1>2 DEF IsDatabase
  <1>4. Opening!Ddl(db)
    BY <1>1
  <1> HIDE DEF db
  <1>5. IsDatabase(db) /\ RowsOf(db)
    BY <1>2, <1>3 DEF IsDatabase, RowsOf
  <1>6. table = "links" \/ NoneWithout(db)
    BY <1>2, <1>3 DEF NoneWithout
  <1>7. work' = db
    BY <1>4 DEF Opening!Ddl
  <1>8. TablesThere'
    BY <1>1, <1>2, <1>3, <1>7 DEF TablesThere
  <1>9. ColumnsThere'
    BY <1>1, <1>2, <1>3, <1>7 DEF ColumnsThere, Rebuild, Inside
  <1> QED
    BY <1>1, <1>4, <1>5, <1>6, <1>8, <1>9, OpenInside

LEMMA OpenRenameTable ==
  ASSUME OpenInv, Opening!RenameTable
  PROVE  OpenInv'
  <1>1. /\ stage = "rename" /\ stage' = "release" /\ table' = table
        /\ Opening!Ddl([work EXCEPT
             !.tables = @ \cup {table},
             !.columns = @ \ {Opening!Dropped[table]},
             !.form = IF table = "links" THEN "v3" ELSE @,
             !.rows = IF table = "links"
                      THEN [l \in DOMAIN @ |-> Opening!V3Status(@[l])] ELSE @])
    BY DEF Opening!RenameTable
  <1>2. /\ IsDatabase(work) /\ RowsOf(work) /\ (table = "links" \/ NoneWithout(work))
        /\ table \in {"assets", "links"} /\ TablesThere /\ ColumnsThere
    BY <1>1 DEF OpenInv, Opened, LinksThere
  <1>3. Opening!Dropped["assets"] = "verify" /\ Opening!Dropped["links"] = "await"
    BY DEF Opening!Dropped
  <1>4. PICK rr : rr = [l \in DOMAIN work.rows |-> Opening!V3Status(work.rows[l])]
    OBVIOUS
  <1>5. PICK f : f = IF table = "links" THEN "v3" ELSE work.form
    OBVIOUS
  <1>6. PICK r : r = IF table = "links" THEN rr ELSE work.rows
    OBVIOUS
  <1>7. PICK k : k = work.columns \ {Opening!Dropped[table]}
    OBVIOUS
  <1>8. PICK t : t = work.tables \cup {table}
    OBVIOUS
  <1>9. PICK db : db = [work EXCEPT !.tables = t, !.columns = k, !.form = f, !.rows = r]
    OBVIOUS
  <1>10. Opening!Ddl(db)
    BY <1>1, <1>4, <1>5, <1>6, <1>7, <1>8, <1>9
  <1>11. db = [tables |-> t, columns |-> k, flagged |-> work.flagged, form |-> f, rows |-> r]
    <2>1. DOMAIN work = {"tables", "columns", "flagged", "form", "rows"}
      BY <1>2 DEF IsDatabase
    <2> QED
      BY <1>2, <1>9, <2>1 DEF IsDatabase
  <1>12. IsDatabase(db)
    BY <1>2, <1>5, <1>7, <1>11 DEF IsDatabase
  <1>13. RowsOf(db)
    <2>1. CASE table = "links"
      <3>1. work.form = "old" /\ work.rows = origin
        BY <1>1, <1>2, <1>3, <2>1 DEF ColumnsThere, RowsOf
      <3>2. r = [l \in DOMAIN origin |-> Opening!V3Status(origin[l])]
        BY <1>4, <1>6, <2>1, <3>1
      <3>3. f = "v3" /\ "await" \notin k
        BY <1>3, <1>5, <1>7, <2>1
      <3> QED
        BY <1>11, <3>2, <3>3 DEF RowsOf
    <2>2. CASE table = "assets"
      BY <1>2, <1>5, <1>6, <1>7, <1>11, <2>2 DEF RowsOf
    <2> QED
      BY <1>2, <2>1, <2>2
  <1>14. NoneWithout(db)
    BY <1>2, <1>7, <1>8, <1>11 DEF NoneWithout
  <1>15. work' = db
    BY <1>10 DEF Opening!Ddl
  <1>16. TablesThere'
    BY <1>1, <1>2, <1>8, <1>11, <1>15 DEF TablesThere
  <1>17. ColumnsThere'
    <2>1. /\ "is_close" \in work.columns
          /\ work.form = "old" => "await" \in work.columns
          /\ table = "links" => "verify" \notin work.columns
      BY <1>1, <1>2 DEF ColumnsThere, Rebuild, Inside
    <2>2. /\ "is_close" \in k /\ (f = "old" => "await" \in k) /\ (table = "links" =>
               "verify" \notin k)
      BY <1>2, <1>3, <1>5, <1>7, <2>1
    <2> QED
      BY <1>1, <1>11, <1>15, <2>2 DEF ColumnsThere
  <1> QED
    BY <1>1, <1>10, <1>12, <1>13, <1>14, <1>16, <1>17, OpenInside

LEMMA OpenReleaseRebuild ==
  ASSUME OpenInv, Opening!ReleaseRebuild
  PROVE  OpenInv'
  <1>1. /\ stage = "release" /\ stage' = "check" /\ begun' = FALSE /\ UNCHANGED <<work,
             table, origin>>
        /\ \/ disk' = work /\ inTxn' = FALSE
           \/ disk' = disk /\ inTxn' = inTxn
    BY DEF Opening!ReleaseRebuild
  <1>2. Opened /\ LinksThere /\ TablesThere /\ ColumnsThere
    BY DEF OpenInv
  <1>3. RowsOf(work) /\ NoneWithout(work) /\ RowsOf(disk) /\ NoneWithout(disk)
    BY <1>1, <1>2 DEF LinksThere
  <1>4. Opened'
    <2>1. IsDatabase(disk') /\ IsDatabase(work')
      BY <1>1, <1>2 DEF Opened
    <2>2. IsDatabase(disk)' /\ IsDatabase(work)'
      BY <2>1 DEF IsDatabase
    <2>3. inTxn' = FALSE => work' = disk'
      BY <1>1, <1>2 DEF Opened
    <2> QED
      BY <1>1, <1>2, <2>2, <2>3 DEF Opened, Stages, Rebuild, EarlyStages, Inside
  <1>5. LinksThere'
    BY <1>1, <1>3 DEF LinksThere, RowsOf, NoneWithout
  <1>6. TablesThere' /\ ColumnsThere'
    BY <1>1, <1>2 DEF TablesThere, ColumnsThere, Rebuild, Inside
  <1> QED
    BY <1>1, <1>4, <1>5, <1>6 DEF OpenInv, Opening!OpensCurrent

LEMMA OpenCommit ==
  ASSUME OpenInv, Opening!Commit
  PROVE  OpenInv'
  <1>1. /\ stage = "last" /\ Opening!Missing = {} /\ stage' = "open" /\ disk' = work
             /\ inTxn' = FALSE
        /\ UNCHANGED <<work, table, begun, origin>>
    BY DEF Opening!Commit
  <1>2. Opened /\ LinksThere /\ TablesThere /\ ColumnsThere
    BY DEF OpenInv
  <1>3. IsDatabase(work) /\ RowsOf(work) /\ NoneWithout(work)
    BY <1>1, <1>2 DEF Opened, LinksThere
  <1>4. Opened'
    BY <1>1, <1>2, <1>3 DEF Opened, IsDatabase, Stages, Rebuild, EarlyStages, Inside
  <1>5. LinksThere'
    BY <1>1, <1>3 DEF LinksThere, RowsOf, NoneWithout
  <1>6. TablesThere' /\ ColumnsThere'
    BY <1>1 DEF TablesThere, ColumnsThere, Rebuild, Inside
  <1>7. Opening!OpensCurrent'
    <2>1. /\ "is_close" \in work.columns /\ "verify" \notin work.columns
          /\ "await" \notin work.columns /\ work.form = "v3"
          /\ {"reports", "assets", "links"} \subseteq work.tables
      BY <1>1, <1>2 DEF TablesThere, ColumnsThere
    <2>2. ASSUME NEW c \in Opening!Range(Opening!Columns) \ {"await"} PROVE c \in work.columns
      <3>1. PICK i \in 1..Len(Opening!Columns) : Opening!Columns[i] = c
        BY ColumnsListed DEF Opening!Range
      <3>2. i \notin Opening!Missing
        BY <1>1
      <3> QED
        BY <3>1, <3>2 DEF Opening!Missing, Opening!Wants, Opening!Has
    <2>3. work.columns \subseteq {"is_close", "verify"} \cup Opening!Range(Opening!Columns)
      BY <1>3, ColumnsListed DEF IsDatabase, AllColumns
    <2>4. work.columns = {"is_close"} \cup (Opening!Range(Opening!Columns) \ {"await"})
      BY <2>1, <2>2, <2>3
    <2>5. Opening!Range(Opening!Tables) \subseteq work.tables
      BY <2>1, TablesListed
    <2> QED
      BY <1>1, <2>1, <2>4, <2>5 DEF Opening!OpensCurrent
  <1> QED
    BY <1>4, <1>5, <1>6, <1>7 DEF OpenInv

LEMMA OpenRepairRows ==
  ASSUME OpenInv, Opening!RepairRows
  PROVE  OpenInv'
  <1>1. /\ stage = "closed" /\ disk.form = "old" /\ \E l \in DOMAIN origin :
             disk.rows[l].status = "odd"
        /\ DOMAIN origin' = DOMAIN origin
        /\ disk' = [disk EXCEPT !.rows = origin'] /\ work' = disk'
        /\ UNCHANGED <<stage, inTxn, table, begun>>
    BY DEF Opening!RepairRows
  <1>2. Opened /\ LinksThere
    BY DEF OpenInv
  <1>3. /\ disk'.tables = disk.tables /\ disk'.columns = disk.columns
        /\ disk'.form = disk.form /\ disk'.rows = origin'
        /\ disk' = [tables |-> disk'.tables, columns |-> disk'.columns, flagged |-> disk'.flagged,
                    form |-> disk'.form, rows |-> disk'.rows]
    BY <1>1, <1>2 DEF Opened, IsDatabase
  <1>4. Opened'
    <2>1. IsDatabase(disk)' /\ IsDatabase(work)'
      BY <1>1, <1>2, <1>3 DEF Opened, IsDatabase
    <2> QED
      BY <1>1, <1>2, <2>1 DEF Opened
  <1>5. LinksThere'
    <2>1. RowsOf(disk)' /\ RowsOf(work)'
      BY <1>1, <1>3 DEF RowsOf
    <2>2. NoneWithout(disk)' /\ NoneWithout(work)'
      BY <1>1, <1>2, <1>3 DEF LinksThere, NoneWithout
    <2> QED
      BY <2>1, <2>2 DEF LinksThere
  <1>6. TablesThere' /\ ColumnsThere'
    BY <1>1 DEF TablesThere, ColumnsThere, Rebuild, Inside
  <1> QED
    BY <1>1, <1>4, <1>5, <1>6 DEF OpenInv, Opening!OpensCurrent

LEMMA OpenStep ==
  ASSUME OpenInv, [Opening!Next]_(Opening!vars)
  PROVE  OpenInv'
  <1>1. CASE UNCHANGED Opening!vars
    <2>1. UNCHANGED <<stage, disk, work, inTxn, table, begun, origin>>
      BY <1>1 DEF Opening!vars
    <2> QED
      BY <2>1 DEF OpenInv, Opened, LinksThere, TablesThere, ColumnsThere, Opening!OpensCurrent,
                  IsDatabase, RowsOf, NoneWithout
  <1>2. CASE Opening!Open \/ Opening!Validate \/ Opening!CreateTable
               \/ Opening!TablesCreated \/ Opening!AddIsClose
    BY <1>2, OpenOpen, OpenValidate, OpenCreateTable, OpenTablesCreated, OpenAddIsClose
  <1>3. CASE Opening!FlagCloseOrders \/ Opening!AddColumn \/ Opening!ColumnsAdded
               \/ Opening!CheckTable \/ Opening!BeginRebuild
    BY <1>3, OpenFlagCloseOrders, OpenAddColumn, OpenColumnsAdded, OpenCheckTable, OpenBeginRebuild
  <1>4. CASE Opening!CopyTable \/ Opening!RenameTable \/ Opening!ReleaseRebuild
               \/ Opening!Commit \/ Opening!RepairRows
    BY <1>4, OpenCopyTable, OpenRenameTable, OpenReleaseRebuild, OpenCommit, OpenRepairRows
  <1>5. CASE Opening!FailOrCrash
    BY <1>5, OpenRaise DEF Opening!FailOrCrash
  <1> QED
    BY <1>1, <1>2, <1>3, <1>4, <1>5 DEF Opening!Next

(* Whatever statement a start stops at, the file keeps every causal link.  *)
THEOREM LinksStayWhole == Opening!Spec => []LinksWhole
  <1>1. Opening!Init => OpenInv
    BY OpenAtFirst
  <1>2. OpenInv /\ [Opening!Next]_(Opening!vars) => OpenInv'
    BY OpenStep
  <1>3. OpenInv => LinksWhole
    BY OpenShown
  <1> QED
    BY <1>1, <1>2, <1>3, PTL DEF Opening!Spec

(* What is opened is of the current version.                               *)
THEOREM CurrentOnceOpen == Opening!Spec => []OpensCurrent
  <1>1. Opening!Init => OpenInv
    BY OpenAtFirst
  <1>2. OpenInv /\ [Opening!Next]_(Opening!vars) => OpenInv'
    BY OpenStep
  <1>3. OpenInv => OpensCurrent
    BY OpenShown
  <1> QED
    BY <1>1, <1>2, <1>3, PTL DEF Opening!Spec
=============================================================================
