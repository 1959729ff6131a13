----------------------------- MODULE MCDocuments -----------------------------
(* Small instances of what the program keeps on disk (Documents): the      *)
(* versions of the texts, the configuration file and the database.  They   *)
(* have no state in common, so a behaviour is of one of them: "part" says  *)
(* which.                                                                  *)
EXTENDS Documents, TLC

VARIABLE part
Perms == Permutations(Contents)

(* The parts that are not chosen stay in one initial state.                *)
SumInit ==
  /\ part \in {"rounds", "config", "database"}
  /\ Init /\ Config!Init /\ Opening!Init
  /\ part # "rounds" => file["strategy"] = ""
  /\ part # "config" => \A n \in DOMAIN env : env[n] = 0
  /\ part # "database" => DOMAIN origin = {} /\ disk.tables = {}
SumNext ==
  \/ part = "rounds" /\ Next /\ UNCHANGED <<part, configVars, databaseVars>>
  \/ part = "config" /\ Config!Next /\ UNCHANGED <<part, vars, databaseVars>>
  \/ part = "database" /\ Opening!Next /\ UNCHANGED <<part, vars, configVars>>
SumSpec == SumInit /\ [][SumNext]_<<part, vars, configVars, databaseVars>>
=============================================================================
