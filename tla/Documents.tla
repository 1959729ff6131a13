------------------------------ MODULE Documents ------------------------------
(***************************************************************************)
(* What the program keeps on disk, for any constants of its parts: the     *)
(* texts that review rounds and the operator revise (ReviewRound), the     *)
(* configuration file with its credentials (RuntimeConfig), and a database *)
(* that an earlier version has left (Migration).  The parts have no state  *)
(* in common: they stand side by side here.                                *)
(***************************************************************************)
EXTENDS ReviewRound

CONSTANTS
  Names, Forms, MaxChanges, MaxWriteFaults,  \* of RuntimeConfig
  Links                                      \* of Migration

VARIABLES
  config, run, env, provider, latched, form, routed, restart, unbuilt, unsaved, changes,
  writeFaults,
  stage, disk, work, inTxn, table, begun, origin
configVars ==
  <<config, run, env, provider, latched, form, routed, restart, unbuilt, unsaved, changes,
    writeFaults>>
databaseVars == <<stage, disk, work, inTxn, table, begun, origin>>

Config == INSTANCE RuntimeConfig WITH
  MaxEdits <- MaxChanges, MaxFaults <- MaxWriteFaults,
  file <- config, asked <- routed, edits <- changes, faults <- writeFaults

(* Every version whose files can be met.                                   *)
Opening == INSTANCE Migration WITH
  Generations <- {"v1", "unversioned", "v2", "v3", "r5"}, pc <- stage, saved <- begun

-----------------------------------------------------------------------------
(* Properties.                                                             *)

(* No form that is saved takes away a key, a model or an agent's choice    *)
(* that the credential routes have set; and what the file says is what     *)
(* runs, or the operator was told that it needs a restart.                 *)
ConfigHolds == Config!ConfigHolds

(* Whatever statement a start stops at, the file keeps every causal link,  *)
(* in its old form or mapped once.                                         *)
LinksWhole == Opening!LinksWhole

(* However often the start was cut short, an open database has every       *)
(* column of the current version, and none that v3 dropped.                *)
OpensCurrent == Opening!OpensCurrent
=============================================================================
