----------------------------- MODULE MCFillSync -----------------------------
(* Small instances of FillSync for TLC. *)
EXTENDS FillSync, TLC
CONSTANTS close, stop, target, other
MCOwn == close :> "llm_close"
MCSymmetry == Permutations({stop, target})
=============================================================================
