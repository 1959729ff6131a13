--------------------------- MODULE MCRuntimeConfig ---------------------------
(* Small instances of RuntimeConfig for TLC. *)
EXTENDS RuntimeConfig
=============================================================================
