----------------------------- MODULE MCCommandStart -----------------------------
(* The logs of MCQuerySource behind the opening of the pool. *)
EXTENDS CommandStart, MCQuerySource
=============================================================================
