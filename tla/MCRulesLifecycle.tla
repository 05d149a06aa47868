--------------------------- MODULE MCRulesLifecycle ---------------------------
(* Two rules, loaded with counters of an earlier and longer run. *)
EXTENDS RulesLifecycle

MCRuleNames   == {"join", "any"}
MCFirstCounts == [join |-> 5, any |-> 0]
=============================================================================
