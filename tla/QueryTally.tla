------------------------------ MODULE QueryTally ------------------------------
(***************************************************************************)
(* What check-pg-queries promises, without goroutines, locks or a pool:    *)
(* every query sent is counted once, under one verdict that never changes, *)
(* and a complete stat file is the exact tally of the queries counted at   *)
(* the moment it is written.  Implemented by CheckQueries.                 *)
(***************************************************************************)
EXTENDS QueryStats

VARIABLES outcome,    \* the verdict on the query at each position
          statFile    \* the stat file on disk

tallyVars == <<outcome, statFile>>

(* A file is absent, empty or cut short, or complete.  A complete one      *)
(* stands for the text Encode prints of s, the examples as they are        *)
(* cleaned for YAML.                                                       *)
NoFile     == [state |-> "absent"]
BrokenFile == [state |-> "broken"]
StatFile(s) == [state |-> "complete", stat |-> s]

TallyInit ==
  /\ outcome = [i \in Positions |-> NoOutcome]
  /\ statFile = NoFile

CountQuery(i) ==
  /\ outcome[i].kind = "none"
  /\ outcome'[i].kind \in Kinds
  /\ outcome' = [outcome EXCEPT ![i] = outcome'[i]]
  /\ UNCHANGED statFile

Truncate ==
  /\ statFile' = BrokenFile
  /\ UNCHANGED outcome

Publish ==
  /\ statFile'.state = "complete"
  /\ IsTally(statFile'.stat, outcome)
  /\ UNCHANGED outcome

TallyNext == (\E i \in Positions : CountQuery(i)) \/ Truncate \/ Publish

TallySpec == TallyInit /\ [][TallyNext]_tallyVars
=============================================================================
