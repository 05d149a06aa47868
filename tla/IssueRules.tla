------------------------------ MODULE IssueRules ------------------------------
(***************************************************************************)
(* The rules of cmd/issue_rules.go as pure operators.  A rule is a record  *)
(* [name, count, skip, issueRegexp, queryRegexp]; a regular expression is  *)
(* the set of texts it matches, so each of the last two fields is a set of *)
(* sets.  The fields that only travel from file to file (tag, link,        *)
(* comment, example) are left out.                                         *)
(***************************************************************************)
EXTENDS Integers, Sequences, FiniteSetsExt

PgIssueRules == [name : STRING, count : Nat, skip : BOOLEAN,
                 issueRegexp : SUBSET SUBSET STRING, queryRegexp : SUBSET SUBSET STRING]

(* LoadFromFile accepts a list of rules with distinct names, none of them  *)
(* empty of patterns (PgIssueRules.Init).                                  *)
LoadFromFileAccepts(issues) ==
  /\ \A i, j \in DOMAIN issues : issues[i].name = issues[j].name => i = j
  /\ \A i \in DOMAIN issues : issues[i].issueRegexp # {} \/ issues[i].queryRegexp # {}

Allows(regexps, text) == regexps = {} \/ \E re \in regexps : text \in re

IsMatched(rule, query, issue) ==
  /\ Allows(rule.issueRegexp, issue)
  /\ Allows(rule.queryRegexp, query)

(* The index of the rule MatchToKnownIssues gives to an issue, 0 for none: *)
(* the first rule of the list that matches.                                *)
Matching(issues, query, issue) == {i \in DOMAIN issues : IsMatched(issues[i], query, issue)}

RuleOf(issues, query, issue) ==
  IF Matching(issues, query, issue) = {}
  THEN 0
  ELSE Min(Matching(issues, query, issue))

Keep(ydbIssues, set) == SelectSeq(ydbIssues, LAMBDA m : m \in set)

UnknownIssues(issues, query, ydbIssues) ==
  Keep(ydbIssues, {m \in Range(ydbIssues) : RuleOf(issues, query, m) = 0})

(* Mutant of Names: the rules marked "skip" are counted like the others. *)
NamesSkipped(issues, query, issue) ==
  LET i == RuleOf(issues, query, issue)
  IN  i # 0 /\ issues[i].name # ""

(* checkQuery counts a query under the first of its issues whose rule has  *)
(* a name and is not to be skipped, and without one under the error and    *)
(* the issues no rule matched.                                             *)
Names(issues, query, issue) ==
  LET i == RuleOf(issues, query, issue)
  IN  i # 0 /\ issues[i].name # "" /\ ~issues[i].skip

Naming(issues, query, ydbIssues) ==
  {n \in DOMAIN ydbIssues : Names(issues, query, ydbIssues[n])}

Verdict(issues, query, answer) ==
  LET naming == Naming(issues, query, answer.issues)
  IN  IF naming # {}
      THEN [kind |-> "known", answer |-> answer,
            key |-> <<issues[RuleOf(issues, query, answer.issues[Min(naming)])].name>>]
      ELSE [kind |-> "unknown", answer |-> answer,
            key |-> <<answer.err>> \o UnknownIssues(issues, query, answer.issues)]

(* UpdateFromStats: the counter of a rule is overwritten when this process *)
(* has matched the rule, and kept as loaded otherwise.                     *)
UpdateCounts(issues, known) ==
  [i \in DOMAIN issues |->
     IF <<issues[i].name>> \in DOMAIN known
     THEN [issues[i] EXCEPT !.count = known[<<issues[i].name>>].count]
     ELSE issues[i]]

SortedByCount(issues) ==
  \A i, j \in DOMAIN issues : i < j => issues[i].count >= issues[j].count

(* slices.SortFunc is not stable: any order that is sorted may come out.   *)
(* A list that is sorted already is left as it is.                         *)
SortOutcomes(issues) ==
  LET orders == Bijection(DOMAIN issues, DOMAIN issues)
  IN  IF SortedByCount(issues)
      THEN {issues}
      ELSE {s \in {[i \in DOMAIN issues |-> issues[p[i]]] : p \in orders} : SortedByCount(s)}
=============================================================================
