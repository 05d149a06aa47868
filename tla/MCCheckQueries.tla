---------------------------- MODULE MCCheckQueries ----------------------------
(* Instances of CheckQueries for TLC.  "q" is shorter than "qq".  The rule *)
(* "join" is written below "any" but catches fewer queries; "noise" is to  *)
(* be skipped; "rare" is never matched and keeps its counter.              *)
EXTENDS CheckQueries, TLC

CONSTANTS c1, c2, main

MCTwoCheckers == {c1, c2}

MCQueryLen == [q |-> 1, qq |-> 2, qqq |-> 3]

MCInput3 == <<"qq", "q", "qqq">>
MCInput4 == <<"qq", "q", "qqq", "qq">>

Ok         == [err |-> "", issues |-> <<>>]
Lost       == [err |-> "transport", issues |-> <<>>]
Fails(ms)  == [err |-> "GENERIC_ERROR", issues |-> ms]

(* The same text may succeed or fail, and fail in several ways. *)
MCAnswers ==
  [q   |-> {Ok, Fails(<<"j">>)},
   qq  |-> {Fails(<<"n", "j">>), Lost},
   qqq |-> {Fails(<<"n", "x">>), Fails(<<"n", "u">>)}]

(* One answer for most texts, for the run with fairness. *)
MCFewAnswers ==
  [q   |-> {Ok, Fails(<<"j">>)},
   qq  |-> {Fails(<<"n", "j">>)},
   qqq |-> {Fails(<<"n", "u">>)}]

Rule(name, count, skip, issueRegexp, queryRegexp) ==
  [name |-> name, count |-> count, skip |-> skip,
   issueRegexp |-> issueRegexp, queryRegexp |-> queryRegexp]

MCIssues ==
  << Rule("noise", 9, TRUE, {{"n"}}, {}),
     Rule("rare", 1, FALSE, {{"r"}}, {{"q"}, {"qq"}}),
     Rule("any", 0, FALSE, {{"x"}, {"j"}}, {{"qq", "qqq"}}),
     Rule("join", 0, FALSE, {{"j"}}, {}) >>
=============================================================================
