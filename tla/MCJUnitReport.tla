----------------------------- MODULE MCJUnitReport -----------------------------
(* Reports of up to three test cases of two tests, which may be repeated,  *)
(* have no name, or pass with an output; lists that hold a third test, one *)
(* test twice, or a name without a slash ("d"; the others stand for names  *)
(* that have one).                                                         *)
EXTENDS JUnitReport

Case(name, tags) == [name |-> name, tags |-> tags]

Failed    == <<"failure">>
SomeCases == [name : {"a", "b"}, tags : {Passed, Failed, <<"error">>}]

MCRawReports ==
  UNION {[1..n -> SomeCases] : n \in 0..2}
    \cup [1..3 -> [name : {"a", "b"}, tags : {Passed, <<"error">>}]]
    \cup {<<Case(NoName, Passed)>>, <<Case("a", <<"system-out">>), Case("b", Passed)>>}

MCOldReports == { <<>>, <<Case("a", Passed)>>, <<Case("c", Passed), Case("a", Failed)>>,
                  <<Case("a", Passed), Case("a", Failed)>> }

MCFullLists  == {<<>>, <<"a">>, <<"c", "b", "a">>, <<"a", "b", "a">>, <<"d", "a">>}
MCUnitLists  == {<<>>, <<"a">>, <<"b", "c">>, <<"d/">>}
MCWithSlash  == [d |-> "d/"]
MCTicketSets == {{}, {"a"}, {"b", "c"}}
=============================================================================
