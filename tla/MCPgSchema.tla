------------------------------ MODULE MCPgSchema ------------------------------
(* Dumps of up to four pieces.  Four pieces define tables (two of them     *)
(* the same one), one a view, one has the semicolon of a table on the line *)
(* of its storage clause; the others are single lines.  The names of the   *)
(* tables are a quoted one, one that is as long as it may be, and two too  *)
(* long ones that begin alike; the digest of one of these is what the one  *)
(* before ends with.                                                       *)
EXTENDS PgSchema

CONSTANT MaxPieces      \* bound: pieces of a dump

L(kind)         == [kind |-> kind, name |-> <<>>]
Named(kind, n)  == [kind |-> kind, name |-> n]

MCSpelling ==
  << [text |-> <<"x">>, quoted |-> TRUE], [text |-> <<"a">>, quoted |-> FALSE],
     [text |-> <<"x", "y", "y">>, quoted |-> FALSE],
     [text |-> <<"x", "y", "y", "y">>, quoted |-> FALSE],
     [text |-> <<"x", "y", "y", "z">>, quoted |-> FALSE],
     [text |-> <<"z">>, quoted |-> FALSE] >>

MCDigest(text) == <<Last(text), Last(text)>>

Pieces ==
  { <<Named("table", <<6, 1>>), L("text"), L("bracket"), L("text"), L("semicolon")>>,
    <<Named("table", <<6, 1>>), L("text"), L("text"), L("bracket"), L("semicolon")>>,
    <<Named("table", <<2, 3>>), L("bracket"), L("text"), L("semicolon")>>,
    <<Named("table", <<2, 4>>), L("bracket"), L("semicolon")>>,
    <<Named("table", <<2, 5>>), L("text"), L("bracket"), L("endedText")>>,
    <<Named("view", <<2, 5>>), L("text"), L("endedText")>>,
    <<Named("endedView", <<2, 3>>)>>,
    <<Named("table", <<2, 5>>)>>, <<L("nodot")>>, <<L("semicolon")>>, <<L("endedText")>>, <<L("long")>> }

MCDumps == {FlattenSeq(s) : s \in UNION {[1..n -> Pieces] : n \in 0..MaxPieces}}
=============================================================================
