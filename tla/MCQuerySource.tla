---------------------------- MODULE MCQuerySource ----------------------------
(* Every log of up to three values drawn from four records (two of them    *)
(* with one key) and the three kinds of values that are no record.         *)
EXTENDS QuerySource

Record(key, success) == [kind |-> "record", key |-> key, success |-> success]

MCEntries == { Record(<<1, 1, 1, 1>>, TRUE), Record(<<1, 1, 1, 1>>, FALSE),
               Record(<<1, 1, 2, 1>>, TRUE), Record(<<2, 1, 1, 1>>, FALSE),
               [kind |-> "mistyped"], [kind |-> "broken"] }

MCLogs == UNION {[1..n -> MCEntries] : n \in 0..3}
            \cup {Append(l, [kind |-> "cut"]) : l \in [1..2 -> MCEntries]}
=============================================================================
