------------------------------ MODULE QueryStats ------------------------------
(***************************************************************************)
(* QueryStats of cmd/check_pg_queries.go: the counters of checked queries, *)
(* and for every known rule and every unknown reason a counter with the    *)
(* shortest query seen.  The operators below are the bodies of the         *)
(* critical sections; CheckQueries says who runs them and when.  IsTally   *)
(* is the reference the counters are compared with.                        *)
(***************************************************************************)
EXTENDS Integers, Sequences, FiniteSets

CONSTANTS Input,      \* the texts the reader sends, in order
          QueryLen    \* QueryLen[q]: len(q) after the rewriting of checkQuery

Positions == DOMAIN Input

ASSUME QueryStatsAssumption ==
  /\ Input \in Seq(DOMAIN QueryLen)
  /\ QueryLen \in [DOMAIN QueryLen -> Nat]

EmptyTable == [k \in {} |-> 0]
EmptyStats == [total |-> 0, ok |-> 0, known |-> EmptyTable, unknown |-> EmptyTable]

(* Mutant of Shorter: the latest example is kept, whatever its length. *)
Latest(q, r) == q

Shorter(q, r) == IF QueryLen[q] < QueryLen[r] THEN q ELSE r

Entry(table, key, q) ==
  IF key \in DOMAIN table
  THEN [count |-> table[key].count + 1, example |-> Shorter(q, table[key].example)]
  ELSE [count |-> 1, example |-> q]

Bump(table, key, q) ==
  [k \in DOMAIN table \cup {key} |-> IF k = key THEN Entry(table, key, q) ELSE table[k]]

CountASOK(s) == [s EXCEPT !.total = @ + 1, !.ok = @ + 1]

CountAsKnown(s, ruleName, q) ==
  [s EXCEPT !.total = @ + 1, !.known = Bump(@, ruleName, q)]

CountAsUnknown(s, reason, q) ==
  [s EXCEPT !.total = @ + 1, !.unknown = Bump(@, reason, q)]

-----------------------------------------------------------------------------
(* What became of the query at a position: nothing yet, or the verdict of  *)
(* checkQuery (kind "ok", "known" or "unknown", and the key it was counted *)
(* under), with the answer of the database it was given.  A key is the     *)
(* tuple of texts it is put together from.                                 *)
NoAnswer  == [err |-> "", issues |-> <<>>]
NoOutcome == [kind |-> "none", key |-> <<>>, answer |-> NoAnswer]

Kinds == {"ok", "known", "unknown"}

(* Count*, chosen by the verdict of checkQuery. *)
Count(s, verdict, q) ==
  CASE verdict.kind = "ok"      -> CountASOK(s)
    [] verdict.kind = "known"   -> CountAsKnown(s, verdict.key, q)
    [] verdict.kind = "unknown" -> CountAsUnknown(s, verdict.key, q)

Counted(outcome)            == {i \in Positions : outcome[i].kind \in Kinds}
OfKind(outcome, kind)       == {i \in Positions : outcome[i].kind = kind}
OfKey(outcome, kind, key)   == {i \in OfKind(outcome, kind) : outcome[i].key = key}

(* A table is the reference table of a kind: its keys are exactly those    *)
(* that occurred, each counter is the number of its occurrences, and each  *)
(* example is the text of an occurrence and no longer than any other.      *)
IsTable(table, outcome, kind) ==
  /\ DOMAIN table = {outcome[i].key : i \in OfKind(outcome, kind)}
  /\ \A k \in DOMAIN table :
       /\ table[k].count = Cardinality(OfKey(outcome, kind, k))
       /\ \E i \in OfKey(outcome, kind, k) : table[k].example = Input[i]
       /\ \A i \in OfKey(outcome, kind, k) :
            QueryLen[table[k].example] <= QueryLen[Input[i]]

IsTally(s, outcome) ==
  /\ s.total = Cardinality(Counted(outcome))
  /\ s.ok = Cardinality(OfKind(outcome, "ok"))
  /\ IsTable(s.known, outcome, "known")
  /\ IsTable(s.unknown, outcome, "unknown")
=============================================================================
