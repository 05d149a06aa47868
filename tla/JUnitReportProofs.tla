--------------------------- MODULE JUnitReportProofs ---------------------------
(***************************************************************************)
(* Proofs about the processing of reports, for any reports, lists and      *)
(* tickets: no test is lost, no pass is made up, and a regression fails    *)
(* the comparison.                                                         *)
(***************************************************************************)
EXTENDS JUnitReport, FiniteSetTheorems, FunctionTheorems, SequenceTheorems, TLAPS


(* Places of a sequence, and numbers of them. *)
LEMMA PlacesAreFinite ==
  ASSUME NEW list, Len(list) \in Nat, DOMAIN list = 1..Len(list), NEW S \in SUBSET DOMAIN list
  PROVE  IsFiniteSet(S) /\ Cardinality(S) \in Nat /\ S \subseteq Nat
<1>1. IsFiniteSet(DOMAIN list)
  BY FS_Interval
<1> QED
  BY <1>1, FS_Subset, FS_CardinalityType

(* The number of a place among those of a set: it grows with the place.    *)
Rank(S, i) == Cardinality({j \in S : j <= i})

LEMMA RankGrows ==
  ASSUME NEW S, IsFiniteSet(S), S \subseteq Nat, NEW i \in S
  PROVE  /\ Rank(S, i) \in 1..Cardinality(S)
         /\ \A j \in S : i < j => Rank(S, i) < Rank(S, j)
<1> DEFINE Upto(k) == {j \in S : j <= k}
<1>1. \A k : Upto(k) \in SUBSET S
  OBVIOUS
<1>2. \A k : IsFiniteSet(Upto(k)) /\ Cardinality(Upto(k)) \in Nat
             /\ Cardinality(Upto(k)) <= Cardinality(S) /\ Cardinality(S) \in Nat
  BY <1>1, FS_Subset, FS_CardinalityType
<1>3. i \in Upto(i)
  OBVIOUS
<1>4. ASSUME NEW j \in S, i < j PROVE Cardinality(Upto(i)) < Cardinality(Upto(j))
  <2>0. i \in Nat /\ j \in Nat /\ \A k \in S : k \in Nat
    OBVIOUS
  <2>1. Upto(i) \in SUBSET Upto(j) /\ j \in Upto(j) /\ j \notin Upto(i)
    <3>1. j <= j /\ ~(j <= i) /\ \A k \in S : k <= i => k <= j
      BY <1>4, <2>0
    <3> QED
      BY <3>1
  <2>2. IsFiniteSet(Upto(j)) /\ Upto(i) # Upto(j)
    BY <1>2, <2>1
  <2> HIDE DEF Upto
  <2>3. /\ Cardinality(Upto(i)) <= Cardinality(Upto(j))
        /\ Cardinality(Upto(j)) = Cardinality(Upto(i)) => Upto(j) = Upto(i)
    BY <2>1, <2>2, FS_Subset
  <2> QED
    BY <1>2, <2>2, <2>3
<1> HIDE DEF Upto
<1>5. Cardinality(Upto(i)) # 0
  BY <1>2, <1>3, FS_EmptySet
<1>6. Cardinality(Upto(i)) \in 1..Cardinality(S)
  BY <1>2, <1>5
<1> QED
  BY <1>4, <1>6 DEF Rank, Upto

(* Ascending enumerates the places of a set, each of them once. *)
LEMMA AscendingIsBijection ==
  ASSUME NEW S, IsFiniteSet(S), S \subseteq Nat
  PROVE  /\ Ascending(S) \in Bijection(1..Cardinality(S), S)
         /\ \A k \in 1..Cardinality(S) : Rank(S, Ascending(S)[k]) = k
<1> DEFINE n == Cardinality(S)
           r == [i \in S |-> Rank(S, i)]
           a == Ascending(S)
<1>1. n \in Nat /\ IsFiniteSet(1..n) /\ Cardinality(1..n) = n
  BY FS_CardinalityType, FS_Interval
<1>2. \A i, j \in S : Rank(S, i) = Rank(S, j) => i = j
  <2> SUFFICES ASSUME NEW i \in S, NEW j \in S, i # j PROVE Rank(S, i) # Rank(S, j)
    OBVIOUS
  <2>1. i < j \/ j < i
    OBVIOUS
  <2>2. Rank(S, i) \in 1..n /\ Rank(S, j) \in 1..n
    BY RankGrows
  <2>3. (i < j => Rank(S, i) < Rank(S, j)) /\ (j < i => Rank(S, j) < Rank(S, i))
    BY RankGrows
  <2> QED
    BY <1>1, <2>1, <2>2, <2>3
<1>3. r \in Injection(S, 1..n)
  BY <1>2, RankGrows DEF Injection, IsInjective
<1>4. r \in Surjection(S, 1..n)
  <2> HIDE DEF r
  <2> QED
    BY <1>1, <1>3, FS_Injection
<1>5. \A k \in 1..n : \E i \in S : Rank(S, i) = k
  BY <1>4 DEF Surjection
<1>6. a = [k \in 1..n |-> CHOOSE i \in S : Rank(S, i) = k]
  BY DEF Ascending, Rank
<1>7. a \in [1..n -> S] /\ \A k \in 1..n : Rank(S, a[k]) = k
  <2> HIDE DEF a
  <2> QED
    BY <1>5, <1>6
<1>8. \A i \in S : Rank(S, i) \in 1..n
  BY RankGrows
<1> HIDE DEF a, n, r
<1>9. a \in Injection(1..n, S)
  <2>1. \A k, m \in 1..n : a[k] = a[m] => k = m
    BY <1>7
  <2> QED
    BY <1>7, <2>1 DEF Injection, IsInjective
<1>10. a \in Surjection(1..n, S)
  <2>1. ASSUME NEW i \in S PROVE a[Rank(S, i)] = i
    <3>1. Rank(S, i) \in 1..n /\ a[Rank(S, i)] \in S
      BY <1>7, <1>8
    <3>2. Rank(S, a[Rank(S, i)]) = Rank(S, i)
      BY <1>7, <3>1
    <3> QED
      BY <1>2, <3>1, <3>2
  <2> QED
    BY <1>7, <1>8, <2>1 DEF Surjection
<1>11. a \in Bijection(1..n, S)
  BY <1>9, <1>10 DEF Bijection
<1> QED
  BY <1>7, <1>11 DEF a, n

(* So there is a first and a last place. *)
LEMMA FirstAndLast ==
  ASSUME NEW S, IsFiniteSet(S), S \subseteq Nat, S # {}
  PROVE  /\ \E i \in S : \A j \in S : i <= j
         /\ \E i \in S : \A j \in S : j <= i
<1> DEFINE n == Cardinality(S)
           a == Ascending(S)
<1>1. n \in Nat /\ n # 0
  BY FS_CardinalityType, FS_EmptySet
<1>2. a \in [1..n -> S] /\ \A k \in 1..n : Rank(S, a[k]) = k
  BY AscendingIsBijection DEF Bijection, Injection
<1>3. a[1] \in S /\ Rank(S, a[1]) = 1 /\ a[n] \in S /\ Rank(S, a[n]) = n
  BY <1>1, <1>2
<1> HIDE DEF a, n
<1>4. \A j \in S : Rank(S, j) \in 1..n
  BY RankGrows DEF n
<1>5. \A i, j \in S : i < j => Rank(S, i) < Rank(S, j)
  BY RankGrows
<1>6. \A j \in S : ~(j < a[1]) /\ ~(a[n] < j)
  <2> SUFFICES ASSUME NEW j \in S PROVE ~(j < a[1]) /\ ~(a[n] < j)
    OBVIOUS
  <2>1. j < a[1] => Rank(S, j) < 1
    BY <1>3, <1>5
  <2>2. a[n] < j => n < Rank(S, j)
    BY <1>3, <1>5
  <2> QED
    BY <1>1, <1>4, <2>1, <2>2
<1>7. \A j \in S : a[1] <= j /\ j <= a[n]
  <2>1. a[1] \in Nat /\ a[n] \in Nat /\ \A j \in S : j \in Nat
    BY <1>3
  <2> QED
    BY <1>6, <2>1
<1> QED
  BY <1>3, <1>7

(* What a list has at some of its places is a list with one element for    *)
(* each of the places.                                                     *)
LEMMA AtHasThePlaces ==
  ASSUME NEW D, NEW list \in Seq(D), NEW S \in SUBSET DOMAIN list
  PROVE  /\ At(list, S) \in Seq(D)
         /\ DOMAIN At(list, S) = 1..Cardinality(S)
         /\ \A k \in DOMAIN At(list, S) :
              Ascending(S)[k] \in S /\ At(list, S)[k] = list[Ascending(S)[k]]
         /\ \A i \in S : \E k \in DOMAIN At(list, S) : Ascending(S)[k] = i
         /\ \A k, m \in DOMAIN At(list, S) : Ascending(S)[k] = Ascending(S)[m] => k = m
<1> DEFINE n == Cardinality(S)
           a == Ascending(S)
           picked == At(list, S)
<1>1. IsFiniteSet(S) /\ n \in Nat /\ S \subseteq Nat
  BY PlacesAreFinite
<1>2. a \in Bijection(1..n, S)
  BY <1>1, AscendingIsBijection
<1>3. picked = [k \in 1..n |-> list[a[k]]]
  BY DEF At
<1> HIDE DEF n, a, picked
<1>4. /\ a \in [1..n -> S]
      /\ \A i \in S : \E k \in 1..n : a[k] = i
      /\ \A k, m \in 1..n : a[k] = a[m] => k = m
  BY <1>2 DEF Bijection, Injection, IsInjective, Surjection
<1>5. \A k \in 1..n : list[a[k]] \in D
  BY <1>4
<1>6. picked \in Seq(D) /\ DOMAIN picked = 1..n /\ \A k \in 1..n : picked[k] = list[a[k]]
  BY <1>1, <1>3, <1>5, SeqDef
<1> QED
  BY <1>4, <1>6 DEF n, a, picked

(* A part of those places is found as often as it has members. *)
LEMMA AtCounts ==
  ASSUME NEW D, NEW list \in Seq(D), NEW S \in SUBSET DOMAIN list, NEW P \in SUBSET S
  PROVE  Cardinality({k \in DOMAIN At(list, S) : Ascending(S)[k] \in P}) = Cardinality(P)
<1> DEFINE a == Ascending(S)
           dom == DOMAIN At(list, S)
           K == {k \in dom : a[k] \in P}
           f == [k \in K |-> a[k]]
<1>0. IsFiniteSet(S) /\ Cardinality(S) \in Nat /\ S \subseteq Nat /\ dom = 1..Cardinality(S)
  BY PlacesAreFinite, AtHasThePlaces
<1>1. IsFiniteSet(dom)
  BY <1>0, FS_Interval
<1>2. /\ a \in [dom -> S]
      /\ \A i \in S : \E k \in dom : a[k] = i
      /\ \A k, m \in dom : a[k] = a[m] => k = m
  <2>1. a \in Bijection(1..Cardinality(S), S)
    BY <1>0, AscendingIsBijection
  <2> HIDE DEF a, dom
  <2> QED
    BY <1>0, <2>1 DEF Bijection, Injection, IsInjective, Surjection
<1> HIDE DEF a, dom
<1>3. K \in SUBSET dom
  OBVIOUS
<1>4. IsFiniteSet(K)
  BY <1>1, <1>3, FS_Subset
<1>5. f \in [K -> P] /\ (\A k, m \in K : f[k] = f[m] => k = m) /\ \A i \in P : \E k \in K : f[k] = i
  BY <1>2
<1> HIDE DEF K, f
<1>6. f \in Bijection(K, P)
  BY <1>5 DEF Bijection, Injection, IsInjective, Surjection
<1>7. Cardinality(K) = Cardinality(P)
  BY <1>4, <1>6, FS_Bijection DEF ExistsBijection
<1> QED
  BY <1>7 DEF K, dom, a

-----------------------------------------------------------------------------
(* Test cases, and what becomes of them. *)
ReportTypes ==
  /\ raw \in Seq(Cases) /\ old \in Seq(Cases) /\ report \in Seq(Cases)
  /\ fullList \in Seq(STRING) /\ unitTests \in Seq(STRING)
  /\ \A i \in DOMAIN fullList : fullList[i] # NoName

LEMMA CaseFields ==
  ASSUME NEW c \in Cases
  PROVE  /\ c.name \in FullNames /\ c.tags \in Seq(Tags)
         /\ \A t \in Seq(Tags) : LET d == [c EXCEPT !.tags = t]
                                 IN  d \in Cases /\ d.name = c.name /\ d.tags = t
<1> DEFINE TagSeqs == Seq(Tags)
<1>1. c \in [name : FullNames, tags : TagSeqs]
  BY DEF Cases
<1> HIDE DEF TagSeqs
<1>2. /\ c.name \in FullNames /\ c.tags \in TagSeqs
      /\ \A t \in TagSeqs : LET d == [c EXCEPT !.tags = t]
                            IN  d \in [name : FullNames, tags : TagSeqs] /\ d.name = c.name /\ d.tags = t
  BY <1>1
<1> QED
  BY <1>2 DEF Cases, TagSeqs

LEMMA RenamedTags ==
  ASSUME NEW tags \in Seq(Tags)
  PROVE  /\ Renamed(tags) \in Seq(Tags)
         /\ Renamed(tags) = Passed <=> tags = Passed
<1>1. "failure" \in Tags
  BY ReportAssumption DEF ReportAssumption
<1>2. Len(tags) \in Nat /\ DOMAIN tags = 1..Len(tags) /\ \A i \in DOMAIN tags : tags[i] \in Tags
  OBVIOUS
<1>3. Renamed(tags) \in [1..Len(tags) -> Tags]
  BY <1>1, <1>2 DEF Renamed
<1>4. Renamed(tags) \in Seq(Tags) /\ Len(Renamed(tags)) = Len(tags)
  BY <1>2, <1>3, SeqDef
<1>5. \A s \in Seq(Tags) : s = <<>> <=> Len(s) = 0
  OBVIOUS
<1> QED
  BY <1>4, <1>5 DEF Passed

LEMMA FullNameType ==
  ASSUME NEW n \in STRING, n # NoName
  PROVE  FullName(n) \in FullNames /\ FullName(n) # NoName
  BY ReportAssumption DEF ReportAssumption, FullName, FullNames

LEMMA NewTestIsFailed ==
  ASSUME NEW n \in STRING, n # NoName
  PROVE  /\ NewTest(n) \in Cases /\ NewTest(n).name = FullName(n)
         /\ NewTest(n).tags # Passed
<1>1. <<"failure">> \in Seq(Tags) /\ <<"failure">> # <<>>
  BY ReportAssumption DEF ReportAssumption
<1> DEFINE t == <<"failure">>
           TagSeqs == Seq(Tags)
<1>2. t \in TagSeqs /\ t # <<>>
  BY <1>1
<1> HIDE DEF t, TagSeqs
<1>3. [name |-> FullName(n), tags |-> t] \in [name : FullNames, tags : TagSeqs]
  BY <1>2, FullNameType
<1> QED
  BY <1>2, <1>3 DEF NewTest, Cases, Passed, t, TagSeqs

(* The errors are renamed: a test case keeps its name, and that it passed  *)
(* or not.                                                                 *)
LEMMA ChangeErrorsKeeps ==
  ASSUME ReportTypes, ChangeErrors
  PROVE  /\ report' \in Seq(Cases) /\ DOMAIN report' = DOMAIN report
         /\ \A i \in DOMAIN report : /\ report'[i].name = report[i].name
                                     /\ report'[i].tags = Passed <=> report[i].tags = Passed
<1>1. Len(report) \in Nat /\ DOMAIN report = 1..Len(report) /\ \A i \in DOMAIN report : report[i] \in Cases
  BY DEF ReportTypes
<1>2. CASE ~flags.errorToFailure
  BY <1>2 DEF ChangeErrors, ReportTypes
<1>3. CASE flags.errorToFailure
  <2> DEFINE Changed(c) == [c EXCEPT !.tags = Renamed(c.tags)]
  <2>1. \A c \in Cases : /\ Changed(c) \in Cases /\ Changed(c).name = c.name
                         /\ Changed(c).tags = Passed <=> c.tags = Passed
    <3> SUFFICES ASSUME NEW c \in Cases
                 PROVE  /\ Changed(c) \in Cases /\ Changed(c).name = c.name
                        /\ Changed(c).tags = Passed <=> c.tags = Passed
      OBVIOUS
    <3>1. c.tags \in Seq(Tags)
      BY CaseFields
    <3>2. Renamed(c.tags) \in Seq(Tags) /\ (Renamed(c.tags) = Passed <=> c.tags = Passed)
      BY <3>1, RenamedTags
    <3> QED
      BY <3>2, CaseFields
  <2>2. report' = [i \in DOMAIN report |-> Changed(report[i])]
    BY <1>3 DEF ChangeErrors
  <2> HIDE DEF Changed
  <2>3. report' \in [1..Len(report) -> Cases]
    BY <1>1, <2>1, <2>2
  <2>4. report' \in Seq(Cases)
    BY <1>1, <2>3, SeqDef
  <2> QED
    BY <1>1, <2>1, <2>2, <2>4
<1> QED
  BY <1>2, <1>3

(* Tickets are applied: names stay, and nothing that has a ticket passes.  *)
LEMMA SkipTicketedKeeps ==
  ASSUME ReportTypes, SkipTicketed
  PROVE  /\ report' \in Seq(Cases) /\ DOMAIN report' = DOMAIN report
         /\ \A i \in DOMAIN report :
              /\ report'[i].name = report[i].name
              /\ report'[i].tags = Passed => report[i].tags = Passed /\ report[i].name \notin ticketed
<1>1. Len(report) \in Nat /\ DOMAIN report = 1..Len(report) /\ \A i \in DOMAIN report : report[i] \in Cases
  BY DEF ReportTypes
<1> DEFINE skipped == <<"skipped">>
           Changed(c) == IF c.name \in ticketed THEN [c EXCEPT !.tags = skipped] ELSE c
<1>2. skipped \in Seq(Tags) /\ skipped # Passed
  BY ReportAssumption DEF ReportAssumption, Passed
<1>3. report' = [i \in DOMAIN report |-> Changed(report[i])]
  BY DEF SkipTicketed
<1> HIDE DEF skipped
<1>4. \A c \in Cases : /\ Changed(c) \in Cases /\ Changed(c).name = c.name
                       /\ Changed(c).tags = Passed => c.tags = Passed /\ c.name \notin ticketed
  BY <1>2, CaseFields
<1> HIDE DEF Changed
<1>5. report' \in [1..Len(report) -> Cases]
  BY <1>1, <1>3, <1>4
<1>6. report' \in Seq(Cases)
  BY <1>1, <1>5, SeqDef
<1> QED
  BY <1>1, <1>3, <1>4, <1>6

LEMMA NamesOfTests ==
  ASSUME NEW tests \in Seq(Cases)
  PROVE  /\ Len(Names(tests)) = Len(tests) /\ Len(tests) \in Nat
         /\ DOMAIN Names(tests) = 1..Len(tests) /\ DOMAIN tests = 1..Len(tests)
         /\ \A i \in DOMAIN tests : Names(tests)[i] = tests[i].name /\ tests[i].name \in STRING
         /\ \A n : n \in ToSet(Names(tests)) <=> \E i \in DOMAIN tests : tests[i].name = n
         /\ \A n : Times(Names(tests), n) = Cardinality({i \in DOMAIN tests : tests[i].name = n})
<1>1. Len(tests) \in Nat /\ DOMAIN tests = 1..Len(tests) /\ \A i \in DOMAIN tests : tests[i] \in Cases
  OBVIOUS
<1>2. \A i \in DOMAIN tests : tests[i].name \in STRING
  BY <1>1, CaseFields DEF FullNames
<1>3. Names(tests) \in [1..Len(tests) -> STRING]
  BY <1>1, <1>2 DEF Names
<1>4. Names(tests) \in Seq(STRING) /\ Len(Names(tests)) = Len(tests)
  BY <1>1, <1>3, SeqDef
<1>5. DOMAIN Names(tests) = DOMAIN tests /\ \A i \in DOMAIN tests : Names(tests)[i] = tests[i].name
  BY DEF Names
<1>6. ASSUME NEW n
      PROVE  {i \in DOMAIN Names(tests) : Names(tests)[i] = n} = {i \in DOMAIN tests : tests[i].name = n}
  BY <1>5
<1>7. \A n : n \in ToSet(Names(tests)) <=> \E i \in DOMAIN tests : tests[i].name = n
  BY <1>5 DEF ToSet
<1> QED
  BY <1>1, <1>2, <1>4, <1>5, <1>6, <1>7 DEF Times

LEMMA TimesPositive ==
  ASSUME NEW list, Len(list) \in Nat, DOMAIN list = 1..Len(list), NEW n
  PROVE  Times(list, n) \in Nat /\ (Times(list, n) > 0 <=> \E i \in DOMAIN list : list[i] = n)
<1> DEFINE S == {i \in DOMAIN list : list[i] = n}
<1>1. S \in SUBSET DOMAIN list
  OBVIOUS
<1>2. IsFiniteSet(S) /\ Cardinality(S) \in Nat
  BY <1>1, PlacesAreFinite
<1>3. S # {} <=> \E i \in DOMAIN list : list[i] = n
  OBVIOUS
<1> HIDE DEF S
<1>4. Cardinality(S) > 0 <=> S # {}
  BY <1>2, FS_EmptySet
<1> QED
  BY <1>2, <1>3, <1>4 DEF Times, S

(* Each entry of the list is the name of a test case or is left over.      *)
LEMMA NotStartedCovers ==
  ASSUME NEW tests \in Seq(Cases), NEW list \in Seq(STRING)
  PROVE  /\ NotStarted(tests, list) \in Seq(STRING)
         /\ \A k \in DOMAIN NotStarted(tests, list) : NotStarted(tests, list)[k] \in ToSet(list)
         /\ \A p \in DOMAIN list :
              \/ \E i \in DOMAIN tests : tests[i].name = list[p]
              \/ \E k \in DOMAIN NotStarted(tests, list) : NotStarted(tests, list)[k] = list[p]
<1> DEFINE P == {p \in DOMAIN list :
                   Times(SubSeq(list, 1, p), list[p]) > Times(Names(tests), list[p])}
           left == NotStarted(tests, list)
<1>1. left = At(list, P) /\ P \in SUBSET DOMAIN list
  BY DEF NotStarted
<1>2. ASSUME NEW p \in DOMAIN list, p \notin P
      PROVE  \E i \in DOMAIN tests : tests[i].name = list[p]
  <2> DEFINE head == SubSeq(list, 1, p)
  <2>1. p \in 1..Len(list) /\ Len(list) \in Nat
    OBVIOUS
  <2>2. Len(head) = p /\ DOMAIN head = 1..Len(head) /\ head[p] = list[p]
    BY <2>1
  <2> HIDE DEF head
  <2>3. Times(head, list[p]) \in Nat /\ Times(head, list[p]) > 0
    BY <2>1, <2>2, TimesPositive
  <2>4. ~(Times(head, list[p]) > Times(Names(tests), list[p]))
    BY <1>2 DEF head
  <2>5. Times(Names(tests), list[p]) \in Nat
    BY NamesOfTests, TimesPositive
  <2>6. Times(Names(tests), list[p]) > 0
    BY <2>3, <2>4, <2>5
  <2>7. \E i \in DOMAIN Names(tests) : Names(tests)[i] = list[p]
    BY <2>6, NamesOfTests, TimesPositive
  <2> QED
    BY <2>7, NamesOfTests
<1> HIDE DEF P, left
<1>3. left \in Seq(STRING) /\ DOMAIN left = 1..Cardinality(P)
  BY <1>1, AtHasThePlaces
<1>4. \A k \in DOMAIN left : Ascending(P)[k] \in P /\ left[k] = list[Ascending(P)[k]]
  BY <1>1, AtHasThePlaces
<1>5. \A p \in P : \E k \in DOMAIN left : Ascending(P)[k] = p
  <2>1. IsFiniteSet(P) /\ P \subseteq Nat
    BY <1>1, PlacesAreFinite
  <2>2. Ascending(P) \in Bijection(1..Cardinality(P), P)
    BY <2>1, AscendingIsBijection
  <2> QED
    BY <1>3, <2>2 DEF Bijection, Surjection
<1>6. \A k \in DOMAIN left : left[k] \in ToSet(list)
  BY <1>1, <1>4 DEF ToSet
<1>7. \A p \in P : \E k \in DOMAIN left : left[k] = list[p]
  BY <1>4, <1>5
<1> QED
  BY <1>2, <1>3, <1>6, <1>7 DEF left

(* What was not started is added, as failed, and then every test of the    *)
(* list is there, under its full name.                                     *)
LEMMA AppendCompletes ==
  ASSUME ReportTypes, AppendNotStarted, step' # "raised"
  PROVE  /\ step' = "skip" /\ (AllListed(report, fullList) \/ flags.inconsistent)
         /\ report' \in Seq(Cases)
         /\ \A i \in DOMAIN report' :
              \/ i \in DOMAIN report /\ report'[i] = report[i]
              \/ report'[i].tags # Passed /\ report'[i].name # NoName
         /\ \A p \in DOMAIN fullList :
              \E i \in DOMAIN report' : report'[i].name = FullName(fullList[p])
<1> DEFINE left == NotStarted(report, fullList)
           new == [i \in DOMAIN left |-> NewTest(left[i])]
<1>1. /\ AllListed(report, fullList) \/ flags.inconsistent
      /\ report' = report \o new /\ step' = "skip"
  BY DEF AppendNotStarted
<1>2. /\ report \in Seq(Cases) /\ fullList \in Seq(STRING)
      /\ \A p \in DOMAIN fullList : fullList[p] # NoName
  BY DEF ReportTypes
<1>3. /\ left \in Seq(STRING)
      /\ \A k \in DOMAIN left : left[k] \in ToSet(fullList)
      /\ \A p \in DOMAIN fullList : \/ \E i \in DOMAIN report : report[i].name = fullList[p]
                                   \/ \E k \in DOMAIN left : left[k] = fullList[p]
  BY <1>2, NotStartedCovers
<1> HIDE DEF left
<1>4. /\ Len(left) \in Nat /\ DOMAIN left = 1..Len(left)
      /\ \A k \in DOMAIN left : left[k] \in STRING /\ left[k] # NoName
  BY <1>2, <1>3 DEF ToSet
<1>5. \A k \in DOMAIN left : /\ NewTest(left[k]) \in Cases
                            /\ NewTest(left[k]).name = FullName(left[k])
                            /\ NewTest(left[k]).name # NoName
                            /\ NewTest(left[k]).tags # Passed
  BY <1>4, NewTestIsFailed, FullNameType
<1>6. DOMAIN new = 1..Len(left) /\ \A k \in 1..Len(left) : new[k] = NewTest(left[k])
  BY <1>4
<1>7. new \in [1..Len(left) -> Cases]
  BY <1>4, <1>5
<1> HIDE DEF new
<1>8. new \in Seq(Cases) /\ Len(new) = Len(left)
  BY <1>4, <1>7, SeqDef
<1>9. /\ report' \in Seq(Cases) /\ Len(report') = Len(report) + Len(left)
      /\ DOMAIN report = 1..Len(report) /\ DOMAIN report' = 1..Len(report')
      /\ Len(report) \in Nat
      /\ \A i \in 1..Len(report) : report'[i] = report[i]
      /\ \A k \in 1..Len(left) : report'[Len(report) + k] = new[k]
  <2>1. /\ report' \in Seq(Cases) /\ Len(report') = Len(report) + Len(new)
        /\ \A i \in 1..(Len(report) + Len(new)) :
             report'[i] = IF i <= Len(report) THEN report[i] ELSE new[i - Len(report)]
    BY <1>1, <1>2, <1>8, ConcatProperties
  <2>2. Len(report) \in Nat /\ DOMAIN report = 1..Len(report) /\ DOMAIN report' = 1..Len(report')
    BY <1>2, <2>1
  <2>3. \A k \in 1..Len(left) : /\ Len(report) + k \in 1..(Len(report) + Len(new))
                               /\ ~(Len(report) + k <= Len(report))
                               /\ (Len(report) + k) - Len(report) = k
    BY <1>4, <1>8, <2>2
  <2>4. \A i \in 1..Len(report) : i <= Len(report) /\ i \in 1..(Len(report) + Len(new))
    BY <1>4, <1>8, <2>2
  <2> QED
    BY <1>8, <2>1, <2>2, <2>3, <2>4
<1>10. ASSUME NEW i \in DOMAIN report', i \notin DOMAIN report
       PROVE  report'[i].tags # Passed /\ report'[i].name # NoName
  <2>1. i - Len(report) \in 1..Len(left) /\ i = Len(report) + (i - Len(report))
    BY <1>4, <1>9, <1>10
  <2>2. PICK k \in 1..Len(left) : i = Len(report) + k
    BY <2>1
  <2>3. report'[i] = NewTest(left[k])
    BY <1>6, <1>9, <2>2
  <2> QED
    BY <1>3, <1>4, <1>5, <2>3
<1>11. ASSUME NEW p \in DOMAIN fullList
       PROVE  \E i \in DOMAIN report' : report'[i].name = FullName(fullList[p])
  <2>1. CASE \E i \in DOMAIN report : report[i].name = fullList[p]
    <3>1. PICK i \in DOMAIN report : report[i].name = fullList[p]
      BY <2>1
    <3>2. i \in DOMAIN report' /\ report'[i] = report[i]
      BY <1>4, <1>9
    <3>3. report[i] \in Cases
      BY <1>2
    <3>4. FullName(fullList[p]) = fullList[p]
      BY <3>1, <3>3, CaseFields DEF FullName, FullNames
    <3> QED
      BY <3>1, <3>2, <3>4
  <2>2. CASE \E k \in DOMAIN left : left[k] = fullList[p]
    <3>1. PICK k \in 1..Len(left) : left[k] = fullList[p]
      BY <1>4, <2>2
    <3>2. Len(report) + k \in DOMAIN report' /\ report'[Len(report) + k] = NewTest(left[k])
      BY <1>4, <1>6, <1>9
    <3> QED
      BY <1>4, <1>5, <3>1, <3>2
  <2> QED
    BY <1>3, <2>1, <2>2
<1> QED
  BY <1>1, <1>9, <1>10, <1>11

(* The unit tests are taken out, and only they. *)
LEMMA RemoveKeeps ==
  ASSUME ReportTypes, RemoveUnitTests
  PROVE  /\ report' \in Seq(Cases) /\ step' \in {"diff", "raised"}
         /\ \A k \in DOMAIN report' : \E i \in DOMAIN report : report'[k] = report[i]
         /\ \A i \in DOMAIN report : report[i].name \notin ToSet(unitTests) =>
              \E k \in DOMAIN report' : report'[k] = report[i]
         /\ step' = "diff" /\ ~flags.inconsistent => ToSet(unitTests) \subseteq ToSet(Names(report))
<1> DEFINE S == {i \in DOMAIN report : ~IsRemoved(i)}
<1>1. report' = At(report, S) /\ S \in SUBSET DOMAIN report
  BY DEF RemoveUnitTests
<1>2. report \in Seq(Cases)
  BY DEF ReportTypes
<1>3. \A i \in DOMAIN report : report[i].name \notin ToSet(unitTests) => i \in S
  BY DEF IsRemoved
<1> HIDE DEF S
<1>4. IsFiniteSet(S) /\ S \subseteq Nat
  BY <1>1, <1>2, PlacesAreFinite
<1>5. report' \in Seq(Cases) /\ DOMAIN report' = 1..Cardinality(S)
  BY <1>1, <1>2, AtHasThePlaces
<1>6. \A k \in DOMAIN report' : Ascending(S)[k] \in S /\ report'[k] = report[Ascending(S)[k]]
  BY <1>1, <1>2, AtHasThePlaces
<1>7. \A i \in S : \E k \in DOMAIN report' : Ascending(S)[k] = i
  BY <1>4, <1>5, AscendingIsBijection DEF Bijection, Surjection
<1>8. \A i \in S : \E k \in DOMAIN report' : report'[k] = report[i]
  BY <1>6, <1>7
<1>9. \A k \in DOMAIN report' : \E i \in DOMAIN report : report'[k] = report[i]
  BY <1>1, <1>6
<1> QED
  BY <1>3, <1>5, <1>8, <1>9 DEF RemoveUnitTests

(* Each of them is taken out once. *)
LEMMA RemoveCounts ==
  ASSUME ReportTypes, RemoveUnitTests, NEW n \in ToSet(Names(report))
  PROVE  Times(Names(report'), n) =
           Times(Names(report), n) - (IF n \in ToSet(unitTests) THEN 1 ELSE 0)
<1> DEFINE S == {i \in DOMAIN report : ~IsRemoved(i)}
           all == {i \in DOMAIN report : report[i].name = n}
           rest == {i \in S : report[i].name = n}
           found == {k \in DOMAIN report' : report'[k].name = n}
<1>1. report' = At(report, S) /\ S \in SUBSET DOMAIN report /\ rest \in SUBSET S
      /\ all \in SUBSET DOMAIN report
  BY DEF RemoveUnitTests
<1>2. report \in Seq(Cases) /\ report' \in Seq(Cases)
  BY RemoveKeeps DEF ReportTypes
<1>3. IsFiniteSet(all) /\ all \subseteq Nat /\ all # {}
  BY <1>1, <1>2, PlacesAreFinite, NamesOfTests
<1>4. Cardinality(found) = Cardinality(rest)
  <2>1. \A k \in DOMAIN report' : Ascending(S)[k] \in S /\ report'[k] = report[Ascending(S)[k]]
    <3> HIDE DEF S
    <3> QED
      BY <1>1, <1>2, AtHasThePlaces
  <2>2. found = {k \in DOMAIN report' : Ascending(S)[k] \in rest}
    <3> HIDE DEF S
    <3> QED
      BY <2>1
  <2> HIDE DEF S, rest, found
  <2> QED
    BY <1>1, <1>2, <2>2, AtCounts
<1>5. CASE n \notin ToSet(unitTests)
  <2>1. rest = all
    BY <1>5 DEF IsRemoved
  <2>2. Cardinality(all) \in Nat
    BY <1>3, FS_CardinalityType
  <2> QED
    BY <1>2, <1>4, <1>5, <2>1, <2>2, NamesOfTests
<1>6. CASE n \in ToSet(unitTests)
  <2>1. PICK first \in all : \A j \in all : first <= j
    <3> HIDE DEF all
    <3> QED
      BY <1>3, FirstAndLast
  <2>2. \A i \in all : IsRemoved(i) <=> i = first
    <3> SUFFICES ASSUME NEW i \in all PROVE IsRemoved(i) <=> i = first
      OBVIOUS
    <3>1. i \in DOMAIN report /\ first \in DOMAIN report /\ i \in Nat /\ first \in Nat /\ 0 < first
          /\ DOMAIN report = 1..Len(report) /\ Len(report) \in Nat
          /\ report[i].name = n /\ report[first].name = n
      BY <1>2
    <3>2. i # first => first \in 1..(i - 1)
      BY <2>1, <3>1
    <3>3. i # first => ~IsRemoved(i)
      BY <3>1, <3>2 DEF IsRemoved
    <3>4. \A j \in 1..(first - 1) : report[j].name # n
      <4> SUFFICES ASSUME NEW j \in 1..(first - 1), report[j].name = n PROVE FALSE
        OBVIOUS
      <4>1. j \in DOMAIN report /\ ~(first <= j)
        BY <3>1
      <4> QED
        BY <2>1, <4>1
    <3>5. IsRemoved(first)
      BY <1>6, <3>1, <3>4 DEF IsRemoved
    <3> QED
      BY <3>3, <3>5
  <2>3. rest = all \ {first}
    BY <2>2
  <2>4. Cardinality(rest) = Cardinality(all) - 1
    <3> HIDE DEF rest, all
    <3> QED
      BY <1>3, <2>1, <2>3, FS_RemoveElement
  <2> QED
    BY <1>2, <1>4, <1>6, <2>4, NamesOfTests
<1> QED
  BY <1>5, <1>6

(* The status of a test that is there is that of one of its test cases.    *)
StatusIsOfOne(tests, n) ==
  \E i \in DOMAIN tests : tests[i].name = n /\ (Status(tests, n) = "OK" <=> tests[i].tags = Passed)

LEMMA StatusOfTest ==
  ASSUME NEW tests \in Seq(Cases), NEW n \in ToSet(Names(tests))
  PROVE  StatusIsOfOne(tests, n)
<1> DEFINE S == {i \in DOMAIN tests : tests[i].name = n}
           IsLast(i) == tests[i].name = n /\ \A j \in DOMAIN tests : tests[j].name = n => j <= i
           last == CHOOSE i \in DOMAIN tests : IsLast(i)
<1>1. S \in SUBSET DOMAIN tests /\ S # {}
  BY NamesOfTests
<1>2. IsFiniteSet(S) /\ S \subseteq Nat
  BY <1>1, PlacesAreFinite
<1>3. \E i \in S : \A j \in S : j <= i
  <2> HIDE DEF S
  <2> QED
    BY <1>1, <1>2, FirstAndLast
<1>4. \E i \in DOMAIN tests : IsLast(i)
  BY <1>3
<1>5. last \in DOMAIN tests /\ tests[last].name = n
  BY <1>4
<1>6. Status(tests, n) = IF tests[last].tags = Passed THEN "OK" ELSE Head(tests[last].tags)
  BY DEF Status
<1> HIDE DEF last
<1>7. tests[last].tags \in Seq(Tags)
  <2>1. tests[last] \in Cases
    BY <1>5
  <2> QED
    BY <2>1, CaseFields
<1>8. tests[last].tags # Passed => Head(tests[last].tags) # "OK"
  <2>1. tests[last].tags # <<>> => Head(tests[last].tags) \in Tags
    BY <1>7
  <2> QED
    BY <2>1, ReportAssumption DEF ReportAssumption, Passed
<1> QED
  BY <1>5, <1>6, <1>8 DEF StatusIsOfOne

-----------------------------------------------------------------------------
(* The invariants.  The types come first; the lists are read without empty *)
(* lines.                                                                  *)
Steps == {"load", "errors", "append", "skip", "check", "remove", "diff", "done", "raised"}

TypesInv == ReportTypes /\ step \in Steps

LEMMA TypesInit == ReportInit => TypesInv
<1>1. \A S : <<>> \in Seq(S)
  OBVIOUS
<1> DEFINE CaseSeqs == Seq(Cases)
<1>2. RawReports \subseteq CaseSeqs /\ OldReports \subseteq CaseSeqs /\ <<>> \in CaseSeqs
  BY <1>1, ReportAssumption DEF ReportAssumption
<1> HIDE DEF CaseSeqs
<1>3. ReportInit => raw \in CaseSeqs /\ old \in CaseSeqs /\ report \in CaseSeqs
  BY <1>2 DEF ReportInit
<1>4. ReportInit => /\ fullList \in Seq(STRING) /\ unitTests \in Seq(STRING)
                    /\ \A i \in DOMAIN fullList : fullList[i] # NoName
  BY ReportAssumption DEF ReportInit, ReportAssumption
<1> QED
  BY <1>3, <1>4 DEF ReportInit, TypesInv, ReportTypes, Steps, CaseSeqs

LEMMA TypesInductive == TypesInv /\ [ReportNext]_reportVars => TypesInv'
<1> SUFFICES ASSUME TypesInv, [ReportNext]_reportVars PROVE TypesInv'
  OBVIOUS
<1> USE DEF TypesInv
<1>a. ASSUME UNCHANGED inputs, report' \in Seq(Cases) PROVE ReportTypes'
  BY <1>a DEF inputs, ReportTypes
<1>b. report \in Seq(Cases) /\ raw \in Seq(Cases)
  BY DEF ReportTypes
<1>0. CASE LoadReport
  BY <1>0, <1>a, <1>b DEF LoadReport, Steps
<1>1. CASE ChangeErrors
  BY <1>1, <1>a, ChangeErrorsKeeps DEF ChangeErrors, Steps
<1>2. CASE AppendNotStarted
  <2>1. step' # "raised" => report' \in Seq(Cases)
    BY <1>2, AppendCompletes
  <2>2. UNCHANGED inputs /\ step' \in {"skip", "raised"} /\ (step' = "raised" => UNCHANGED report)
    BY <1>2 DEF AppendNotStarted
  <2> QED
    BY <1>a, <1>b, <2>1, <2>2 DEF Steps
<1>3. CASE SkipTicketed
  BY <1>3, <1>a, SkipTicketedKeeps DEF SkipTicketed, Steps
<1>4. CASE CheckList
  BY <1>4, <1>a, <1>b DEF CheckList, Steps
<1>5. CASE RemoveUnitTests
  BY <1>5, <1>a, RemoveKeeps DEF RemoveUnitTests, Steps
<1>6. CASE Diff
  BY <1>6, <1>a, <1>b DEF Diff, Steps
<1>7. CASE UNCHANGED reportVars
  BY <1>7, <1>a, <1>b DEF reportVars, inputs
<1> QED
  BY <1>0, <1>1, <1>2, <1>3, <1>4, <1>5, <1>6, <1>7 DEF ReportNext

(* A pass was earned from the start, and once the tickets are applied it   *)
(* has none.                                                               *)
Ran(n) == \E j \in DOMAIN raw : raw[j].name = n /\ raw[j].tags = Passed

EarnedInv ==
  \A i \in DOMAIN report :
    report[i].tags = Passed =>
      /\ step \in {"check", "remove", "diff", "done"} => report[i].name \notin ticketed
      /\ Ran(report[i].name)

LEMMA EarnedInductive == TypesInv /\ EarnedInv /\ [ReportNext]_reportVars => EarnedInv'
<1> SUFFICES ASSUME TypesInv, EarnedInv, [ReportNext]_reportVars PROVE EarnedInv'
  OBVIOUS
<1> USE DEF TypesInv
<1>a. UNCHANGED inputs
  BY DEF ReportNext, LoadReport, ChangeErrors, AppendNotStarted, SkipTicketed, CheckList, RemoveUnitTests,
         Diff, reportVars, inputs
<1>b. ticketed' = ticketed /\ \A n : Ran(n)' <=> Ran(n)
  BY <1>a DEF inputs, Ran
<1>0. CASE LoadReport
  BY <1>0, <1>b DEF LoadReport, EarnedInv, Ran
<1>1. CASE ChangeErrors
  BY <1>1, <1>b, ChangeErrorsKeeps DEF ChangeErrors, EarnedInv
<1>2. CASE AppendNotStarted
  <2>1. CASE step' = "raised"
    BY <1>2, <1>b, <2>1 DEF AppendNotStarted, EarnedInv
  <2>2. CASE step' # "raised"
    BY <1>2, <1>b, <2>2, AppendCompletes DEF EarnedInv
  <2> QED
    BY <2>1, <2>2
<1>3. CASE SkipTicketed
  BY <1>3, <1>b, SkipTicketedKeeps DEF EarnedInv
<1>4. CASE CheckList
  BY <1>4, <1>b DEF CheckList, EarnedInv
<1>5. CASE RemoveUnitTests
  <2>1. step = "remove" /\ \A k \in DOMAIN report' : \E i \in DOMAIN report : report'[k] = report[i]
    BY <1>5, RemoveKeeps DEF RemoveUnitTests
  <2> QED
    BY <1>b, <2>1 DEF EarnedInv
<1>6. CASE Diff
  BY <1>6, <1>b DEF Diff, EarnedInv
<1>7. CASE UNCHANGED reportVars
  BY <1>7, <1>b DEF reportVars, EarnedInv
<1> QED
  BY <1>0, <1>1, <1>2, <1>3, <1>4, <1>5, <1>6, <1>7 DEF ReportNext

(* A test passes in the result only if it ran and passed, and no ticket    *)
(* names it: for any reports, lists and tickets.                           *)
THEOREM NoPassIsMadeUp == ReportSpec => []PassesAreEarned
<1>1. ReportInit => EarnedInv
  BY DEF ReportInit, EarnedInv, Ran
<1>2. EarnedInv => PassesAreEarned
  BY DEF EarnedInv, Ran, PassesAreEarned
<1> QED
  BY <1>1, <1>2, TypesInit, TypesInductive, EarnedInductive, PTL DEF ReportSpec

-----------------------------------------------------------------------------
(* Once the missing tests are added the whole list is there, and only unit *)
(* tests go.                                                               *)
Listed == {FullName(n) : n \in ToSet(fullList)}
Has(n) == \E i \in DOMAIN report : report[i].name = n

SeenInv ==
  /\ step \in {"skip", "check", "remove"} => \A n \in Listed : Has(n)
  /\ step \in {"diff", "done"} => \A n \in Listed \ ToSet(unitTests) : Has(n)

LEMMA SeenInductive == TypesInv /\ SeenInv /\ [ReportNext]_reportVars => SeenInv'
<1> SUFFICES ASSUME TypesInv, SeenInv, [ReportNext]_reportVars PROVE SeenInv'
  OBVIOUS
<1> USE DEF TypesInv
<1>a. fullList' = fullList /\ unitTests' = unitTests /\ Listed' = Listed
  BY DEF Listed, ReportNext, LoadReport, ChangeErrors, AppendNotStarted, SkipTicketed, CheckList, RemoveUnitTests,
         Diff, reportVars, inputs
<1>0. CASE LoadReport
  BY <1>0 DEF LoadReport, SeenInv
<1>1. CASE ChangeErrors
  BY <1>1 DEF ChangeErrors, SeenInv
<1>2. CASE AppendNotStarted
  <2>1. CASE step' = "raised"
    BY <2>1 DEF SeenInv
  <2>2. CASE step' # "raised"
    <3>1. /\ step' = "skip"
          /\ \A p \in DOMAIN fullList :
               \E i \in DOMAIN report' : report'[i].name = FullName(fullList[p])
      BY <1>2, <2>2, AppendCompletes
    <3>2. \A n \in Listed : \E i \in DOMAIN report' : report'[i].name = n
      BY <3>1 DEF Listed, ToSet
    <3> QED
      BY <1>a, <3>1, <3>2 DEF SeenInv, Has
  <2> QED
    BY <2>1, <2>2
<1>3. CASE SkipTicketed
  <2>1. step = "skip" /\ step' = "check" /\ \A n : Has(n) => Has(n)'
    BY <1>3, SkipTicketedKeeps DEF SkipTicketed, Has
  <2> QED
    BY <1>a, <2>1 DEF SeenInv
<1>4. CASE CheckList
  BY <1>4, <1>a DEF CheckList, SeenInv, Has
<1>5. CASE RemoveUnitTests
  <2>1. step = "remove" /\ step' \in {"diff", "raised"}
    BY <1>5, RemoveKeeps DEF RemoveUnitTests
  <2>2. \A n : Has(n) /\ n \notin ToSet(unitTests) => Has(n)'
    BY <1>5, RemoveKeeps DEF Has
  <2> QED
    BY <1>a, <2>1, <2>2 DEF SeenInv
<1>6. CASE Diff
  BY <1>6, <1>a DEF Diff, SeenInv, Has
<1>7. CASE UNCHANGED reportVars
  BY <1>7, <1>a DEF reportVars, SeenInv, Has
<1> QED
  BY <1>0, <1>1, <1>2, <1>3, <1>4, <1>5, <1>6, <1>7 DEF ReportNext

(* With consistent lists and without, no test of the full list is missing  *)
(* in the result but the unit tests.                                       *)
THEOREM NoTestIsLost == ReportSpec => []NoTestDisappears
<1>1. ReportInit => SeenInv
  BY DEF ReportInit, SeenInv
<1>2. TypesInv /\ SeenInv => NoTestDisappears
  <2> SUFFICES ASSUME ReportTypes, SeenInv, step = "done"
               PROVE  Listed \ ToSet(unitTests) \subseteq ToSet(Names(report))
    BY DEF TypesInv, NoTestDisappears, Listed
  <2>1. report \in Seq(Cases) /\ \A n \in Listed \ ToSet(unitTests) : Has(n)
    BY DEF ReportTypes, SeenInv
  <2> QED
    BY <2>1, NamesOfTests DEF Has
<1> QED
  BY <1>1, <1>2, TypesInit, TypesInductive, SeenInductive, PTL DEF ReportSpec

-----------------------------------------------------------------------------
(* With consistent lists: a report whose test cases are all on the full    *)
(* list has none without a name, so what _check_test_list_equals accepts   *)
(* has exactly the tests of the list.                                      *)
IsExact ==
  \A n \in ToSet(Names(report)) \cup ToSet(fullList) \cup ToSet(unitTests) :
    Times(Names(report), n) = Times(fullList, n) - (IF n \in ToSet(unitTests) THEN 1 ELSE 0)

ExactInv ==
  ~flags.inconsistent =>
    /\ step \in {"skip", "check", "remove"} => NoName \notin ToSet(Names(report))
    /\ step = "remove" => IsFullList(report)
    /\ step \in {"diff", "done"} => IsExact

LEMMA AppendedAreNamed ==
  ASSUME ReportTypes, AppendNotStarted, step' # "raised", ~flags.inconsistent
  PROVE  NoName \notin ToSet(Names(report'))
<1>1. /\ AllListed(report, fullList) /\ report' \in Seq(Cases)
      /\ \A i \in DOMAIN report' : \/ i \in DOMAIN report /\ report'[i] = report[i]
                                   \/ report'[i].name # NoName
  BY AppendCompletes
<1>2. report \in Seq(Cases) /\ fullList \in Seq(STRING) /\ \A p \in DOMAIN fullList : fullList[p] # NoName
  BY DEF ReportTypes
<1>3. NoName \notin ToSet(fullList)
  BY <1>2 DEF ToSet
<1>4. ASSUME NEW i \in DOMAIN report PROVE report[i].name \in ToSet(fullList)
  <2> DEFINE n == report[i].name
  <2>1. n \in ToSet(Names(report))
    BY <1>2, NamesOfTests
  <2>2. Times(Names(report), n) <= Times(fullList, n)
    BY <1>1, <2>1 DEF AllListed
  <2>3. Len(Names(report)) \in Nat /\ DOMAIN Names(report) = 1..Len(Names(report))
    BY <1>2, NamesOfTests
  <2>4. \E k \in DOMAIN Names(report) : Names(report)[k] = n
    BY <2>1 DEF ToSet
  <2> HIDE DEF n
  <2>5. Times(Names(report), n) \in Nat /\ Times(Names(report), n) > 0
    BY <2>3, <2>4, TimesPositive
  <2>6. Len(fullList) \in Nat /\ DOMAIN fullList = 1..Len(fullList)
    BY <1>2
  <2>7. Times(fullList, n) \in Nat /\ (Times(fullList, n) > 0 <=> \E p \in DOMAIN fullList : fullList[p] = n)
    BY <2>6, TimesPositive
  <2>8. \E p \in DOMAIN fullList : fullList[p] = n
    BY <2>2, <2>5, <2>7
  <2> QED
    BY <2>8 DEF ToSet, n
<1>5. \A i \in DOMAIN report' : report'[i].name # NoName
  BY <1>1, <1>3, <1>4
<1> QED
  BY <1>1, <1>5, NamesOfTests

LEMMA RemovalIsExact ==
  ASSUME ReportTypes, RemoveUnitTests, step' = "diff", ~flags.inconsistent,
         NoName \notin ToSet(Names(report)), IsFullList(report)
  PROVE  IsExact'
<1>1. /\ report' \in Seq(Cases) /\ ToSet(unitTests) \subseteq ToSet(Names(report))
      /\ \A k \in DOMAIN report' : \E i \in DOMAIN report : report'[k] = report[i]
  BY RemoveKeeps
<1>2. report \in Seq(Cases) /\ fullList \in Seq(STRING) /\ fullList' = fullList /\ unitTests' = unitTests
  BY DEF ReportTypes, RemoveUnitTests, inputs
<1>3. ToSet(Names(report')) \subseteq ToSet(Names(report))
  BY <1>1, <1>2, NamesOfTests
<1>4. ASSUME NEW n \in ToSet(Names(report))
      PROVE  Times(Names(report'), n) =
               Times(fullList, n) - (IF n \in ToSet(unitTests) THEN 1 ELSE 0)
  <2>1. n \in TestNames(report)
    BY <1>4 DEF TestNames
  <2>2. Times(Names(report), n) = Times(fullList, n)
    BY <2>1 DEF IsFullList
  <2> QED
    BY <2>2, RemoveCounts
<1>5. ToSet(fullList) \subseteq ToSet(Names(report))
  <2> SUFFICES ASSUME NEW n \in ToSet(fullList) PROVE n \in ToSet(Names(report))
    OBVIOUS
  <2>1. Len(fullList) \in Nat /\ DOMAIN fullList = 1..Len(fullList) /\ \E p \in DOMAIN fullList : fullList[p] = n
    BY <1>2 DEF ToSet
  <2>2. Times(fullList, n) \in Nat /\ Times(fullList, n) > 0
    BY <2>1, TimesPositive
  <2>3. Times(Names(report), n) = Times(fullList, n)
    BY DEF IsFullList
  <2>4. Len(Names(report)) \in Nat /\ DOMAIN Names(report) = 1..Len(Names(report))
    BY <1>2, NamesOfTests
  <2>5. \E i \in DOMAIN Names(report) : Names(report)[i] = n
    BY <2>2, <2>3, <2>4, TimesPositive
  <2> QED
    BY <2>5 DEF ToSet
<1> QED
  BY <1>1, <1>2, <1>3, <1>4, <1>5 DEF IsExact

LEMMA ExactInductive == TypesInv /\ ExactInv /\ [ReportNext]_reportVars => ExactInv'
<1> SUFFICES ASSUME TypesInv, ExactInv, [ReportNext]_reportVars, ~flags.inconsistent
             PROVE  ExactInv'
  <2>1. [ReportNext]_reportVars => flags' = flags
    BY DEF ReportNext, LoadReport, ChangeErrors, AppendNotStarted, SkipTicketed, CheckList, RemoveUnitTests,
           Diff, reportVars, inputs
  <2> QED
    BY <2>1 DEF ExactInv
<1> USE DEF TypesInv
<1>a. fullList' = fullList /\ unitTests' = unitTests /\ flags' = flags
  BY DEF ReportNext, LoadReport, ChangeErrors, AppendNotStarted, SkipTicketed, CheckList, RemoveUnitTests,
         Diff, reportVars, inputs
<1>0. CASE LoadReport
  BY <1>0 DEF LoadReport, ExactInv
<1>1. CASE ChangeErrors
  BY <1>1 DEF ChangeErrors, ExactInv
<1>2. CASE AppendNotStarted
  <2>1. step' \in {"skip", "raised"}
    BY <1>2 DEF AppendNotStarted
  <2> QED
    BY <1>2, <2>1, AppendedAreNamed DEF ExactInv
<1>3. CASE SkipTicketed
  <2>1. /\ step = "skip" /\ step' = "check" /\ report' \in Seq(Cases) /\ DOMAIN report' = DOMAIN report
        /\ \A i \in DOMAIN report : report'[i].name = report[i].name
    BY <1>3, SkipTicketedKeeps DEF SkipTicketed
  <2>2. report \in Seq(Cases) /\ NoName \notin ToSet(Names(report))
    BY <2>1 DEF ReportTypes, ExactInv
  <2>3. NoName \notin ToSet(Names(report'))
    BY <2>1, <2>2, NamesOfTests
  <2> QED
    BY <2>1, <2>3 DEF ExactInv
<1>4. CASE CheckList
  <2>1. step = "check" /\ report' = report /\ step' \in {"raised", "remove"}
        /\ (step' = "remove" => IsFullList(report))
    BY <1>4 DEF CheckList
  <2>2. IsFullList(report) => IsFullList(report)'
    BY <1>a, <2>1 DEF IsFullList
  <2> QED
    BY <2>1, <2>2 DEF ExactInv
<1>5. CASE RemoveUnitTests
  <2>1. step = "remove" /\ step' \in {"diff", "raised"}
    BY <1>5, RemoveKeeps DEF RemoveUnitTests
  <2>2. step' = "diff" => IsExact'
    BY <1>5, <2>1, RemovalIsExact DEF ExactInv
  <2> QED
    BY <2>1, <2>2 DEF ExactInv
<1>6. CASE Diff
  <2>1. step = "diff" /\ step' \in {"done", "raised"} /\ report' = report
    BY <1>6 DEF Diff
  <2>2. IsExact => IsExact'
    BY <1>a, <2>1 DEF IsExact
  <2> QED
    BY <2>1, <2>2 DEF ExactInv
<1>7. CASE UNCHANGED reportVars
  <2>1. step' = step /\ report' = report
    BY <1>7 DEF reportVars
  <2>2. (IsFullList(report) => IsFullList(report)') /\ (IsExact => IsExact')
    BY <1>a, <2>1 DEF IsFullList, IsExact
  <2> QED
    BY <2>1, <2>2 DEF ExactInv
<1> QED
  BY <1>0, <1>1, <1>2, <1>3, <1>4, <1>5, <1>6, <1>7 DEF ReportNext

(* A report that is accepted with consistent lists has each test of the    *)
(* full list as often as the list has it, a unit test once less, and       *)
(* nothing else.                                                           *)
THEOREM ResultIsExact == ReportSpec => []ResultIsFullList
<1>1. ReportInit => ExactInv
  BY DEF ReportInit, ExactInv
<1>2. ExactInv => ResultIsFullList
  BY DEF ExactInv, IsExact, ResultIsFullList
<1> QED
  BY <1>1, <1>2, TypesInit, TypesInductive, ExactInductive, PTL DEF ReportSpec

-----------------------------------------------------------------------------
(* The comparison looks at the last test case of each name, and at the     *)
(* names of both reports.                                                  *)
LEMMA DiffSeesRegressions ==
  ASSUME ReportTypes, Diff, step' = "done", NEW n \in ToSet(Names(old)),
         \A i \in DOMAIN old : old[i].name = n => old[i].tags = Passed,
         \A i \in DOMAIN report : report[i].name = n => report[i].tags # Passed
  PROVE  exitCode' = 1
<1>1. old \in Seq(Cases) /\ report \in Seq(Cases)
  BY DEF ReportTypes
<1>2. Status(old, n) = "OK"
  <2>1. StatusIsOfOne(old, n)
    BY <1>1, StatusOfTest
  <2> QED
    BY <2>1 DEF StatusIsOfOne
<1>3. Status(report, n) # "OK"
  <2>1. CASE n \in ToSet(Names(report))
    <3>1. StatusIsOfOne(report, n)
      BY <1>1, <2>1, StatusOfTest
    <3> QED
      BY <3>1 DEF StatusIsOfOne
  <2>2. CASE n \notin ToSet(Names(report))
    BY <2>2 DEF Status
  <2> QED
    BY <2>1, <2>2
<1>4. n \in Compared(old, report)
  BY DEF Compared
<1> QED
  BY <1>2, <1>3, <1>4 DEF Diff, IsBroken

LEMMA RegressionsInductive ==
  TypesInv /\ RegressionsFail /\ [ReportNext]_reportVars => RegressionsFail'
<1> SUFFICES ASSUME TypesInv, RegressionsFail, [ReportNext]_reportVars, step' = "done"
             PROVE  RegressionsFail'
  BY DEF RegressionsFail
<1>1. CASE Diff
  <2>1. old' = old /\ report' = report
    BY <1>1 DEF Diff, inputs
  <2> QED
    BY <1>1, <2>1, DiffSeesRegressions DEF RegressionsFail, TypesInv
<1>2. CASE UNCHANGED reportVars
  BY <1>2 DEF RegressionsFail, reportVars
<1>3. Diff \/ UNCHANGED reportVars
  <2>1. RemoveUnitTests => step' # "done"
    BY DEF RemoveUnitTests
  <2> QED
    BY <2>1 DEF ReportNext, LoadReport, ChangeErrors, AppendNotStarted, SkipTicketed, CheckList
<1> QED
  BY <1>1, <1>2, <1>3

(* report-diff fails whenever a test that passed in the old report fails,  *)
(* is skipped or is missing in the new one.                                *)
THEOREM RegressionsAreReported == ReportSpec => []RegressionsFail
<1>1. ReportInit => RegressionsFail
  BY DEF ReportInit, RegressionsFail
<1> QED
  BY <1>1, TypesInit, TypesInductive, RegressionsInductive, PTL DEF ReportSpec
=============================================================================
