-------------------------- MODULE CheckQueriesProofs --------------------------
(***************************************************************************)
(* Proofs about CheckQueries, for any log, any answers of the database,    *)
(* any rules, any number of checkers and drivers and any flags; first, of  *)
(* what the counting operators of QueryStats do to the reference tally.    *)
(***************************************************************************)
EXTENDS CheckQueries, YdbPoolProofs

(* Any part of the log is a finite set of positions. *)
LEMMA PositionsFinite ==
  /\ Positions = 1..Len(Input)
  /\ \A S \in SUBSET Positions : IsFiniteSet(S) /\ Cardinality(S) \in Nat
<1>1. Positions = 1..Len(Input) /\ Len(Input) \in Nat
  BY QueryStatsAssumption DEF Positions
<1>2. IsFiniteSet(Positions)
  BY <1>1, FS_Interval
<1> QED
  BY <1>1, <1>2, FS_Subset, FS_CardinalityType

(* Queries have lengths. *)
LEMMA LengthType == \A i \in Positions : QueryLen[Input[i]] \in Nat
  BY QueryStatsAssumption DEF Positions

(* "after" is "before" with a first verdict on the query at i. *)
Adds(before, after, i) ==
  /\ i \in Positions
  /\ before[i].kind = "none"
  /\ after[i].kind \in Kinds
  /\ \A j \in Positions \ {i} : after[j] = before[j]

(* What a new verdict adds to the sets of positions. *)
LEMMA NewVerdict ==
  ASSUME NEW before, NEW after, NEW i, Adds(before, after, i)
  PROVE  /\ i \notin Counted(before) /\ Counted(after) = Counted(before) \cup {i}
         /\ \A kind \in Kinds :
              /\ i \notin OfKind(before, kind)
              /\ after[i].kind = kind => OfKind(after, kind) = OfKind(before, kind) \cup {i}
              /\ after[i].kind # kind => OfKind(after, kind) = OfKind(before, kind)
<1>1. i \notin Counted(before) /\ Counted(after) = Counted(before) \cup {i}
  BY DEF Adds, Counted, Kinds
<1>2. ASSUME NEW kind \in Kinds
      PROVE  /\ i \notin OfKind(before, kind)
             /\ after[i].kind = kind => OfKind(after, kind) = OfKind(before, kind) \cup {i}
             /\ after[i].kind # kind => OfKind(after, kind) = OfKind(before, kind)
  BY DEF Adds, OfKind, Kinds
<1> QED
  BY <1>1, <1>2

(* The size of a set of positions grows by one with a new position. *)
LEMMA OneMore ==
  ASSUME NEW S \in SUBSET Positions, NEW i \in Positions \ S
  PROVE  Cardinality(S \cup {i}) = Cardinality(S) + 1
  BY PositionsFinite, FS_AddElement

(* Counting a verdict of another kind leaves the table of this kind right. *)
LEMMA OtherKindKeepsTable ==
  ASSUME NEW before, NEW after, NEW i, Adds(before, after, i),
         NEW kind \in Kinds, after[i].kind # kind,
         NEW table, IsTable(table, before, kind)
  PROVE  IsTable(table, after, kind)
<1>1. OfKind(after, kind) = OfKind(before, kind) /\ i \notin OfKind(before, kind)
  BY NewVerdict
<1>2. \A j \in OfKind(before, kind) : after[j] = before[j]
  BY <1>1 DEF Adds, OfKind
<1>3. \A key : OfKey(after, kind, key) = OfKey(before, kind, key)
  BY <1>1, <1>2 DEF OfKey
<1>4. {after[j].key : j \in OfKind(after, kind)} = {before[j].key : j \in OfKind(before, kind)}
  BY <1>1, <1>2
<1> QED
  BY <1>3, <1>4 DEF IsTable

(* Bump is the table of the log with one more verdict of its kind. *)
LEMMA BumpKeepsTable ==
  ASSUME NEW before, NEW after, NEW i, Adds(before, after, i),
         NEW kind \in Kinds, after[i].kind = kind,
         NEW table, IsTable(table, before, kind)
  PROVE  IsTable(Bump(table, after[i].key, Input[i]), after, kind)
<1> DEFINE key == after[i].key
           new == Bump(table, key, Input[i])
<1>1. OfKind(after, kind) = OfKind(before, kind) \cup {i} /\ i \notin OfKind(before, kind)
  BY NewVerdict
<1>2. \A j \in OfKind(before, kind) : after[j] = before[j]
  BY <1>1 DEF Adds, OfKind
<1>3. DOMAIN new = {after[j].key : j \in OfKind(after, kind)}
  <2>1. DOMAIN new = {before[j].key : j \in OfKind(before, kind)} \cup {key}
    BY DEF Bump, IsTable
  <2> QED
    BY <1>1, <1>2, <2>1
<1>4. ASSUME NEW k \in DOMAIN new, k # key
      PROVE  OfKey(after, kind, k) = OfKey(before, kind, k) /\ k \in DOMAIN table /\ new[k] = table[k]
  <2>1. OfKey(after, kind, k) = OfKey(before, kind, k)
    BY <1>1, <1>2, <1>4 DEF OfKey
  <2> QED
    BY <1>4, <2>1 DEF Bump
<1>5. /\ OfKey(after, kind, key) = OfKey(before, kind, key) \cup {i}
      /\ i \notin OfKey(before, kind, key)
      /\ OfKey(before, kind, key) \subseteq Positions
      /\ i \in Positions
  BY <1>1, <1>2 DEF OfKey, OfKind, Adds
<1>6. Cardinality(OfKey(after, kind, key)) = Cardinality(OfKey(before, kind, key)) + 1
  BY <1>5, OneMore
<1>7. new[key] = Entry(table, key, Input[i])
  BY DEF Bump
<1>8. /\ new[key].count = Cardinality(OfKey(after, kind, key))
      /\ \E j \in OfKey(after, kind, key) : new[key].example = Input[j]
      /\ \A j \in OfKey(after, kind, key) : QueryLen[new[key].example] <= QueryLen[Input[j]]
  <2>1. CASE key \in DOMAIN table
    <3>1. /\ table[key].count = Cardinality(OfKey(before, kind, key))
          /\ \E j \in OfKey(before, kind, key) : table[key].example = Input[j]
          /\ \A j \in OfKey(before, kind, key) : QueryLen[table[key].example] <= QueryLen[Input[j]]
      BY <2>1 DEF IsTable
    <3>2. /\ new[key].count = table[key].count + 1
          /\ new[key].example = Shorter(Input[i], table[key].example)
      BY <1>7, <2>1 DEF Entry
    <3>3. \A j \in OfKey(after, kind, key) : QueryLen[Input[j]] \in Nat
      BY <1>5, LengthType
    <3> QED
      BY <1>5, <1>6, <3>1, <3>2, <3>3 DEF Shorter
  <2>2. CASE key \notin DOMAIN table
    <3>1. new[key].count = 1 /\ new[key].example = Input[i]
      BY <1>7, <2>2 DEF Entry
    <3>2. OfKey(before, kind, key) = {}
      BY <2>2 DEF IsTable, OfKey
    <3> QED
      BY <1>5, <1>6, <3>1, <3>2, FS_EmptySet, LengthType
  <2> QED
    BY <2>1, <2>2
<1>9. ASSUME NEW k \in DOMAIN new
      PROVE  /\ new[k].count = Cardinality(OfKey(after, kind, k))
             /\ \E j \in OfKey(after, kind, k) : new[k].example = Input[j]
             /\ \A j \in OfKey(after, kind, k) : QueryLen[new[k].example] <= QueryLen[Input[j]]
  <2>1. CASE k = key
    BY <1>8, <2>1
  <2>2. CASE k # key
    <3> HIDE DEF new
    <3> QED
      BY <1>4, <2>2 DEF IsTable
  <2> QED
    BY <2>1, <2>2
<1> HIDE DEF new
<1>10. IsTable(new, after, kind)
  BY <1>3, <1>9 DEF IsTable
<1> QED
  BY <1>10 DEF new

(* The counters that CountASOK, CountAsKnown and CountAsUnknown touch. *)
CountedStats(s, v, q) ==
  [total   |-> s.total + 1,
   ok      |-> IF v.kind = "ok" THEN s.ok + 1 ELSE s.ok,
   known   |-> IF v.kind = "known" THEN Bump(s.known, v.key, q) ELSE s.known,
   unknown |-> IF v.kind = "unknown" THEN Bump(s.unknown, v.key, q) ELSE s.unknown]

(* A record with the fields of the counters. *)
IsRecord(s) ==
  s = [total |-> s.total, ok |-> s.ok, known |-> s.known, unknown |-> s.unknown]

(* The three Count operators in one. *)
LEMMA CountUnfolded ==
  ASSUME NEW s, IsRecord(s), NEW v, v.kind \in Kinds, NEW q
  PROVE  Count(s, v, q) = CountedStats(s, v, q) /\ IsRecord(Count(s, v, q))
<1>1. CASE v.kind = "ok"
  BY <1>1 DEF IsRecord, Count, CountASOK, CountedStats
<1>2. CASE v.kind = "known"
  BY <1>2 DEF IsRecord, Count, CountAsKnown, CountedStats
<1>3. CASE v.kind = "unknown"
  BY <1>3 DEF IsRecord, Count, CountAsUnknown, CountedStats
<1> QED
  BY <1>1, <1>2, <1>3 DEF Kinds

(* Counting a verdict, whichever it is, takes the tally of the log so far  *)
(* to the tally of the log with that verdict: no counter is missed, none   *)
(* is bumped twice, and the examples stay shortest.                        *)
THEOREM CountKeepsTally ==
  ASSUME NEW before, NEW after, NEW i, Adds(before, after, i),
         NEW s, IsRecord(s), IsTally(s, before)
  PROVE  IsTally(Count(s, after[i], Input[i]), after)
<1> DEFINE v == after[i]
           t == CountedStats(s, v, Input[i])
<1>1. v.kind \in Kinds /\ i \in Positions
  BY DEF Adds
<1>2. Count(s, v, Input[i]) = t
  BY <1>1, CountUnfolded
<1>3. t.total = Cardinality(Counted(after))
  <2>1. Counted(before) \subseteq Positions
    BY DEF Counted
  <2> QED
    BY <1>1, <2>1, NewVerdict, OneMore DEF IsTally, CountedStats
<1>4. t.ok = Cardinality(OfKind(after, "ok"))
  <2>1. OfKind(before, "ok") \subseteq Positions /\ "ok" \in Kinds
    BY DEF OfKind, Kinds
  <2> QED
    BY <1>1, <2>1, NewVerdict, OneMore DEF IsTally, CountedStats
<1>5. IsTable(t.known, after, "known")
  <2>1. CASE v.kind = "known"
    BY <2>1, BumpKeepsTable DEF IsTally, CountedStats, Kinds
  <2>2. CASE v.kind # "known"
    BY <2>2, OtherKindKeepsTable DEF IsTally, CountedStats, Kinds
  <2> QED
    BY <2>1, <2>2
<1>6. IsTable(t.unknown, after, "unknown")
  <2>1. CASE v.kind = "unknown"
    BY <2>1, BumpKeepsTable DEF IsTally, CountedStats, Kinds
  <2>2. CASE v.kind # "unknown"
    BY <2>2, OtherKindKeepsTable DEF IsTally, CountedStats, Kinds
  <2> QED
    BY <2>1, <2>2
<1> QED
  BY <1>2, <1>3, <1>4, <1>5, <1>6 DEF IsTally

(* Before the first query the empty counters are the tally. *)
LEMMA EmptyTally == IsTally(EmptyStats, [i \in Positions |-> NoOutcome])
<1> DEFINE none == [i \in Positions |-> NoOutcome]
<1>1. \A i \in Positions : none[i].kind = "none"
  BY DEF NoOutcome
<1> HIDE DEF none
<1>2. Counted(none) = {} /\ \A kind \in Kinds : OfKind(none, kind) = {}
  BY <1>1 DEF Counted, OfKind, Kinds
<1>3. ASSUME NEW kind \in Kinds PROVE IsTable(EmptyTable, none, kind)
  BY <1>2 DEF IsTable, EmptyTable
<1> QED
  BY <1>2, <1>3, FS_EmptySet DEF IsTally, EmptyStats, Kinds, none
-----------------------------------------------------------------------------
(* Nobody moves: a stutter, the end of the command, or a panic. *)
Idle == UNCHANGED <<poolVars, checkVars, statVars, ruleVars>>

LEMMA StepCases ==
  [Next]_vars => \/ \E c \in Checkers : Check(c)
                 \/ \E p \in Procs : Write(p)
                 \/ WaitForCheckers
                 \/ Idle
  BY DEF Next, Panic, Exited, Idle, vars

(* A step of the command is a step of the pool or leaves the pool alone. *)
LEMMA StepUsesPool == [Next]_vars => [PoolNext]_poolVars
<1> SUFFICES ASSUME [Next]_vars PROVE [PoolNext]_poolVars
  OBVIOUS
<1>1. ASSUME NEW c \in Checkers, Check(c) PROVE [PoolNext]_poolVars
  <2>1. CASE GetDriver(c)
    BY <2>1 DEF GetDriver, PoolNext, Checkers
  <2>2. CASE ReleaseDriver(c)
    BY <2>2 DEF ReleaseDriver, PoolNext, Checkers
  <2>3. CASE Receive(c) \/ Leave(c) \/ Execute(c) \/ Match(c) \/ CountVerdict(c)
               \/ Tick(c) \/ Lock(c) \/ Unlock(c)
    BY <2>3 DEF Receive, Leave, Execute, Match, CountVerdict, Tick, Lock, Unlock, poolVars
  <2> QED
    BY <1>1, <2>1, <2>2, <2>3 DEF Check
<1>2. ASSUME NEW p \in Procs, Write(p) PROVE UNCHANGED poolVars
  BY <1>2 DEF Write, SaveCounts, SaveLists, CreateStatFile, EncodeStat, UpdateTotal,
              UpdateOk, UpdatePercent, UpdateIssues, WriteRulesFile, poolVars
<1>3. CASE WaitForCheckers \/ Idle
  BY <1>3 DEF WaitForCheckers, Idle, poolVars
<1> QED
  BY <1>1, <1>2, <1>3, StepCases

LEMMA CommandRunsPool == Spec => PoolSpec
<1>1. Init => PoolInit
  BY DEF Init
<1> QED
  BY <1>1, StepUsesPool, PTL DEF Spec, PoolSpec

(* No driver is released more often than it was taken, and the load is     *)
(* spread over the drivers, in the whole command.                          *)
THEOREM PoolSafeInCommand == Spec => [](PoolBalanced /\ PoolSpread)
  BY CommandRunsPool, PoolIsBalanced, PoolSpreads, PTL

-----------------------------------------------------------------------------
(* Counting and sorting rules keep their number. *)
LEMMA RulesKeepTheirNumber ==
  ASSUME NEW list, NEW known
  PROVE  /\ DOMAIN UpdateCounts(list, known) = DOMAIN list
         /\ \A s \in SortOutcomes(list) : DOMAIN s = DOMAIN list
  BY DEF UpdateCounts, SortOutcomes

(* The part of the type invariant that needs nothing else. *)
OwnTypes ==
  /\ pc \in [Procs -> Places]
  /\ sent \in 0..Len(Input)
  /\ pos \in [Checkers -> 0..Len(Input)]
  /\ DOMAIN verdict = Checkers
  /\ DOMAIN outcome = Positions
  /\ items \in Nat
  /\ writer \in Checkers \cup {Nobody}
  /\ readLock \in Procs \cup {Nobody}
  /\ DOMAIN issues = DOMAIN LoadedIssues
  /\ torn \subseteq Checkers

Shapes == PoolTypeOK /\ OwnTypes

(* It holds at the start. *)
LEMMA TypeInit == Init => Shapes
<1> SUFFICES ASSUME Init PROVE Shapes
  OBVIOUS
<1>1. PoolTypeOK
  BY PoolInvInit DEF Init, PoolInv
<1>2. Len(Input) \in Nat
  BY QueryStatsAssumption
<1> QED
  BY <1>1, <1>2, CheckQueriesAssumption DEF Init, Shapes, OwnTypes, Places, Procs

(* Every step keeps it. *)
LEMMA TypeInductive == Shapes /\ [Next]_vars => Shapes'
<1> SUFFICES ASSUME Shapes, [Next]_vars PROVE Shapes'
  OBVIOUS
<1> USE DEF OwnTypes
<1>0. OwnTypes /\ Len(Input) \in Nat /\ 0 \in 0..Len(Input)
  BY QueryStatsAssumption DEF Shapes
<1>1. PoolTypeOK'
  BY StepUsesPool, PoolTypeInductive DEF Shapes
<1>2. ASSUME NEW c \in Checkers, Check(c) PROVE OwnTypes'
  <2>1. CASE Receive(c)
    <3>1. sent + 1 \in 0..Len(Input)
      BY <1>0, <2>1 DEF Receive
    <3> QED
      BY <1>0, <2>1, <3>1 DEF Receive, Goto, Places, statVars, ruleVars
  <2>2. CASE Leave(c)
    BY <1>0, <2>2 DEF Leave, Goto, Places, statVars, ruleVars
  <2>3. CASE GetDriver(c)
    BY <1>0, <2>3 DEF GetDriver, Goto, Places, statVars, ruleVars
  <2>4. CASE Execute(c)
    BY <1>0, <2>4 DEF Execute, Goto, Places, statVars, ruleVars
  <2>5. CASE Match(c)
    BY <1>0, <2>5 DEF Match, Goto, Places, statVars
  <2>6. CASE CountVerdict(c)
    BY <1>0, <2>6 DEF CountVerdict, Goto, Places, ruleVars
  <2>7. CASE ReleaseDriver(c)
    BY <1>0, <2>7 DEF ReleaseDriver, Goto, Places, statVars, ruleVars
  <2>8. CASE Tick(c)
    <3>1. (IF WriteIsDue(items + 1) THEN "lock" ELSE "receive") \in Places /\ items + 1 \in Nat
      BY <1>0 DEF Places
    <3> QED
      BY <1>0, <2>8, <3>1 DEF Tick, Goto, statVars, ruleVars
  <2>9. CASE Lock(c)
    BY <1>0, <2>9 DEF Lock, AfterSave, Goto, Places, statVars, ruleVars
  <2>10. CASE Unlock(c)
    BY <1>0, <2>10 DEF Unlock, Goto, Places, statVars, ruleVars
  <2> QED
    BY <1>2, <2>1, <2>2, <2>3, <2>4, <2>5, <2>6, <2>7, <2>8, <2>9, <2>10 DEF Check
<1>3. ASSUME NEW p \in Procs, Write(p) PROVE OwnTypes'
  <2>1. CASE SaveCounts(p)
    BY <1>0, <2>1 DEF SaveCounts, Goto, Places, ruleVars
  <2>2. CASE SaveLists(p)
    BY <1>0, <2>2 DEF SaveLists, Goto, Places, ruleVars
  <2>3. CASE CreateStatFile(p)
    BY <1>0, <2>3 DEF CreateStatFile, AfterSave, Goto, Places, ruleVars
  <2>4. CASE EncodeStat(p)
    BY <1>0, <2>4 DEF EncodeStat, AfterSave, Goto, Places, ruleVars
  <2>5. CASE UpdateTotal(p) \/ UpdateOk(p) \/ UpdatePercent(p)
    BY <1>0, <2>5 DEF UpdateTotal, UpdateOk, UpdatePercent, Goto, Places, statVars
  <2>6. CASE UpdateIssues(p)
    <3>1. DOMAIN issues' = DOMAIN issues
      BY <2>6, RulesKeepTheirNumber DEF UpdateIssues
    <3>2. torn' \subseteq torn \cup Checkers
      BY <2>6 DEF UpdateIssues, Matchers
    <3> QED
      BY <1>0, <2>6, <3>1, <3>2 DEF UpdateIssues, Goto, Places, statVars
  <2>7. CASE WriteRulesFile(p)
    BY <1>0, <2>7 DEF WriteRulesFile, AfterWrite, Goto, Places, statVars
  <2> QED
    BY <1>3, <2>1, <2>2, <2>3, <2>4, <2>5, <2>6, <2>7 DEF Write
<1>4. ASSUME WaitForCheckers PROVE OwnTypes'
  <2>1. (IF WriteRules THEN "total" ELSE AfterWrite(Main)) \in Places
    BY DEF AfterWrite, Places
  <2> QED
    BY <1>0, <1>4, <2>1 DEF WaitForCheckers, Goto, Procs, statVars, ruleVars
<1>5. ASSUME Idle PROVE OwnTypes'
  BY <1>0, <1>5 DEF Idle, checkVars, statVars, ruleVars
<1> HIDE DEF OwnTypes
<1>6. OwnTypes'
  BY <1>2, <1>3, <1>4, <1>5, StepCases
<1> QED
  BY <1>1, <1>6 DEF Shapes, OwnTypes

-----------------------------------------------------------------------------
(* Why the counters are exact.  A checker that works on a query has it for *)
(* itself, and that query was never counted; queries not sent are not      *)
(* counted either.                                                         *)
Working(c) == pc[c] \in {"get", "execute", "match", "count"}

CheckerInv ==
  /\ \A c \in Checkers : Working(c) => pos[c] \in 1..sent /\ outcome[pos[c]].kind = "none"
  /\ \A c, d \in Checkers : Working(c) /\ Working(d) /\ pos[c] = pos[d] => c = d
  /\ \A i \in Positions : i > sent => outcome[i].kind = "none"
  /\ \A c \in Checkers : pc[c] = "count" => verdict[c].kind \in Kinds

StatsInv == IsRecord(stats) /\ StatsAreTally

(* Why the stat file is a tally of one moment: from the first read of the  *)
(* counters to the end of the write their lock is held, so the draft is    *)
(* equal to the counters all along.                                        *)
SaveInv ==
  /\ IsRecord(draft)
  /\ \A p \in Procs :
       /\ pc[p] \in {"lists", "create", "encode"} => readLock = p
       /\ pc[p] = "lists" => draft.total = stats.total /\ draft.ok = stats.ok
       /\ pc[p] \in {"create", "encode"} => draft = stats

Inv == Shapes /\ CheckerInv /\ StatsInv /\ SaveInv

(* The invariant holds at the start. *)
LEMMA InvInit == Init => Inv
<1> SUFFICES ASSUME Init PROVE Inv
  OBVIOUS
<1>1. Shapes
  BY TypeInit
<1>2. CheckerInv
  BY CheckQueriesAssumption DEF Init, CheckerInv, Working, NoOutcome, Checkers, Procs
<1>3. StatsInv
  BY EmptyTally DEF Init, StatsInv, StatsAreTally, IsRecord, EmptyStats
<1>4. SaveInv
  BY DEF Init, SaveInv, IsRecord, EmptyStats
<1> QED
  BY <1>1, <1>2, <1>3, <1>4 DEF Inv

(* The step of a goroutine that touches neither a verdict nor the counters *)
(* nor the draft, and does not move into a query or into SaveToFile.       *)
LEMMA OtherStepKeepsInv ==
  ASSUME Inv, NEW p \in Procs, NEW from \in Places, NEW to \in Places, Goto(p, from, to),
         to \notin {"get", "execute", "match", "count", "lists", "create", "encode"},
         UNCHANGED <<sent, pos, verdict, outcome, stats, readLock, draft>>
  PROVE  CheckerInv' /\ StatsInv' /\ SaveInv'
<1> USE DEF Inv
<1>1. pc'[p] = to /\ \A q \in Procs \ {p} : pc'[q] = pc[q]
  BY DEF Goto, Shapes, OwnTypes
<1>2. CheckerInv'
  BY <1>1 DEF CheckerInv, Working, Procs, Places
<1>3. StatsInv'
  BY DEF StatsInv, StatsAreTally
<1>4. SaveInv'
  BY <1>1 DEF SaveInv
<1> QED
  BY <1>2, <1>3, <1>4

(* A checker takes the next query, which nobody has. *)
LEMMA ReceiveKeepsInv ==
  ASSUME Inv, NEW c \in Checkers, Receive(c)
  PROVE  CheckerInv' /\ StatsInv' /\ SaveInv'
<1> USE DEF Inv
<1>1. /\ pc'[c] = "get" /\ \A q \in Procs \ {c} : pc'[q] = pc[q]
      /\ sent' = sent + 1 /\ sent + 1 \in Positions
      /\ pos'[c] = sent + 1 /\ \A d \in Checkers \ {c} : pos'[d] = pos[d]
      /\ UNCHANGED <<outcome, verdict, stats, readLock, draft>>
  BY PositionsFinite DEF Receive, Goto, Shapes, OwnTypes, Procs, statVars
<1>2. sent \in Nat /\ outcome[sent + 1].kind = "none"
  BY <1>1 DEF CheckerInv, Shapes, OwnTypes
<1>3. CheckerInv'
  <2>1. ASSUME NEW d \in Checkers, Working(d)'
        PROVE  pos'[d] \in 1..sent' /\ outcome'[pos'[d]].kind = "none"
    BY <1>1, <1>2, <2>1 DEF CheckerInv, Working, Procs
  <2>2. ASSUME NEW d \in Checkers, NEW e \in Checkers, Working(d)', Working(e)', pos'[d] = pos'[e]
        PROVE  d = e
    <3>1. \A f \in Checkers \ {c} : Working(f)' => Working(f) /\ pos'[f] <= sent
      BY <1>1, <1>2 DEF CheckerInv, Working, Procs
    <3> QED
      BY <1>1, <1>2, <2>2, <3>1 DEF CheckerInv
  <2>3. ASSUME NEW i \in Positions, i > sent' PROVE outcome'[i].kind = "none"
    BY <1>1, <1>2, <2>3, PositionsFinite DEF CheckerInv
  <2>4. ASSUME NEW d \in Checkers, pc'[d] = "count" PROVE verdict'[d].kind \in Kinds
    BY <1>1, <2>4 DEF CheckerInv, Procs
  <2> QED
    BY <2>1, <2>2, <2>3, <2>4, <1>1 DEF CheckerInv, Shapes, OwnTypes
<1>4. StatsInv' /\ SaveInv'
  BY <1>1 DEF StatsInv, StatsAreTally, SaveInv
<1> QED
  BY <1>3, <1>4

(* A checker that works on a query goes on with it. *)
LEMMA WorkKeepsInv ==
  ASSUME Inv, NEW c \in Checkers, NEW from \in {"get", "execute", "match"},
         NEW to \in {"execute", "match", "count"}, Goto(c, from, to),
         \A d \in Checkers \ {c} : verdict'[d] = verdict[d],
         to = "count" => verdict'[c].kind \in Kinds,
         UNCHANGED <<sent, pos, outcome, stats, readLock, draft>>
  PROVE  CheckerInv' /\ StatsInv' /\ SaveInv'
<1> USE DEF Inv
<1>1. pc'[c] = to /\ pc[c] = from /\ \A q \in Procs \ {c} : pc'[q] = pc[q]
  BY DEF Goto, Shapes, OwnTypes, Procs
<1>2. \A d \in Checkers : Working(d)' => Working(d)
  BY <1>1 DEF Working, Procs
<1>3. CheckerInv'
  BY <1>1, <1>2 DEF CheckerInv, Procs
<1>4. StatsInv' /\ SaveInv'
  BY <1>1 DEF StatsInv, StatsAreTally, SaveInv
<1> QED
  BY <1>3, <1>4

(* Every match, torn or not, ends with a verdict to count. *)
LEMMA MatchGivesVerdict ==
  ASSUME NEW q, NEW answer, NEW v \in TornVerdicts(answer) \cup {Verdict(issues, q, answer)}
  PROVE  v.kind \in Kinds
<1>1. CASE v \in TornVerdicts(answer)
  BY <1>1 DEF TornVerdicts, Kinds
<1>2. CASE v = Verdict(issues, q, answer)
  BY <1>2 DEF Verdict, Kinds
<1> QED
  BY <1>1, <1>2

(* A checker counts its query, once. *)
LEMMA CountKeepsInv ==
  ASSUME Inv, NEW c \in Checkers, CountVerdict(c)
  PROVE  CheckerInv' /\ StatsInv' /\ SaveInv' /\ Adds(outcome, outcome', pos[c])
<1> USE DEF Inv
<1>1. /\ pc[c] = "count" /\ pc'[c] = "release" /\ \A q \in Procs \ {c} : pc'[q] = pc[q]
      /\ readLock = Nobody
      /\ stats' = Count(stats, verdict[c], Input[pos[c]])
      /\ outcome' = [outcome EXCEPT ![pos[c]] = verdict[c]]
      /\ \A d \in Checkers \ {c} : pos'[d] = pos[d] /\ verdict'[d] = verdict[d]
      /\ UNCHANGED <<sent, readLock, draft>>
  BY DEF CountVerdict, Goto, Shapes, OwnTypes, Procs
<1>2. /\ pos[c] \in 1..sent /\ pos[c] \in Positions /\ outcome[pos[c]].kind = "none"
      /\ verdict[c].kind \in Kinds
  BY <1>1, PositionsFinite DEF CheckerInv, Working, Shapes, OwnTypes
<1>3. Adds(outcome, outcome', pos[c]) /\ outcome'[pos[c]] = verdict[c]
  BY <1>1, <1>2 DEF Adds, Shapes, OwnTypes
<1>4. StatsInv'
  <2>1. IsTally(Count(stats, outcome'[pos[c]], Input[pos[c]]), outcome')
    BY <1>3, CountKeepsTally DEF StatsInv, StatsAreTally
  <2>2. IsRecord(Count(stats, verdict[c], Input[pos[c]]))
    BY <1>2, CountUnfolded DEF StatsInv
  <2> QED
    BY <1>1, <1>3, <2>1, <2>2 DEF StatsInv, StatsAreTally
<1>5. CheckerInv'
  <2>1. \A d \in Checkers : Working(d)' => Working(d) /\ d # c
    BY <1>1 DEF Working, Procs
  <2>2. \A d \in Checkers : Working(d)' => pos'[d] # pos[c]
    BY <1>1, <2>1 DEF CheckerInv, Working
  <2>3. \A i \in Positions : i # pos[c] => outcome'[i] = outcome[i]
    BY <1>3 DEF Adds
  <2>4. ASSUME NEW d \in Checkers, Working(d)'
        PROVE  pos'[d] \in 1..sent' /\ outcome'[pos'[d]].kind = "none"
    <3>1. pos'[d] = pos[d] /\ pos[d] \in Positions
      BY <1>1, <2>1, <2>4, PositionsFinite DEF CheckerInv, Shapes, OwnTypes
    <3> QED
      BY <1>1, <2>1, <2>2, <2>3, <2>4, <3>1 DEF CheckerInv
  <2>5. ASSUME NEW i \in Positions, i > sent' PROVE outcome'[i].kind = "none"
    BY <1>1, <1>2, <2>3, <2>5, PositionsFinite DEF CheckerInv, Shapes, OwnTypes
  <2>6. ASSUME NEW d \in Checkers, pc'[d] = "count" PROVE verdict'[d].kind \in Kinds
    BY <1>1, <2>6 DEF CheckerInv, Procs
  <2> QED
    BY <1>1, <2>1, <2>4, <2>5, <2>6 DEF CheckerInv, Shapes, OwnTypes
<1>6. SaveInv'
  BY <1>1, CheckQueriesAssumption DEF SaveInv
<1> QED
  BY <1>3, <1>4, <1>5, <1>6

(* SaveToFile keeps the draft and the lock together. *)
LEMMA SaveKeepsInv ==
  ASSUME Inv, NEW p \in Procs,
         SaveCounts(p) \/ SaveLists(p) \/ CreateStatFile(p) \/ EncodeStat(p)
  PROVE  CheckerInv' /\ StatsInv' /\ SaveInv'
<1> USE DEF Inv
<1>1. /\ pc[p] \in {"save", "lists", "create", "encode"}
      /\ pc'[p] \notin {"get", "execute", "match", "count"}
      /\ \A q \in Procs \ {p} : pc'[q] = pc[q]
      /\ UNCHANGED <<sent, pos, verdict, outcome, stats>>
  BY DEF SaveCounts, SaveLists, CreateStatFile, EncodeStat, AfterSave, Goto, Shapes, OwnTypes
<1>2. CheckerInv'
  BY <1>1 DEF CheckerInv, Working, Procs
<1>3. StatsInv'
  BY <1>1 DEF StatsInv, StatsAreTally
<1>4. \A q \in Procs \ {p} : readLock \in {p, Nobody} =>
        pc'[q] \notin {"lists", "create", "encode"}
  BY <1>1, CheckQueriesAssumption DEF SaveInv
<1>5. CASE SaveCounts(p)
  <2>1. /\ pc'[p] = "lists" /\ readLock = Nobody /\ readLock' = p
        /\ draft' = [draft EXCEPT !.total = stats.total, !.ok = stats.ok]
    BY <1>5 DEF SaveCounts, Goto, Shapes, OwnTypes
  <2>2. IsRecord(draft') /\ draft'.total = stats.total /\ draft'.ok = stats.ok
    BY <2>1 DEF SaveInv, IsRecord
  <2> QED
    BY <1>1, <1>2, <1>3, <1>4, <2>1, <2>2 DEF SaveInv, IsRecord
<1>6. CASE SaveLists(p)
  <2>1. /\ pc[p] = "lists" /\ pc'[p] = "create" /\ readLock = p /\ readLock' = p
        /\ draft' = [draft EXCEPT !.known = stats.known, !.unknown = stats.unknown]
    BY <1>6 DEF SaveLists, Goto, Shapes, OwnTypes, SaveInv
  <2>2. draft' = stats
    BY <2>1 DEF SaveInv, StatsInv, IsRecord
  <2> QED
    BY <1>1, <1>2, <1>3, <1>4, <2>1, <2>2 DEF SaveInv, StatsInv
<1>7. CASE CreateStatFile(p)
  <2>1. /\ pc[p] = "create" /\ readLock = p /\ draft = stats /\ draft' = draft
        /\ pc'[p] \in {"lists", "create", "encode"} => pc'[p] = "encode" /\ readLock' = p
    BY <1>7 DEF CreateStatFile, AfterSave, Goto, Shapes, OwnTypes, SaveInv
  <2> QED
    BY <1>1, <1>2, <1>3, <1>4, <2>1 DEF SaveInv
<1>8. CASE EncodeStat(p)
  <2>1. /\ pc[p] = "encode" /\ readLock = p /\ draft' = EmptyStats
        /\ pc'[p] \notin {"lists", "create", "encode"}
    BY <1>8 DEF EncodeStat, AfterSave, Goto, Shapes, OwnTypes, SaveInv
  <2> QED
    BY <1>1, <1>2, <1>3, <1>4, <2>1 DEF SaveInv, IsRecord, EmptyStats
<1> QED
  BY <1>5, <1>6, <1>7, <1>8

(* Every step keeps the invariant. *)
LEMMA InvInductive == Inv /\ [Next]_vars => Inv'
<1> SUFFICES ASSUME Inv, [Next]_vars PROVE Inv'
  OBVIOUS
<1>0. Shapes /\ Shapes'
  BY TypeInductive DEF Inv
<1> DEFINE Goal == CheckerInv' /\ StatsInv' /\ SaveInv'
<1>1. ASSUME NEW c \in Checkers, Check(c) PROVE Goal
  <2>0. c \in Procs
    BY DEF Procs
  <2>1. CASE Receive(c)
    BY <2>1, ReceiveKeepsInv
  <2>2. CASE Leave(c)
    BY <2>0, <2>2, OtherStepKeepsInv DEF Leave, Places, statVars
  <2>3. CASE GetDriver(c)
    BY <2>3, <1>0, WorkKeepsInv DEF GetDriver, statVars
  <2>4. CASE Execute(c)
    <3>1. PICK answer :
            /\ Goto(c, "execute", IF answer.err = "" THEN "count" ELSE "match")
            /\ verdict' = [verdict EXCEPT ![c] =
                 [kind |-> IF answer.err = "" THEN "ok" ELSE "none", key |-> <<>>, answer |-> answer]]
      BY <2>4 DEF Execute
    <3>2. UNCHANGED <<sent, pos, outcome, stats, readLock, draft>>
      BY <2>4 DEF Execute, statVars
    <3>0. \A d \in Checkers \ {c} : verdict'[d] = verdict[d]
      BY <1>0, <3>1 DEF Shapes, OwnTypes
    <3>3. CASE answer.err = ""
      <4>1. Goto(c, "execute", "count") /\ verdict'[c].kind \in Kinds
        BY <1>0, <3>1, <3>3 DEF Shapes, OwnTypes, Kinds
      <4> QED
        BY <3>0, <3>2, <4>1, WorkKeepsInv
    <3>4. CASE answer.err # ""
      <4>1. Goto(c, "execute", "match")
        BY <3>1, <3>4
      <4> QED
        BY <3>0, <3>2, <4>1, WorkKeepsInv
    <3> QED
      BY <3>3, <3>4
  <2>5. CASE Match(c)
    <3>1. PICK v \in TornVerdicts(verdict[c].answer)
                        \cup {Verdict(issues, Input[pos[c]], verdict[c].answer)} :
            verdict' = [verdict EXCEPT ![c] = v]
      BY <2>5 DEF Match
    <3>2. verdict'[c].kind \in Kinds
      BY <1>0, <3>1, MatchGivesVerdict DEF Shapes, OwnTypes
    <3>3. UNCHANGED <<sent, pos, outcome, stats, readLock, draft>> /\ Goto(c, "match", "count")
      BY <2>5 DEF Match, statVars
    <3> QED
      BY <3>1, <3>2, <3>3, WorkKeepsInv
  <2>6. CASE CountVerdict(c)
    BY <2>6, CountKeepsInv
  <2>7. CASE ReleaseDriver(c)
    BY <2>0, <2>7, OtherStepKeepsInv DEF ReleaseDriver, Places, statVars
  <2>8. CASE Tick(c)
    <3>1. PICK to \in {"lock", "receive"} : Goto(c, "tick", to)
      BY <2>8 DEF Tick
    <3> QED
      BY <2>0, <2>8, <3>1, OtherStepKeepsInv DEF Tick, Places, statVars
  <2>9. CASE Lock(c)
    <3>1. PICK to \in {"save", "exit", "total", "unlock"} : Goto(c, "lock", to)
      BY <2>9 DEF Lock, AfterSave
    <3> QED
      BY <2>0, <2>9, <3>1, OtherStepKeepsInv DEF Lock, Places, statVars
  <2>10. CASE Unlock(c)
    BY <2>0, <2>10, OtherStepKeepsInv DEF Unlock, Places, statVars
  <2> QED
    BY <1>1, <2>1, <2>2, <2>3, <2>4, <2>5, <2>6, <2>7, <2>8, <2>9, <2>10 DEF Check
<1>2. ASSUME NEW p \in Procs, Write(p) PROVE Goal
  <2>1. CASE SaveCounts(p) \/ SaveLists(p) \/ CreateStatFile(p) \/ EncodeStat(p)
    BY <2>1, SaveKeepsInv
  <2>2. CASE UpdateTotal(p)
    BY <2>2, OtherStepKeepsInv DEF UpdateTotal, Places, statVars
  <2>3. CASE UpdateOk(p)
    BY <2>3, OtherStepKeepsInv DEF UpdateOk, Places, statVars
  <2>4. CASE UpdatePercent(p)
    BY <2>4, OtherStepKeepsInv DEF UpdatePercent, Places, statVars
  <2>5. CASE UpdateIssues(p)
    BY <2>5, OtherStepKeepsInv DEF UpdateIssues, Places, statVars
  <2>6. CASE WriteRulesFile(p)
    <3>1. PICK to \in {"unlock", "save", "exit"} : Goto(p, "write", to)
      BY <2>6 DEF WriteRulesFile, AfterWrite
    <3> QED
      BY <2>6, <3>1, OtherStepKeepsInv DEF WriteRulesFile, Places, statVars
  <2> QED
    BY <1>2, <2>1, <2>2, <2>3, <2>4, <2>5, <2>6 DEF Write
<1>3. ASSUME WaitForCheckers PROVE Goal
  <2>1. PICK to \in {"total", "save", "exit", "unlock"} : Goto(Main, "wait", to)
    BY <1>3 DEF WaitForCheckers, AfterWrite
  <2> QED
    BY <1>3, <2>1, OtherStepKeepsInv DEF WaitForCheckers, Places, Procs, statVars
<1>4. ASSUME Idle PROVE Goal
  <2>1. UNCHANGED <<pc, sent, pos, verdict, outcome, stats, readLock, draft>>
    BY <1>4 DEF Idle, checkVars, statVars
  <2> QED
    BY <2>1 DEF Inv, CheckerInv, Working, StatsInv, StatsAreTally, SaveInv
<1> HIDE DEF Goal
<1>5. Goal
  BY <1>1, <1>2, <1>3, <1>4, StepCases
<1> QED
  BY <1>0, <1>5 DEF Inv, Goal

(* The counters of QueryStats are exact at every moment, for any number of *)
(* checkers and any interleaving: no increment is lost and no query is     *)
(* counted twice.                                                          *)
THEOREM StatsAreExact == Spec => []StatsAreTally
<1>1. Inv => StatsAreTally
  BY DEF Inv, StatsInv
<1> QED
  BY <1>1, InvInit, InvInductive, PTL DEF Spec

-----------------------------------------------------------------------------
(* The rest of the type invariant.  It needs Inv: that the query a checker *)
(* counts is one of the log.                                               *)
ValueTypes ==
  /\ \A c \in Checkers : IsVerdict(verdict[c])
  /\ \A i \in Positions : IsVerdict(outcome[i])
  /\ IsStats(stats) /\ IsStats(draft) /\ IsStatFile(statFile)
  /\ IsIssues(issues) /\ report \in Reports /\ IsRulesFile(rulesFile)

(* Counting keeps numbers numbers, and examples texts. *)
LEMMA CountKeepsTypes ==
  ASSUME NEW s, IsStats(s), NEW v, v.kind \in Kinds, NEW q \in DOMAIN QueryLen
  PROVE  IsStats(Count(s, v, q))
<1>1. ASSUME NEW table, IsTableType(table), NEW key
      PROVE  IsTableType(Bump(table, key, q))
  <2> DEFINE Entries == [count : Nat, example : DOMAIN QueryLen]
  <2>1. ASSUME key \in DOMAIN table PROVE Entry(table, key, q) \in Entries
    <3>1. table[key] \in Entries
      BY <1>1, <2>1 DEF IsTableType
    <3> QED
      BY <2>1, <3>1 DEF Entry, Shorter
  <2>2. ASSUME key \notin DOMAIN table PROVE Entry(table, key, q) \in Entries
    BY <2>2 DEF Entry
  <2>3. Bump(table, key, q) \in [DOMAIN table \cup {key} -> Entries]
    BY <1>1, <2>1, <2>2 DEF Bump, IsTableType
  <2> QED
    BY <2>3 DEF IsTableType
<1>2. Count(s, v, q) = CountedStats(s, v, q)
  BY CountUnfolded DEF IsStats, IsRecord
<1> DEFINE t == CountedStats(s, v, q)
<1>3. IsTableType(t.known) /\ IsTableType(t.unknown)
  BY <1>1 DEF CountedStats, IsStats
<1>4. t.total \in Nat /\ t.ok \in Nat
  BY DEF CountedStats, IsStats
<1>5. t = [total |-> t.total, ok |-> t.ok, known |-> t.known, unknown |-> t.unknown]
  BY DEF CountedStats
<1> HIDE DEF t
<1>6. IsStats(t)
  BY <1>3, <1>4, <1>5 DEF IsStats
<1> QED
  BY <1>2, <1>6 DEF t

(* Every match, torn or not, gives a verdict. *)
LEMMA MatchKeepsTypes ==
  ASSUME NEW q, NEW answer, answer.issues \in Seq(STRING),
         NEW v \in TornVerdicts(answer) \cup {Verdict(issues, q, answer)}
  PROVE  IsVerdict(v)
<1>1. v = [kind |-> v.kind, key |-> v.key, answer |-> v.answer] /\ v.answer = answer
  <2>1. CASE v \in TornVerdicts(answer)
    BY <2>1 DEF TornVerdicts
  <2>2. CASE v = Verdict(issues, q, answer)
    BY <2>2 DEF Verdict
  <2> QED
    BY <2>1, <2>2
<1> QED
  BY <1>1, MatchGivesVerdict DEF IsVerdict

(* Updated and sorted rules are rules. *)
LEMMA UpdateKeepsTypes ==
  ASSUME NEW list, IsIssues(list), NEW known, IsTableType(known)
  PROVE  /\ IsIssues(UpdateCounts(list, known))
         /\ \A s \in SortOutcomes(list) : IsIssues(s)
<1>1. ASSUME NEW i \in DOMAIN list, <<list[i].name>> \in DOMAIN known
      PROVE  [list[i] EXCEPT !.count = known[<<list[i].name>>].count] \in PgIssueRules
  <2>1. list[i] \in PgIssueRules
    BY DEF IsIssues
  <2>2. known[<<list[i].name>>].count \in Nat
    BY <1>1 DEF IsTableType
  <2> QED
    BY <2>1, <2>2 DEF PgIssueRules
<1>2. IsIssues(UpdateCounts(list, known))
  BY <1>1 DEF IsIssues, UpdateCounts
<1>3. ASSUME NEW s \in SortOutcomes(list) PROVE IsIssues(s)
  <2>1. CASE s = list
    BY <2>1
  <2>2. CASE s # list
    <3>1. PICK p \in Bijection(DOMAIN list, DOMAIN list) : s = [i \in DOMAIN list |-> list[p[i]]]
      BY <2>2 DEF SortOutcomes
    <3>2. \A i \in DOMAIN list : p[i] \in DOMAIN list
      BY <3>1 DEF Bijection, Injection
    <3> QED
      BY <3>1, <3>2 DEF IsIssues
  <2> QED
    BY <2>1, <2>2
<1> QED
  BY <1>2, <1>3

LEMMA ValuesInit == Init => ValueTypes
<1> SUFFICES ASSUME Init PROVE ValueTypes
  OBVIOUS
<1>1. IsVerdict(NoOutcome)
  <2>1. <<>> \in Seq(STRING)
    OBVIOUS
  <2> QED
    BY <2>1 DEF IsVerdict, NoOutcome, NoAnswer
<1>2. IsStats(EmptyStats)
  BY DEF IsStats, EmptyStats, IsTableType, EmptyTable
<1>3. IsStatFile(NoFile) /\ IsRulesFile(NoFile)
  BY DEF IsStatFile, IsRulesFile
<1>4. IsIssues(LoadedIssues)
  <2>1. LoadedIssues \in Seq(PgIssueRules)
    BY CheckQueriesAssumption
  <2> QED
    BY <2>1 DEF IsIssues
<1>5. NoReport \in Reports
  BY DEF NoReport, Reports
<1> QED
  BY <1>1, <1>2, <1>3, <1>4, <1>5 DEF Init, ValueTypes

LEMMA ValuesInductive == Inv /\ ValueTypes /\ [Next]_vars => ValueTypes'
<1> SUFFICES ASSUME Inv, ValueTypes, [Next]_vars PROVE ValueTypes'
  OBVIOUS
<1>0. /\ DOMAIN verdict = Checkers /\ DOMAIN outcome = Positions
      /\ \A c \in Checkers : Working(c) => pos[c] \in Positions
  BY PositionsFinite DEF Inv, Shapes, OwnTypes, CheckerInv
<1>1. ASSUME UNCHANGED <<verdict, outcome, stats, draft, statFile, issues, report, rulesFile>>
      PROVE  ValueTypes'
  BY <1>1 DEF ValueTypes
<1>2. ASSUME NEW c \in Checkers, Check(c) PROVE ValueTypes'
  <2>1. CASE Execute(c)
    <3>1. PICK answer \in Answers[Input[pos[c]]] :
            verdict' = [verdict EXCEPT ![c] =
              [kind |-> IF answer.err = "" THEN "ok" ELSE "none", key |-> <<>>, answer |-> answer]]
      BY <2>1 DEF Execute
    <3>2. answer.issues \in Seq(STRING)
      BY <1>0, <2>1, CheckQueriesAssumption DEF Execute, Working
    <3>3. IsVerdict(verdict'[c])
      BY <1>0, <3>1, <3>2 DEF IsVerdict, Kinds
    <3>4. \A d \in Checkers \ {c} : verdict'[d] = verdict[d]
      BY <1>0, <3>1
    <3>5. UNCHANGED <<outcome, stats, draft, statFile, issues, report, rulesFile>>
      BY <2>1 DEF Execute, statVars, ruleVars
    <3> QED
      BY <3>3, <3>4, <3>5 DEF ValueTypes
  <2>2. CASE Match(c)
    <3>1. PICK v \in TornVerdicts(verdict[c].answer)
                        \cup {Verdict(issues, Input[pos[c]], verdict[c].answer)} :
            verdict' = [verdict EXCEPT ![c] = v]
      BY <2>2 DEF Match
    <3>2. verdict[c].answer.issues \in Seq(STRING)
      BY DEF ValueTypes, IsVerdict
    <3>3. IsVerdict(v)
      BY <3>2, MatchKeepsTypes
    <3>4. \A d \in Checkers : IsVerdict(verdict'[d])
      BY <1>0, <3>1, <3>3 DEF ValueTypes
    <3>5. UNCHANGED <<outcome, stats, draft, statFile, issues, report, rulesFile>>
      BY <2>2 DEF Match, statVars
    <3> QED
      BY <3>4, <3>5 DEF ValueTypes
  <2>3. CASE CountVerdict(c)
    <3>1. /\ pc[c] = "count" /\ stats' = Count(stats, verdict[c], Input[pos[c]])
          /\ outcome' = [outcome EXCEPT ![pos[c]] = verdict[c]]
          /\ verdict' = [verdict EXCEPT ![c] = NoOutcome]
          /\ UNCHANGED <<draft, statFile, issues, report, rulesFile>>
      BY <2>3 DEF CountVerdict, Goto, ruleVars
    <3>2. pos[c] \in Positions /\ verdict[c].kind \in Kinds
      BY <1>0, <3>1 DEF Working, Inv, CheckerInv
    <3>3. Input[pos[c]] \in DOMAIN QueryLen
      BY <3>2, QueryStatsAssumption DEF Positions
    <3>4. IsStats(stats')
      BY <3>1, <3>2, <3>3, CountKeepsTypes DEF ValueTypes
    <3>5. IsVerdict(NoOutcome)
      <4>1. <<>> \in Seq(STRING)
        OBVIOUS
      <4> QED
        BY <4>1 DEF IsVerdict, NoOutcome, NoAnswer
    <3>6. \A d \in Checkers : IsVerdict(verdict'[d])
      BY <1>0, <3>1, <3>5 DEF ValueTypes
    <3>7. \A i \in Positions : IsVerdict(outcome'[i])
      BY <1>0, <3>1, <3>2 DEF ValueTypes
    <3> QED
      BY <3>1, <3>4, <3>6, <3>7 DEF ValueTypes
  <2>4. CASE ~Execute(c) /\ ~Match(c) /\ ~CountVerdict(c)
    BY <1>1, <1>2, <2>4 DEF Check, Receive, Leave, GetDriver, ReleaseDriver, Tick, Lock, Unlock,
       statVars, ruleVars
  <2> QED
    BY <2>1, <2>2, <2>3, <2>4
<1>3. ASSUME NEW p \in Procs, Write(p) PROVE ValueTypes'
  <2>0. UNCHANGED <<verdict, outcome, stats>>
    BY <1>3 DEF Write, SaveCounts, SaveLists, CreateStatFile, EncodeStat, UpdateTotal,
       UpdateOk, UpdatePercent, UpdateIssues, WriteRulesFile, statVars
  <2>1. CASE SaveCounts(p)
    <3>1. IsStats(draft')
      BY <2>1 DEF SaveCounts, ValueTypes, IsStats
    <3> QED
      BY <2>0, <2>1, <3>1 DEF SaveCounts, ruleVars, ValueTypes
  <2>2. CASE SaveLists(p)
    <3>1. IsStats(draft')
      BY <2>2 DEF SaveLists, ValueTypes, IsStats
    <3> QED
      BY <2>0, <2>2, <3>1 DEF SaveLists, ruleVars, ValueTypes
  <2>3. CASE CreateStatFile(p)
    BY <2>0, <2>3 DEF CreateStatFile, ruleVars, ValueTypes, IsStatFile
  <2>4. CASE EncodeStat(p)
    <3>1. IsStatFile(statFile')
      BY <2>4 DEF EncodeStat, ValueTypes, IsStatFile, StatFile
    <3>2. IsStats(EmptyStats)
      BY DEF IsStats, EmptyStats, IsTableType, EmptyTable
    <3> QED
      BY <2>0, <2>4, <3>1, <3>2 DEF EncodeStat, ruleVars, ValueTypes
  <2>5. CASE UpdateTotal(p) \/ UpdateOk(p) \/ UpdatePercent(p)
    <3>1. report' \in Reports
      BY <2>5 DEF UpdateTotal, UpdateOk, UpdatePercent, ValueTypes, IsStats, Reports
    <3> QED
      BY <2>0, <2>5, <3>1 DEF UpdateTotal, UpdateOk, UpdatePercent, statVars, ValueTypes
  <2>6. CASE UpdateIssues(p)
    <3> DEFINE counted == UpdateCounts(issues, stats.known)
    <3>1. issues' \in {counted} \cup SortOutcomes(counted)
      BY <2>6 DEF UpdateIssues
    <3>2. IsIssues(counted)
      BY UpdateKeepsTypes DEF ValueTypes, IsStats
    <3> HIDE DEF counted
    <3>3. \A s \in SortOutcomes(counted) : IsIssues(s)
      BY <3>2, UpdateKeepsTypes DEF ValueTypes, IsStats
    <3>4. IsIssues(issues')
      BY <3>1, <3>2, <3>3
    <3> QED
      BY <2>0, <2>6, <3>4 DEF UpdateIssues, statVars, ValueTypes
  <2>7. CASE WriteRulesFile(p)
    <3>1. IsRulesFile(rulesFile')
      BY <2>7 DEF WriteRulesFile, ValueTypes, IsRulesFile
    <3> QED
      BY <2>0, <2>7, <3>1 DEF WriteRulesFile, statVars, ValueTypes
  <2> QED
    BY <1>3, <2>1, <2>2, <2>3, <2>4, <2>5, <2>6, <2>7 DEF Write
<1>4. CASE WaitForCheckers \/ Idle
  BY <1>1, <1>4 DEF WaitForCheckers, Idle, checkVars, statVars, ruleVars
<1> QED
  BY <1>2, <1>3, <1>4, StepCases

(* Nothing but a panic ends the process before its time. *)
LEMMA OnlyPanicCrashes ==
  [Next]_vars => crashed' = crashed \/ \E c \in Checkers : Panic(c)
<1> SUFFICES ASSUME [Next]_vars PROVE crashed' = crashed \/ \E c \in Checkers : Panic(c)
  OBVIOUS
<1>1. ASSUME NEW c \in Checkers, Check(c) PROVE crashed' = crashed
  BY <1>1 DEF Check, Receive, Leave, GetDriver, Execute, Match, CountVerdict, ReleaseDriver,
     Tick, Lock, Unlock, Goto
<1>2. ASSUME NEW p \in Procs, Write(p) PROVE crashed' = crashed
  BY <1>2 DEF Write, SaveCounts, SaveLists, CreateStatFile, EncodeStat, UpdateTotal,
     UpdateOk, UpdatePercent, UpdateIssues, WriteRulesFile, Goto
<1>3. CASE WaitForCheckers
  BY <1>3 DEF WaitForCheckers, Goto
<1>4. CASE Exited \/ UNCHANGED vars
  BY <1>4 DEF Exited, vars
<1> QED
  BY <1>1, <1>2, <1>3, <1>4 DEF Next

(* Goroutines are where the code has a place for them, the locks are held  *)
(* by goroutines that may hold them, the counters and the draft are        *)
(* numbers and tables of texts of the log, the rules are rules, and a file *)
(* holds nothing else.                                                     *)
THEOREM TypeCorrect == Spec => []TypeOK
<1>1. Init => Inv /\ ValueTypes /\ crashed \in BOOLEAN
  BY InvInit, ValuesInit DEF Init
<1>2. Inv /\ ValueTypes /\ crashed \in BOOLEAN /\ [Next]_vars
        => Inv' /\ ValueTypes' /\ (crashed \in BOOLEAN)'
  BY InvInductive, ValuesInductive, OnlyPanicCrashes DEF Panic
<1>3. Inv /\ ValueTypes /\ crashed \in BOOLEAN => TypeOK
  BY DEF Inv, Shapes, OwnTypes, ValueTypes, TypeOK
<1> QED
  BY <1>1, <1>2, <1>3, PTL DEF Spec

-----------------------------------------------------------------------------
(* A step of the command is a step of the abstract tally, or a stutter. *)
LEMMA StepIsTallyStep ==
  Inv /\ Inv' /\ [Next]_vars => [TallyNext]_tallyVars
<1> SUFFICES ASSUME Inv, Inv', [Next]_vars PROVE [TallyNext]_tallyVars
  OBVIOUS
<1> DEFINE Same == UNCHANGED <<outcome, statFile>>
<1>1. ASSUME NEW c \in Checkers, CountVerdict(c) PROVE TallyNext
  <2>1. Adds(outcome, outcome', pos[c])
    BY <1>1, CountKeepsInv
  <2>2. /\ outcome' = [outcome EXCEPT ![pos[c]] = verdict[c]] /\ UNCHANGED statFile
        /\ pos[c] \in Positions /\ DOMAIN outcome = Positions
    BY <1>1, <2>1 DEF CountVerdict, Adds, Inv, Shapes, OwnTypes
  <2>3. CountQuery(pos[c])
    BY <2>1, <2>2 DEF CountQuery, Adds, Kinds
  <2> QED
    BY <2>2, <2>3 DEF TallyNext
<1>2. ASSUME NEW c \in Checkers, Check(c), ~CountVerdict(c) PROVE Same
  BY <1>2 DEF Check, Receive, Leave, GetDriver, Execute, Match, ReleaseDriver, Tick, Lock,
              Unlock, statVars
<1>3. ASSUME NEW p \in Procs, EncodeStat(p) PROVE TallyNext
  <2>1. draft = stats /\ UNCHANGED outcome
    BY <1>3 DEF EncodeStat, Goto, Inv, SaveInv
  <2>2. CASE statFile' = StatFile(draft)
    <3>1. IsTally(draft, outcome)
      BY <2>1 DEF Inv, StatsInv, StatsAreTally
    <3> QED
      BY <2>1, <2>2, <3>1 DEF TallyNext, Publish, StatFile
  <2>3. CASE statFile' = BrokenFile
    BY <2>1, <2>3 DEF TallyNext, Truncate
  <2> QED
    BY <1>3, <2>2, <2>3 DEF EncodeStat
<1>4. ASSUME NEW p \in Procs, Write(p), ~EncodeStat(p) PROVE TallyNext \/ Same
  BY <1>4 DEF Write, SaveCounts, SaveLists, CreateStatFile, UpdateTotal, UpdateOk,
              UpdatePercent, UpdateIssues, WriteRulesFile, statVars,
              TallyNext, Truncate
<1>5. ASSUME WaitForCheckers \/ Idle PROVE Same
  BY <1>5 DEF WaitForCheckers, Idle, checkVars, statVars
<1>6. TallyNext \/ Same
  BY <1>1, <1>2, <1>3, <1>4, <1>5, StepCases
<1> QED
  BY <1>6 DEF tallyVars

(* The command implements QueryTally: each query gets one verdict, for     *)
(* good, and a complete stat file is the tally of one moment.              *)
THEOREM CommandImplementsTally == Spec => ImplementsTally
<1>1. Init => TallyInit
  BY DEF Init, TallyInit
<1> QED
  BY <1>1, StepIsTallyStep, InvInit, InvInductive, PTL
  DEF Spec, ImplementsTally, TallySpec
=============================================================================
