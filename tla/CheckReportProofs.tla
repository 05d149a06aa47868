-------------------------- MODULE CheckReportProofs --------------------------
(* Proofs about the rules file that CheckQueries writes, for any log, any  *)
(* answers, any rules, any number of checkers and drivers and any flags.   *)
EXTENDS CheckQueriesProofs, WellFoundedInduction

(* Why a rules file is the report of one writer.  The checkers exclude one *)
(* another by the mutex of checkQueries, and Main by waiting for all of    *)
(* them; while one of them reads the totals the counters only grow.        *)
Writing(p) == pc[p] \in {"save", "lists", "create", "encode", "total", "ok",
                         "percent", "counts", "write", "unlock"}

OneWriter ==
  /\ \A c \in Checkers : Writing(c) => writer = c
  /\ pc[Main] # "wait" => \A c \in Checkers : pc[c] = "done"

(* What a writer knows of the totals it has read. *)
ReportIsBehind ==
  \A p \in Procs :
    /\ pc[p] \in {"ok", "percent"} => report.total <= stats.total
    /\ pc[p] = "percent" => report.ok <= stats.ok
    /\ pc[p] \in {"counts", "write"} =>
         report.total <= report.percent[2] /\ report.ok <= report.percent[1]

ReportTypes ==
  /\ report = [total |-> report.total, ok |-> report.ok, percent |-> report.percent]
  /\ report.total \in Nat /\ report.ok \in Nat

ReportInv == OneWriter /\ ReportTypes /\ ReportIsBehind /\ RulesFileIsOneReport

(* Two goroutines are never both writing. *)
LEMMA WritersExclude ==
  ASSUME Shapes, OneWriter, NEW p \in Procs, NEW q \in Procs, Writing(p), Writing(q)
  PROVE  p = q
  BY CheckQueriesAssumption DEF OneWriter, Writing, Procs, Checkers

(* The invariant holds at the start. *)
LEMMA ReportInit == Init => ReportInv
<1> SUFFICES ASSUME Init PROVE ReportInv
  OBVIOUS
<1>1. OneWriter
  BY CheckQueriesAssumption DEF Init, OneWriter, Writing, Checkers, Procs
<1>2. ReportTypes
  BY DEF Init, ReportTypes, NoReport
<1>3. ReportIsBehind
  BY DEF Init, ReportIsBehind
<1>4. RulesFileIsOneReport
  BY DEF Init, RulesFileIsOneReport, NoFile
<1> QED
  BY <1>1, <1>2, <1>3, <1>4 DEF ReportInv

(* The totals are numbers, and a step never takes anything from them. *)
LEMMA TotalsGrow ==
  ASSUME Inv, [Next]_vars
  PROVE  /\ stats.total \in Nat /\ stats.ok \in Nat
         /\ stats'.total \in Nat /\ stats'.ok \in Nat
         /\ stats.total <= stats'.total /\ stats.ok <= stats'.ok
<1>1. stats.total \in Nat /\ stats.ok \in Nat
  BY PositionsFinite DEF Inv, StatsInv, StatsAreTally, IsTally, Counted, OfKind
<1>2. ASSUME NEW c \in Checkers, CountVerdict(c)
      PROVE  stats'.total = stats.total + 1 /\ stats'.ok \in {stats.ok, stats.ok + 1}
  <2>1. verdict[c].kind \in Kinds /\ IsRecord(stats)
    BY <1>2 DEF CountVerdict, Goto, Inv, CheckerInv, StatsInv
  <2>2. stats' = CountedStats(stats, verdict[c], Input[pos[c]])
    BY <1>2, <2>1, CountUnfolded DEF CountVerdict
  <2> QED
    BY <2>2 DEF CountedStats
<1>3. ASSUME NEW c \in Checkers, Check(c), ~CountVerdict(c) PROVE stats' = stats
  BY <1>3 DEF Check, Receive, Leave, GetDriver, Execute, Match, ReleaseDriver, Tick, Lock,
              Unlock, statVars
<1>4. ASSUME NEW p \in Procs, Write(p) PROVE stats' = stats
  BY <1>4 DEF Write, SaveCounts, SaveLists, CreateStatFile, EncodeStat, UpdateTotal,
              UpdateOk, UpdatePercent, UpdateIssues, WriteRulesFile, statVars
<1>5. ASSUME WaitForCheckers \/ Idle PROVE stats' = stats
  BY <1>5 DEF WaitForCheckers, Idle, statVars
<1>6. \/ stats' = stats
      \/ stats'.total = stats.total + 1 /\ stats'.ok \in {stats.ok, stats.ok + 1}
  BY <1>2, <1>3, <1>4, <1>5, StepCases
<1> QED
  BY <1>1, <1>6

(* Writers exclude one another after every step, too. *)
LEMMA OneWriterInductive == Inv /\ OneWriter /\ [Next]_vars => OneWriter'
<1> SUFFICES ASSUME Inv, OneWriter, [Next]_vars PROVE OneWriter'
  OBVIOUS
<1>0. pc \in [Procs -> Places] /\ Main \notin Checkers /\ Procs = Checkers \cup {Main}
  BY CheckQueriesAssumption DEF Inv, Shapes, OwnTypes, Procs, Checkers
<1>1. ASSUME NEW c \in Checkers, Check(c) PROVE OneWriter'
  <2>1. pc[c] # "done" /\ pc'[Main] = pc[Main] /\ \A d \in Checkers \ {c} : pc'[d] = pc[d]
    BY <1>0, <1>1 DEF Check, Receive, Leave, GetDriver, Execute, Match, CountVerdict,
                      ReleaseDriver, Tick, Lock, Unlock, Goto
  <2>2. pc[Main] = "wait"
    BY <2>1 DEF OneWriter
  <2>3. CASE Lock(c)
    <3>1. writer = Nobody /\ writer' = c
      BY <2>3 DEF Lock
    <3>2. \A d \in Checkers : ~Writing(d)
      BY <3>1, CheckQueriesAssumption DEF OneWriter, Procs
    <3> QED
      BY <2>1, <2>2, <3>1, <3>2 DEF OneWriter, Writing
  <2>4. CASE Unlock(c)
    <3>1. Writing(c) /\ pc'[c] = "receive"
      BY <1>0, <2>4 DEF Unlock, Goto, Writing
    <3>2. \A d \in Checkers \ {c} : ~Writing(d)
      BY <3>1 DEF OneWriter
    <3> QED
      BY <2>1, <2>2, <3>1, <3>2 DEF OneWriter, Writing
  <2>5. CASE ~Lock(c) /\ ~Unlock(c)
    <3>1. ~Writing(c)' /\ writer' = writer
      BY <1>0, <1>1, <2>5 DEF Check, Receive, Leave, GetDriver, Execute, Match, CountVerdict,
                ReleaseDriver, Tick, Goto, Writing
    <3> QED
      BY <2>1, <2>2, <3>1 DEF OneWriter, Writing
  <2> QED
    BY <2>3, <2>4, <2>5
<1>2. ASSUME NEW p \in Procs, Write(p) PROVE OneWriter'
  <2>1. /\ Writing(p) /\ pc[p] # "unlock" /\ writer' = writer
        /\ pc'[p] # "wait"
        /\ p # Main => pc'[p] # "exit"
        /\ \A q \in Procs \ {p} : pc'[q] = pc[q]
    BY <1>0, <1>2 DEF Write, SaveCounts, SaveLists, CreateStatFile, EncodeStat, UpdateTotal,
                UpdateOk, UpdatePercent, UpdateIssues, WriteRulesFile, AfterSave, AfterWrite,
                Goto, Writing
  <2>2. CASE p = Main
    BY <1>0, <2>1, <2>2 DEF OneWriter, Writing
  <2>3. CASE p # Main
    <3>1. pc[Main] = "wait" /\ p \in Checkers
      BY <1>0, <2>1, <2>3 DEF OneWriter, Writing
    <3> QED
      BY <1>0, <2>1, <2>3, <3>1 DEF OneWriter, Writing
  <2> QED
    BY <2>2, <2>3
<1>3. CASE WaitForCheckers
  BY <1>0, <1>3 DEF WaitForCheckers, Goto, OneWriter, Writing
<1>4. CASE Idle
  BY <1>4 DEF Idle, checkVars, OneWriter, Writing
<1> QED
  BY <1>1, <1>2, <1>3, <1>4, StepCases

(* What has been read of the totals stays behind the counters: while one   *)
(* goroutine writes, nobody else moves the report or depends on it.        *)
LEMMA ReportInductive == Inv /\ ReportInv /\ [Next]_vars => ReportInv'
<1> SUFFICES ASSUME Inv, ReportInv, [Next]_vars PROVE ReportInv'
  OBVIOUS
<1>0. OneWriter /\ OneWriter' /\ Shapes /\ ReportTypes /\ ReportIsBehind /\ RulesFileIsOneReport
  BY OneWriterInductive DEF ReportInv, Inv
<1> DEFINE Reading == {"ok", "percent", "counts", "write"}
           Goal    == ReportTypes' /\ ReportIsBehind' /\ RulesFileIsOneReport'
<1>1. /\ stats.total \in Nat /\ stats.ok \in Nat
      /\ stats'.total \in Nat /\ stats'.ok \in Nat
      /\ stats.total <= stats'.total /\ stats.ok <= stats'.ok
  BY TotalsGrow
<1>2. ASSUME UNCHANGED <<report, rulesFile>>,
             \A p \in Procs : pc'[p] \in Reading => pc[p] = pc'[p]
      PROVE  Goal
  <2>1. ReportTypes' /\ RulesFileIsOneReport'
    BY <1>0, <1>2 DEF ReportTypes, RulesFileIsOneReport
  <2>2. ReportIsBehind'
    BY <1>0, <1>1, <1>2 DEF ReportIsBehind, ReportTypes
  <2> QED
    BY <2>1, <2>2
<1>3. ASSUME NEW p \in Procs, pc[p] \in {"total", "ok", "percent", "counts", "write"},
             UNCHANGED pc \/ \E from, to \in Places : Goto(p, from, to)
      PROVE  \A q \in Procs \ {p} : pc'[q] = pc[q] /\ pc'[q] \notin Reading
  <2>1. \A q \in Procs \ {p} : pc'[q] = pc[q] /\ ~Writing(q)
    BY <1>0, <1>3, WritersExclude DEF Shapes, OwnTypes, Goto, Writing
  <2> QED
    BY <2>1 DEF Writing
<1>4. ASSUME NEW c \in Checkers, Check(c) PROVE Goal
  <2>1. /\ UNCHANGED <<report, rulesFile>>
        /\ pc'[c] \notin {"ok", "percent", "counts", "write"}
        /\ \A q \in Procs \ {c} : pc'[q] = pc[q]
    BY <1>0, <1>4 DEF Check, Receive, Leave, GetDriver, Execute, Match, CountVerdict,
         ReleaseDriver, Tick, Lock, Unlock, AfterSave, Goto, ruleVars, Shapes, OwnTypes, Procs
  <2> QED
    BY <1>2, <2>1
<1>5. ASSUME NEW p \in Procs, Write(p) PROVE Goal
  <2>1. CASE SaveCounts(p) \/ SaveLists(p) \/ CreateStatFile(p) \/ EncodeStat(p)
    <3>1. /\ UNCHANGED <<report, rulesFile>>
          /\ pc'[p] \notin {"ok", "percent", "counts", "write"}
          /\ \A q \in Procs \ {p} : pc'[q] = pc[q]
      BY <1>0, <2>1 DEF SaveCounts, SaveLists, CreateStatFile, EncodeStat, AfterSave, Goto,
           ruleVars, Shapes, OwnTypes
    <3> QED
      BY <1>2, <3>1
  <2>2. CASE UpdateTotal(p)
    <3>1. /\ pc[p] = "total" /\ pc'[p] = "ok" /\ Goto(p, "total", "ok")
          /\ report' = [report EXCEPT !.total = stats.total]
          /\ UNCHANGED <<rulesFile, stats>>
      BY <1>0, <2>2 DEF UpdateTotal, Goto, Shapes, OwnTypes, statVars
    <3>2. \A q \in Procs \ {p} : pc'[q] \notin Reading
      BY <1>3, <3>1 DEF Places
    <3>3. ReportTypes' /\ report'.total = stats.total
      BY <1>0, <1>1, <3>1 DEF ReportTypes
    <3>4. ReportIsBehind'
      BY <1>1, <3>1, <3>2, <3>3 DEF ReportIsBehind
    <3> QED
      BY <1>0, <3>1, <3>3, <3>4 DEF RulesFileIsOneReport
  <2>3. CASE UpdateOk(p)
    <3>1. /\ pc[p] = "ok" /\ pc'[p] = "percent" /\ Goto(p, "ok", "percent")
          /\ report' = [report EXCEPT !.ok = stats.ok]
          /\ UNCHANGED <<rulesFile, stats>>
      BY <1>0, <2>3 DEF UpdateOk, Goto, Shapes, OwnTypes, statVars
    <3>2. \A q \in Procs \ {p} : pc'[q] \notin Reading
      BY <1>3, <3>1 DEF Places
    <3>3. ReportTypes' /\ report'.ok = stats.ok /\ report'.total = report.total
      BY <1>0, <1>1, <3>1 DEF ReportTypes
    <3>4. ReportIsBehind'
      BY <1>0, <1>1, <3>1, <3>2, <3>3 DEF ReportIsBehind
    <3> QED
      BY <1>0, <3>1, <3>3, <3>4 DEF RulesFileIsOneReport
  <2>4. CASE UpdatePercent(p)
    <3>1. /\ pc[p] = "percent" /\ pc'[p] = "counts" /\ Goto(p, "percent", "counts")
          /\ report' = [report EXCEPT !.percent = <<stats.ok, stats.total>>]
          /\ UNCHANGED <<rulesFile, stats>>
      BY <1>0, <2>4 DEF UpdatePercent, Goto, Shapes, OwnTypes, statVars
    <3>2. \A q \in Procs \ {p} : pc'[q] \notin Reading
      BY <1>3, <3>1 DEF Places
    <3>3. /\ ReportTypes' /\ report'.ok = report.ok /\ report'.total = report.total
          /\ report'.percent = <<stats.ok, stats.total>>
      BY <1>0, <1>1, <3>1 DEF ReportTypes
    <3>4. ReportIsBehind'
      BY <1>0, <1>1, <3>1, <3>2, <3>3 DEF ReportIsBehind
    <3> QED
      BY <1>0, <3>1, <3>3, <3>4 DEF RulesFileIsOneReport
  <2>5. CASE UpdateIssues(p)
    <3>1. /\ pc[p] = "counts" /\ pc'[p] = "write" /\ Goto(p, "counts", "write")
          /\ UNCHANGED <<report, rulesFile, stats>>
      BY <1>0, <2>5 DEF UpdateIssues, Goto, Shapes, OwnTypes, statVars
    <3>2. \A q \in Procs \ {p} : pc'[q] \notin Reading
      BY <1>3, <3>1 DEF Places
    <3>3. ReportTypes' /\ RulesFileIsOneReport'
      BY <1>0, <3>1 DEF ReportTypes, RulesFileIsOneReport
    <3>4. ReportIsBehind'
      BY <1>0, <3>1, <3>2 DEF ReportIsBehind
    <3> QED
      BY <3>3, <3>4
  <2>6. CASE WriteRulesFile(p)
    <3>1. /\ pc[p] = "write" /\ UNCHANGED report
          /\ pc'[p] \notin {"ok", "percent", "counts", "write"}
          /\ \A q \in Procs \ {p} : pc'[q] = pc[q]
          /\ rulesFile' \in {[state |-> "complete", stat |-> report, issues |-> issues],
                             rulesFile, BrokenFile}
      BY <1>0, <2>6 DEF WriteRulesFile, AfterWrite, Goto, Shapes, OwnTypes
    <3>2. ReportTypes'
      BY <1>0, <3>1 DEF ReportTypes
    <3>3. ReportIsBehind'
      BY <1>0, <1>1, <3>1 DEF ReportIsBehind, ReportTypes
    <3>4. RulesFileIsOneReport'
      BY <1>0, <3>1 DEF RulesFileIsOneReport, ReportIsBehind, BrokenFile
    <3> QED
      BY <3>2, <3>3, <3>4
  <2> QED
    BY <1>5, <2>1, <2>2, <2>3, <2>4, <2>5, <2>6 DEF Write
<1>6. ASSUME WaitForCheckers PROVE Goal
  <2>1. /\ UNCHANGED <<report, rulesFile>>
        /\ pc'[Main] \notin {"ok", "percent", "counts", "write"}
        /\ \A q \in Procs \ {Main} : pc'[q] = pc[q]
    BY <1>0, <1>6 DEF WaitForCheckers, AfterWrite, Goto, ruleVars, Shapes, OwnTypes, Procs
  <2> QED
    BY <1>2, <2>1
<1>7. ASSUME Idle PROVE Goal
  BY <1>2, <1>7 DEF Idle, checkVars, ruleVars
<1>8. Goal
  BY <1>4, <1>5, <1>6, <1>7, StepCases
<1> QED
  BY <1>0, <1>8 DEF ReportInv

(* A complete rules file is the report of one writer, and its share of     *)
(* good queries is never older than the totals above it, whoever counts    *)
(* meanwhile.                                                              *)
THEOREM RulesFileIsConsistent == Spec => []RulesFileIsOneReport
<1>1. Init => Inv /\ ReportInv
  BY InvInit, ReportInit
<1>2. Inv /\ ReportInv /\ [Next]_vars => Inv' /\ ReportInv'
  BY InvInductive, ReportInductive
<1>3. ReportInv => RulesFileIsOneReport
  BY DEF ReportInv
<1> QED
  BY <1>1, <1>2, <1>3, PTL DEF Spec

-----------------------------------------------------------------------------
(* Why verdicts follow the rules file.  Without sorting no match is torn,  *)
(* and the rules change in nothing but their counters, which no match      *)
(* reads.                                                                  *)
LEMMA LeastExists ==
  ASSUME NEW S \in SUBSET Nat, S # {}
  PROVE  Min(S) \in S /\ \A i \in S : Min(S) <= i
<1> DEFINE R == OpToRel(<, Nat)
<1>1. \A i, j \in Nat : i < j => <<i, j>> \in R
  BY DEF OpToRel
<1>0. IsWellFoundedOn(R, Nat)
  BY NatLessThanWellFounded
<1> HIDE DEF R
<1>2. \E i \in S : \A j \in S : <<j, i>> \notin R
  BY <1>0, WFMin
<1>3. PICK i \in S : \A j \in S : <<j, i>> \notin R
  BY <1>2
<1>4. \A j \in S : ~(j < i) /\ j \in Nat /\ i \in Nat
  BY <1>1, <1>3
<1>5. \A j \in S : i <= j
  BY <1>4
<1> QED
  BY <1>5 DEF Min

(* A list of rules that is as loaded, except for the counters. *)
SameRules(list) ==
  /\ DOMAIN list = DOMAIN LoadedIssues
  /\ \A i \in DOMAIN LoadedIssues :
       /\ list[i].name = LoadedIssues[i].name
       /\ list[i].skip = LoadedIssues[i].skip
       /\ list[i].issueRegexp = LoadedIssues[i].issueRegexp
       /\ list[i].queryRegexp = LoadedIssues[i].queryRegexp

LEMMA RuleIsMatching ==
  ASSUME NEW list, DOMAIN list = DOMAIN LoadedIssues, NEW q, NEW m, RuleOf(list, q, m) # 0
  PROVE  RuleOf(list, q, m) \in Matching(list, q, m) /\ RuleOf(list, q, m) \in DOMAIN LoadedIssues
<1>1. Matching(list, q, m) \subseteq Nat
  BY CheckQueriesAssumption DEF Matching
<1>2. Matching(list, q, m) # {} /\ RuleOf(list, q, m) = Min(Matching(list, q, m))
  BY DEF RuleOf
<1>3. RuleOf(list, q, m) \in Matching(list, q, m)
  BY <1>1, <1>2, LeastExists
<1> QED
  BY <1>3 DEF Matching

(* Such rules give the verdicts of the loaded ones. *)
LEMMA SameRulesSameVerdict ==
  ASSUME NEW list, SameRules(list), NEW q, NEW answer, answer.issues \in Seq(STRING)
  PROVE  Verdict(list, q, answer) = Verdict(LoadedIssues, q, answer)
<1> DEFINE ms == answer.issues
<1>1. ASSUME NEW m PROVE RuleOf(list, q, m) = RuleOf(LoadedIssues, q, m)
  <2>1. Matching(list, q, m) = Matching(LoadedIssues, q, m)
    BY DEF SameRules, Matching, IsMatched, Allows
  <2> QED
    BY <2>1 DEF RuleOf
<1>2. ASSUME NEW m, RuleOf(list, q, m) # 0
      PROVE  /\ list[RuleOf(list, q, m)].name = LoadedIssues[RuleOf(LoadedIssues, q, m)].name
             /\ list[RuleOf(list, q, m)].skip = LoadedIssues[RuleOf(LoadedIssues, q, m)].skip
  BY <1>1, <1>2, RuleIsMatching DEF SameRules
<1>3. \A m : Names(list, q, m) <=> Names(LoadedIssues, q, m)
  BY <1>1, <1>2 DEF Names
<1>4. Naming(list, q, ms) = Naming(LoadedIssues, q, ms)
  BY <1>3 DEF Naming
<1>5. UnknownIssues(list, q, ms) = UnknownIssues(LoadedIssues, q, ms)
  <2>1. {m \in Range(ms) : RuleOf(list, q, m) = 0} = {m \in Range(ms) : RuleOf(LoadedIssues, q, m) = 0}
    BY <1>1
  <2> QED
    BY <2>1 DEF UnknownIssues
<1>6. CASE Naming(list, q, ms) # {}
  <2> DEFINE first == Min(Naming(list, q, ms))
  <2>1. Naming(list, q, ms) \subseteq Nat
    BY DEF Naming
  <2>2. first \in Naming(list, q, ms)
    BY <1>6, <2>1, LeastExists
  <2>3. RuleOf(list, q, ms[first]) # 0
    BY <2>2 DEF Naming, Names
  <2>4. list[RuleOf(list, q, ms[first])].name
          = LoadedIssues[RuleOf(LoadedIssues, q, ms[first])].name
    BY <1>2, <2>3
  <2> QED
    BY <1>4, <1>6, <2>4 DEF Verdict
<1>7. CASE Naming(list, q, ms) = {}
  BY <1>4, <1>5, <1>7 DEF Verdict
<1> QED
  BY <1>6, <1>7

(* A verdict "known" names a loaded rule that matches and is not skipped.  *)
Justified(v, q) ==
  \E r \in DOMAIN LoadedIssues :
    /\ v.key = <<LoadedIssues[r].name>>
    /\ ~LoadedIssues[r].skip
    /\ \E n \in DOMAIN v.answer.issues : IsMatched(LoadedIssues[r], q, v.answer.issues[n])

LEMMA VerdictIsJustified ==
  ASSUME NEW q, NEW answer, answer.issues \in Seq(STRING),
         Verdict(LoadedIssues, q, answer).kind = "known"
  PROVE  Justified(Verdict(LoadedIssues, q, answer), q)
<1> DEFINE ms    == answer.issues
           ns    == Naming(LoadedIssues, q, ms)
           first == Min(ns)
           r     == RuleOf(LoadedIssues, q, ms[first])
           v     == Verdict(LoadedIssues, q, answer)
<1>1. ns # {} /\ v.key = <<LoadedIssues[r].name>> /\ v.answer = answer
  BY DEF Verdict
<1>2. ns \subseteq Nat
  BY DEF Naming
<1>3. first \in ns
  BY <1>1, <1>2, LeastExists
<1>4. first \in DOMAIN ms /\ r # 0 /\ ~LoadedIssues[r].skip
  BY <1>3 DEF Naming, Names
<1>5. r \in DOMAIN LoadedIssues /\ IsMatched(LoadedIssues[r], q, ms[first])
  BY <1>4, RuleIsMatching DEF Matching
<1> HIDE DEF r, first
<1> QED
  BY <1>1, <1>4, <1>5 DEF Justified

Follows(v, i) ==
  v.kind \in {"known", "unknown"} => v = Verdict(LoadedIssues, Input[i], v.answer)

VerdictInv ==
  /\ torn = {}
  /\ SameRules(issues)
  /\ \A c \in Checkers : pc[c] \in {"match", "count"} => verdict[c].answer.issues \in Seq(STRING)
  /\ \A c \in Checkers : pc[c] = "count" => Follows(verdict[c], pos[c])
  /\ \A i \in Positions :
       Follows(outcome[i], i) /\ outcome[i].answer.issues \in Seq(STRING)

LEMMA VerdictInit == Init => VerdictInv
<1> SUFFICES ASSUME Init PROVE VerdictInv
  OBVIOUS
<1>1. SameRules(issues) /\ torn = {}
  BY DEF Init, SameRules
<1>2. \A c \in Checkers : pc[c] = "receive"
  BY CheckQueriesAssumption DEF Init, Checkers, Procs
<1>3. \A i \in Positions : outcome[i].kind = "none" /\ outcome[i].answer.issues = <<>>
  BY DEF Init, NoOutcome, NoAnswer
<1>4. \A i \in Positions : Follows(outcome[i], i) /\ outcome[i].answer.issues \in Seq(STRING)
  <2>1. <<>> \in Seq(STRING)
    OBVIOUS
  <2> QED
    BY <1>3, <2>1 DEF Follows
<1> QED
  BY <1>1, <1>2, <1>4 DEF VerdictInv

(* Steps that leave the verdicts and the rules alone. *)
LEMMA VerdictUntouched ==
  ASSUME VerdictInv, UNCHANGED <<torn, outcome, verdict>>, SameRules(issues'),
         \A c \in Checkers : pc'[c] \in {"match", "count"} => pc'[c] = pc[c] /\ pos'[c] = pos[c]
  PROVE  VerdictInv'
  BY DEF VerdictInv

LEMMA VerdictInductive ==
  ASSUME ~SortRulesByCount
  PROVE  Inv /\ VerdictInv /\ [Next]_vars => VerdictInv'
<1> SUFFICES ASSUME Inv, VerdictInv, [Next]_vars PROVE VerdictInv'
  OBVIOUS
<1>0. /\ pc \in [Procs -> Places] /\ pos \in [Checkers -> 0..Len(Input)]
      /\ DOMAIN verdict = Checkers /\ DOMAIN outcome = Positions
      /\ Checkers \subseteq Procs /\ Main \in Procs /\ Main \notin Checkers
      /\ SameRules(issues)
  BY CheckQueriesAssumption DEF Inv, Shapes, OwnTypes, Procs, Checkers, VerdictInv
<1>1. ASSUME NEW c \in Checkers, Check(c) PROVE VerdictInv'
  <2>0. c \in Procs /\ (Working(c) => pos[c] \in Positions)
    BY <1>0, PositionsFinite DEF Inv, CheckerInv, Shapes, OwnTypes, Working
  <2>1. CASE Execute(c)
    <3>1. PICK answer \in Answers[Input[pos[c]]] :
            /\ Goto(c, "execute", IF answer.err = "" THEN "count" ELSE "match")
            /\ verdict' = [verdict EXCEPT ![c] =
                 [kind |-> IF answer.err = "" THEN "ok" ELSE "none", key |-> <<>>, answer |-> answer]]
      BY <2>1 DEF Execute
    <3>2. UNCHANGED <<pos, outcome, issues, torn>>
      BY <2>1 DEF Execute, ruleVars
    <3>3. answer.issues \in Seq(STRING)
      BY <1>0, <2>0, <3>1, CheckQueriesAssumption DEF Goto, Working
    <3>4. /\ verdict'[c].answer = answer /\ verdict'[c].kind \in {"ok", "none"}
          /\ \A d \in Checkers \ {c} : verdict'[d] = verdict[d] /\ pc'[d] = pc[d]
      BY <1>0, <3>1 DEF Goto
    <3> QED
      BY <3>2, <3>3, <3>4 DEF VerdictInv, Follows
  <2>2. CASE Match(c)
    <3> DEFINE answer == verdict[c].answer
    <3>1. /\ pc[c] = "match" /\ pc'[c] = "count" /\ c \notin torn
          /\ verdict' = [verdict EXCEPT ![c] = Verdict(issues, Input[pos[c]], answer)]
          /\ torn' = {}
      BY <1>0, <2>2 DEF Match, Goto, VerdictInv
    <3>2. UNCHANGED <<pos, outcome, issues>>
      BY <2>2 DEF Match
    <3>3. answer.issues \in Seq(STRING)
      BY <3>1 DEF VerdictInv
    <3>4. verdict'[c] = Verdict(LoadedIssues, Input[pos[c]], answer)
      BY <1>0, <3>1, <3>3, SameRulesSameVerdict
    <3>5. Verdict(LoadedIssues, Input[pos[c]], answer).answer = answer
      BY DEF Verdict
    <3>6. \A d \in Checkers \ {c} : verdict'[d] = verdict[d] /\ pc'[d] = pc[d]
      BY <1>0, <2>2, <3>1 DEF Match, Goto
    <3> HIDE DEF answer
    <3>7. Follows(verdict'[c], pos[c]) /\ verdict'[c].answer.issues \in Seq(STRING)
      BY <3>3, <3>4, <3>5 DEF Follows
    <3> QED
      BY <3>1, <3>2, <3>6, <3>7 DEF VerdictInv
  <2>3. CASE CountVerdict(c)
    <3>1. /\ pc[c] = "count" /\ pc'[c] = "release"
          /\ \A d \in Checkers \ {c} : pc'[d] = pc[d] /\ pos'[d] = pos[d] /\ verdict'[d] = verdict[d]
          /\ outcome' = [outcome EXCEPT ![pos[c]] = verdict[c]]
          /\ UNCHANGED <<issues, torn>>
      BY <1>0, <2>3 DEF CountVerdict, Goto, ruleVars
    <3>2. pos[c] \in Positions /\ Follows(verdict[c], pos[c]) /\ verdict[c].answer.issues \in Seq(STRING)
      BY <2>0, <3>1 DEF VerdictInv, Working
    <3>3. \A i \in Positions : outcome'[i] = IF i = pos[c] THEN verdict[c] ELSE outcome[i]
      BY <1>0, <3>1, <3>2
    <3>4. \A i \in Positions : Follows(outcome'[i], i) /\ outcome'[i].answer.issues \in Seq(STRING)
      BY <3>2, <3>3 DEF VerdictInv
    <3> QED
      BY <3>1, <3>4 DEF VerdictInv
  <2>4. CASE ~Execute(c) /\ ~Match(c) /\ ~CountVerdict(c)
    <3>1. /\ pc'[c] \notin {"match", "count"}
          /\ \A d \in Checkers \ {c} : pc'[d] = pc[d] /\ pos'[d] = pos[d]
          /\ UNCHANGED <<torn, outcome, verdict, issues>>
      BY <1>0, <1>1, <2>4 DEF Check, Receive, Leave, GetDriver, ReleaseDriver, Tick, Lock, Unlock,
           AfterSave, Goto, ruleVars
    <3> QED
      BY <1>0, <3>1, VerdictUntouched
  <2> QED
    BY <2>1, <2>2, <2>3, <2>4
<1>2. ASSUME NEW p \in Procs, Write(p) PROVE VerdictInv'
  <2>1. /\ pc'[p] \notin {"match", "count"}
        /\ \A q \in Procs \ {p} : pc'[q] = pc[q]
        /\ UNCHANGED <<pos, outcome, verdict>>
    BY <1>0, <1>2 DEF Write, SaveCounts, SaveLists, CreateStatFile, EncodeStat, UpdateTotal,
         UpdateOk, UpdatePercent, UpdateIssues, WriteRulesFile, AfterSave, AfterWrite, Goto
  <2>2. CASE UpdateIssues(p)
    <3>1. issues' = UpdateCounts(issues, stats.known) /\ torn' = torn
      BY <2>2 DEF UpdateIssues
    <3>2. SameRules(UpdateCounts(issues, stats.known))
      BY <1>0, CheckQueriesAssumption DEF UpdateCounts, SameRules
    <3> QED
      BY <1>0, <2>1, <3>1, <3>2, VerdictUntouched
  <2>3. CASE ~UpdateIssues(p)
    <3>1. UNCHANGED <<issues, torn>>
      BY <1>2, <2>3 DEF Write, SaveCounts, SaveLists, CreateStatFile, EncodeStat, UpdateTotal,
           UpdateOk, UpdatePercent, WriteRulesFile, ruleVars
    <3> QED
      BY <1>0, <2>1, <3>1, VerdictUntouched
  <2> QED
    BY <2>2, <2>3
<1>3. CASE WaitForCheckers
  <2>1. /\ \A q \in Procs \ {Main} : pc'[q] = pc[q]
        /\ UNCHANGED <<pos, outcome, verdict, issues, torn>>
    BY <1>0, <1>3 DEF WaitForCheckers, Goto, ruleVars
  <2> QED
    BY <1>0, <2>1, VerdictUntouched
<1>4. CASE Idle
  <2>1. UNCHANGED <<pc, pos, outcome, verdict, issues, torn>>
    BY <1>4 DEF Idle, checkVars, ruleVars
  <2> QED
    BY <1>0, <2>1, VerdictUntouched
<1> QED
  BY <1>1, <1>2, <1>3, <1>4, StepCases

LEMMA VerdictInvHolds ==
  ASSUME ~SortRulesByCount
  PROVE  Spec => []VerdictInv
<1>1. Init => Inv /\ VerdictInv
  BY InvInit, VerdictInit
<1>2. Inv /\ VerdictInv /\ [Next]_vars => Inv' /\ VerdictInv'
  BY InvInductive, VerdictInductive
<1> QED
  BY <1>1, <1>2, PTL DEF Spec

(* Without sorting, each query is counted as the order of the rules file   *)
(* says, whatever other checkers and writers do meanwhile.                 *)
THEOREM UnsortedVerdictsFollow ==
  ASSUME ~SortRulesByCount
  PROVE  Spec => []VerdictsFollowTheFile
<1>1. VerdictInv => VerdictsFollowTheFile
  BY DEF VerdictInv, VerdictsFollowTheFile, Follows
<1> QED
  BY <1>1, VerdictInvHolds, PTL

(* So what is counted under a rule matches that rule, and the rule is not  *)
(* one to be skipped.                                                      *)
THEOREM UnsortedVerdictsJustified ==
  ASSUME ~SortRulesByCount
  PROVE  Spec => []VerdictsJustified
<1>1. VerdictInv => VerdictsJustified
  <2> SUFFICES ASSUME VerdictInv, NEW i \in OfKind(outcome, "known")
               PROVE  Justified(outcome[i], Input[i])
    BY DEF VerdictsJustified, Justified
  <2>1. /\ i \in Positions /\ outcome[i].kind = "known"
        /\ outcome[i] = Verdict(LoadedIssues, Input[i], outcome[i].answer)
        /\ outcome[i].answer.issues \in Seq(STRING)
    BY DEF VerdictInv, Follows, OfKind
  <2> QED
    BY <2>1, VerdictIsJustified
<1> QED
  BY <1>1, VerdictInvHolds, PTL

(* Nor does such a run ever panic in a match.                              *)
THEOREM UnsortedRunsDoNotPanic ==
  ASSUME ~SortRulesByCount
  PROVE  Spec => []~crashed
<1>1. Init => ~crashed
  BY DEF Init
<1>2. VerdictInv /\ ~crashed /\ [Next]_vars => ~crashed'
  BY OnlyPanicCrashes DEF VerdictInv, Panic
<1> QED
  BY <1>1, <1>2, VerdictInvHolds, PTL DEF Spec

-----------------------------------------------------------------------------
(* Why the last report is exact.  Every query that was sent is counted or  *)
(* is being worked on, and a checker ends only when all have been sent: so *)
(* when Main goes on all are counted, and the counters do not move any     *)
(* more.                                                                   *)
AllAccounted ==
  /\ \A i \in 1..sent : outcome[i].kind \in Kinds \/ \E c \in Checkers : Working(c) /\ pos[c] = i
  /\ \A c \in Checkers : pc[c] = "done" => sent = Len(Input)

(* Each loaded rule is somewhere in the array, with another counter at     *)
(* most, and that only if it was matched in this run.                      *)
Counterpart(rule, loaded, known) ==
  /\ rule = [loaded EXCEPT !.count = rule.count]
  /\ <<loaded.name>> \notin DOMAIN known => rule = loaded

IssuesKept ==
  \A i \in DOMAIN LoadedIssues : \E j \in DOMAIN issues :
    Counterpart(issues[j], LoadedIssues[i], stats.known)

Exact(rule, loaded, known) ==
  rule = IF <<loaded.name>> \in DOMAIN known
         THEN [loaded EXCEPT !.count = known[<<loaded.name>>].count]
         ELSE loaded

(* What Main has read. *)
MainReport ==
  /\ pc[Main] \in {"ok", "percent", "counts", "write"} => report.total = stats.total
  /\ pc[Main] \in {"percent", "counts", "write"} => report.ok = stats.ok
  /\ pc[Main] \in {"counts", "write"} => report.percent = <<stats.ok, stats.total>>
  /\ pc[Main] = "write" =>
       \A i \in DOMAIN LoadedIssues : \E j \in DOMAIN issues :
         Exact(issues[j], LoadedIssues[i], stats.known)

FinalInv == AllAccounted /\ IssuesKept /\ MainReport

LEMMA LoadedIsRule == \A i \in DOMAIN LoadedIssues : LoadedIssues[i] \in PgIssueRules
<1>1. LoadedIssues \in Seq(PgIssueRules)
  BY CheckQueriesAssumption
<1> QED
  BY <1>1

LEMMA FinalInit == Init => FinalInv
<1> SUFFICES ASSUME Init PROVE FinalInv
  OBVIOUS
<1>0. Main \in Procs /\ \A c \in Checkers : c \in Procs /\ c # Main
  BY CheckQueriesAssumption DEF Procs, Checkers
<1>1. AllAccounted
  BY <1>0 DEF Init, AllAccounted
<1>2. IssuesKept
  <2>1. \A i \in DOMAIN LoadedIssues :
          LoadedIssues[i] = [LoadedIssues[i] EXCEPT !.count = LoadedIssues[i].count]
    BY LoadedIsRule DEF PgIssueRules
  <2> QED
    BY <2>1 DEF Init, IssuesKept, Counterpart
<1>3. MainReport
  BY <1>0 DEF Init, MainReport
<1> QED
  BY <1>1, <1>2, <1>3 DEF FinalInv

LEMMA AllAccountedInductive == Inv /\ AllAccounted /\ [Next]_vars => AllAccounted'
<1> SUFFICES ASSUME Inv, AllAccounted, [Next]_vars PROVE AllAccounted'
  OBVIOUS
<1>0. /\ pc \in [Procs -> Places] /\ pos \in [Checkers -> 0..Len(Input)]
      /\ DOMAIN outcome = Positions /\ sent \in Nat /\ Len(Input) \in Nat
      /\ Checkers \subseteq Procs /\ Main \in Procs /\ Main \notin Checkers
      /\ 1..sent \subseteq Positions
  BY CheckQueriesAssumption, PositionsFinite DEF Inv, Shapes, OwnTypes, Procs, Checkers
<1>1. ASSUME NEW c \in Checkers, Check(c) PROVE AllAccounted'
  <2>0. \A d \in Checkers \ {c} : pc'[d] = pc[d]
    BY <1>0, <1>1 DEF Check, Receive, Leave, GetDriver, Execute, Match, CountVerdict,
                      ReleaseDriver, Tick, Lock, Unlock, Goto
  <2>1. CASE Receive(c)
    <3>1. /\ pc[c] = "receive" /\ pc'[c] = "get" /\ sent' = sent + 1 /\ pos'[c] = sent + 1
          /\ sent < Len(Input) /\ UNCHANGED outcome
          /\ \A d \in Checkers \ {c} : pos'[d] = pos[d]
      BY <1>0, <2>1 DEF Receive, Goto
    <3>2. \A d \in Checkers : Working(d) => d # c
      BY <3>1 DEF Working
    <3>3. \A i \in 1..sent : outcome[i].kind \in Kinds
             \/ \E d \in Checkers : Working(d)' /\ pos'[d] = i
      BY <2>0, <3>1, <3>2 DEF AllAccounted, Working
    <3>4. Working(c)' /\ pos'[c] = sent + 1
      BY <3>1 DEF Working
    <3>5. \A d \in Checkers : pc'[d] # "done"
      BY <2>0, <3>1, <1>0 DEF AllAccounted
    <3> QED
      BY <1>0, <3>1, <3>3, <3>4, <3>5 DEF AllAccounted
  <2>2. CASE CountVerdict(c)
    <3>1. /\ Adds(outcome, outcome', pos[c]) /\ pc'[c] = "release" /\ UNCHANGED sent
          /\ \A d \in Checkers \ {c} : pos'[d] = pos[d]
      BY <1>0, <2>2, CountKeepsInv DEF CountVerdict, Goto
    <3>2. \A i \in 1..sent : outcome'[i].kind \in Kinds
             \/ \E d \in Checkers : Working(d)' /\ pos'[d] = i
      BY <1>0, <2>0, <3>1 DEF AllAccounted, Working, Adds
    <3> QED
      BY <2>0, <3>1, <3>2 DEF AllAccounted
  <2>3. CASE ~Receive(c) /\ ~CountVerdict(c)
    <3>1. /\ UNCHANGED <<sent, pos, outcome>>
          /\ Working(c) <=> Working(c)'
          /\ pc'[c] = "done" => sent = Len(Input)
      BY <1>0, <1>1, <2>3 DEF Check, Leave, GetDriver, Execute, Match, ReleaseDriver, Tick, Lock,
           Unlock, AfterSave, Goto, Working
    <3> QED
      BY <2>0, <3>1 DEF AllAccounted, Working
  <2> QED
    BY <2>1, <2>2, <2>3
<1>2. ASSUME NEW p \in Procs, Write(p) PROVE AllAccounted'
  <2>1. /\ ~Working(p) /\ ~Working(p)' /\ pc'[p] # "done"
        /\ \A q \in Procs \ {p} : pc'[q] = pc[q]
        /\ UNCHANGED <<sent, pos, outcome>>
    BY <1>0, <1>2 DEF Write, SaveCounts, SaveLists, CreateStatFile, EncodeStat, UpdateTotal,
         UpdateOk, UpdatePercent, UpdateIssues, WriteRulesFile, AfterSave, AfterWrite, Goto, Working
  <2> QED
    BY <1>0, <2>1 DEF AllAccounted, Working
<1>3. CASE WaitForCheckers
  <2>1. /\ \A q \in Checkers : pc'[q] = pc[q]
        /\ UNCHANGED <<sent, pos, outcome>>
    BY <1>0, <1>3 DEF WaitForCheckers, Goto
  <2> QED
    BY <2>1 DEF AllAccounted, Working
<1>4. CASE Idle
  BY <1>4 DEF Idle, checkVars, AllAccounted, Working
<1> QED
  BY <1>1, <1>2, <1>3, <1>4, StepCases

(* Counting and sorting: every rule stays, and gets its counter. *)
LEMMA UpdateIsExact ==
  ASSUME NEW list, NEW known,
         \A i \in DOMAIN LoadedIssues : \E j \in DOMAIN list :
           Counterpart(list[j], LoadedIssues[i], known),
         NEW result \in {UpdateCounts(list, known)} \cup SortOutcomes(UpdateCounts(list, known))
  PROVE  \A i \in DOMAIN LoadedIssues : \E j \in DOMAIN result :
           Exact(result[j], LoadedIssues[i], known)
<1> DEFINE counted == UpdateCounts(list, known)
<1>1. \A i \in DOMAIN LoadedIssues : \E j \in DOMAIN counted :
        Exact(counted[j], LoadedIssues[i], known)
  <2> SUFFICES ASSUME NEW i \in DOMAIN LoadedIssues
               PROVE  \E j \in DOMAIN counted : Exact(counted[j], LoadedIssues[i], known)
    OBVIOUS
  <2>1. PICK j \in DOMAIN list : Counterpart(list[j], LoadedIssues[i], known)
    OBVIOUS
  <2>2. list[j] = [LoadedIssues[i] EXCEPT !.count = list[j].count]
    BY <2>1 DEF Counterpart
  <2>3. LoadedIssues[i] \in PgIssueRules
    BY LoadedIsRule
  <2>4. list[j].name = LoadedIssues[i].name
    BY <2>2, <2>3 DEF PgIssueRules
  <2>5. \A n : [list[j] EXCEPT !.count = n] = [LoadedIssues[i] EXCEPT !.count = n]
    BY <2>2, <2>3 DEF PgIssueRules
  <2>6. Exact(counted[j], LoadedIssues[i], known)
    BY <2>1, <2>4, <2>5 DEF Exact, Counterpart, UpdateCounts
  <2> QED
    BY <2>6 DEF UpdateCounts
<1>2. CASE result = counted
  BY <1>1, <1>2
<1>3. CASE result \in SortOutcomes(counted) /\ result # counted
  <2> HIDE DEF counted
  <2>1. PICK p \in Bijection(DOMAIN counted, DOMAIN counted) :
          result = [i \in DOMAIN counted |-> counted[p[i]]]
    BY <1>3 DEF SortOutcomes
  <2>2. \A j \in DOMAIN counted : \E k \in DOMAIN result : result[k] = counted[j]
    BY <2>1 DEF Bijection, Surjection
  <2> QED
    BY <1>1, <2>2
<1> QED
  BY <1>2, <1>3

(* A query that is counted adds keys to the table of the rules only. *)
LEMMA KnownKeysGrow ==
  ASSUME Inv, NEW c \in Checkers, CountVerdict(c)
  PROVE  DOMAIN stats.known \subseteq DOMAIN stats'.known
<1>1. verdict[c].kind \in Kinds /\ IsRecord(stats)
  BY DEF CountVerdict, Goto, Inv, CheckerInv, StatsInv
<1>2. stats' = CountedStats(stats, verdict[c], Input[pos[c]])
  BY <1>1, CountUnfolded DEF CountVerdict
<1> QED
  BY <1>2 DEF CountedStats, Bump

LEMMA UpdateGivesExact ==
  ASSUME IssuesKept, NEW p \in Procs, UpdateIssues(p)
  PROVE  \A i \in DOMAIN LoadedIssues : \E j \in DOMAIN issues' :
           Exact(issues'[j], LoadedIssues[i], stats.known)
<1>1. issues' \in {UpdateCounts(issues, stats.known)}
                   \cup SortOutcomes(UpdateCounts(issues, stats.known))
  BY DEF UpdateIssues
<1>2. PICK list, known, result : list = issues /\ known = stats.known /\ result = issues'
  OBVIOUS
<1>3. /\ \A i \in DOMAIN LoadedIssues : \E j \in DOMAIN list :
           Counterpart(list[j], LoadedIssues[i], known)
      /\ result \in {UpdateCounts(list, known)} \cup SortOutcomes(UpdateCounts(list, known))
  BY <1>1, <1>2 DEF IssuesKept
<1>4. \A i \in DOMAIN LoadedIssues : \E j \in DOMAIN result :
        Exact(result[j], LoadedIssues[i], known)
  BY <1>3, UpdateIsExact
<1> QED
  BY <1>2, <1>4

(* No rule is lost or mixed with another, sorted or not. *)
LEMMA IssuesKeptInductive ==
  Inv /\ IssuesKept /\ [Next]_vars => IssuesKept'
<1> SUFFICES ASSUME Inv, IssuesKept, [Next]_vars PROVE IssuesKept'
  OBVIOUS
<1>1. ASSUME NEW c \in Checkers, CountVerdict(c) PROVE IssuesKept'
  <2>1. DOMAIN stats.known \subseteq DOMAIN stats'.known /\ issues' = issues
    BY <1>1, KnownKeysGrow DEF CountVerdict, ruleVars
  <2> QED
    BY <2>1 DEF IssuesKept, Counterpart
<1>2. ASSUME NEW p \in Procs, UpdateIssues(p) PROVE IssuesKept'
  <2>1. stats' = stats
    BY <1>2 DEF UpdateIssues, statVars
  <2>2. \A i \in DOMAIN LoadedIssues : \E j \in DOMAIN issues' :
          Exact(issues'[j], LoadedIssues[i], stats.known)
    BY <1>2, UpdateGivesExact
  <2>3. ASSUME NEW i \in DOMAIN LoadedIssues, NEW rule, Exact(rule, LoadedIssues[i], stats.known)
        PROVE  Counterpart(rule, LoadedIssues[i], stats.known)
    <3>1. LoadedIssues[i] \in PgIssueRules
      BY LoadedIsRule
    <3> QED
      BY <2>3, <3>1 DEF Exact, Counterpart, PgIssueRules
  <2> QED
    BY <2>1, <2>2, <2>3 DEF IssuesKept
<1>3. ASSUME NEW c \in Checkers, Check(c), ~CountVerdict(c) PROVE UNCHANGED <<issues, stats>>
  BY <1>3 DEF Check, Receive, Leave, GetDriver, Execute, Match, ReleaseDriver, Tick, Lock,
              Unlock, statVars, ruleVars
<1>4. ASSUME NEW p \in Procs, Write(p), ~UpdateIssues(p) PROVE UNCHANGED <<issues, stats>>
  BY <1>4 DEF Write, SaveCounts, SaveLists, CreateStatFile, EncodeStat, UpdateTotal,
              UpdateOk, UpdatePercent, WriteRulesFile, statVars, ruleVars
<1>5. ASSUME WaitForCheckers \/ Idle PROVE UNCHANGED <<issues, stats>>
  BY <1>5 DEF WaitForCheckers, Idle, statVars, ruleVars
<1>6. CASE UNCHANGED <<issues, stats>>
  BY <1>6 DEF IssuesKept
<1> QED
  BY <1>1, <1>2, <1>3, <1>4, <1>5, <1>6, StepCases

(* What Main has read stays true: nobody else is left to count. *)
LEMMA MainReportInductive ==
  Inv /\ ReportInv /\ FinalInv /\ [Next]_vars => MainReport'
<1> SUFFICES ASSUME Inv, ReportInv, FinalInv, [Next]_vars PROVE MainReport'
  OBVIOUS
<1>0. /\ pc \in [Procs -> Places] /\ Main \in Procs /\ Main \notin Checkers
      /\ Procs = Checkers \cup {Main}
      /\ OneWriter /\ ReportTypes /\ MainReport /\ IssuesKept
  BY CheckQueriesAssumption DEF Inv, Shapes, OwnTypes, Procs, Checkers, ReportInv, FinalInv
<1>1. CASE pc'[Main] \notin {"ok", "percent", "counts", "write"}
  BY <1>1 DEF MainReport
<1>2. ASSUME NEW c \in Checkers, Check(c) PROVE MainReport'
  <2>1. pc[c] # "done" /\ pc'[Main] = pc[Main]
    BY <1>0, <1>2 DEF Check, Receive, Leave, GetDriver, Execute, Match, CountVerdict,
                      ReleaseDriver, Tick, Lock, Unlock, Goto
  <2>2. pc[Main] = "wait"
    BY <1>0, <2>1 DEF OneWriter
  <2> QED
    BY <1>1, <2>1, <2>2
<1>3. ASSUME NEW p \in Procs, Write(p), p # Main PROVE MainReport'
  <2>1. pc[p] # "done" /\ pc'[Main] = pc[Main]
    BY <1>0, <1>3 DEF Write, SaveCounts, SaveLists, CreateStatFile, EncodeStat, UpdateTotal,
         UpdateOk, UpdatePercent, UpdateIssues, WriteRulesFile, Goto
  <2>2. pc[Main] = "wait"
    BY <1>0, <1>3, <2>1 DEF OneWriter
  <2> QED
    BY <1>1, <2>1, <2>2
<1>4. ASSUME Write(Main) PROVE MainReport'
  <2>1. CASE SaveCounts(Main) \/ SaveLists(Main) \/ CreateStatFile(Main) \/ EncodeStat(Main)
               \/ WriteRulesFile(Main)
    <3>1. pc'[Main] \notin {"ok", "percent", "counts", "write"}
      BY <1>0, <2>1 DEF SaveCounts, SaveLists, CreateStatFile, EncodeStat, WriteRulesFile,
           AfterSave, AfterWrite, Goto
    <3> QED
      BY <1>1, <3>1
  <2>2. CASE UpdateTotal(Main)
    <3>1. pc'[Main] = "ok" /\ stats' = stats /\ report' = [report EXCEPT !.total = stats.total]
      BY <1>0, <2>2 DEF UpdateTotal, Goto, statVars
    <3>2. report'.total = stats.total
      BY <1>0, <3>1 DEF ReportTypes
    <3> QED
      BY <3>1, <3>2 DEF MainReport
  <2>3. CASE UpdateOk(Main)
    <3>1. /\ pc[Main] = "ok" /\ pc'[Main] = "percent" /\ stats' = stats
          /\ report' = [report EXCEPT !.ok = stats.ok]
      BY <1>0, <2>3 DEF UpdateOk, Goto, statVars
    <3>2. report'.ok = stats.ok /\ report'.total = report.total
      BY <1>0, <3>1 DEF ReportTypes
    <3> QED
      BY <1>0, <3>1, <3>2 DEF MainReport
  <2>4. CASE UpdatePercent(Main)
    <3>1. /\ pc[Main] = "percent" /\ pc'[Main] = "counts" /\ stats' = stats
          /\ report' = [report EXCEPT !.percent = <<stats.ok, stats.total>>]
      BY <1>0, <2>4 DEF UpdatePercent, Goto, statVars
    <3>2. /\ report'.ok = report.ok /\ report'.total = report.total
          /\ report'.percent = <<stats.ok, stats.total>>
      BY <1>0, <3>1 DEF ReportTypes
    <3> QED
      BY <1>0, <3>1, <3>2 DEF MainReport
  <2>5. CASE UpdateIssues(Main)
    <3>1. /\ pc[Main] = "counts" /\ pc'[Main] = "write" /\ UNCHANGED <<stats, report>>
      BY <1>0, <2>5 DEF UpdateIssues, Goto, statVars
    <3>2. \A i \in DOMAIN LoadedIssues : \E j \in DOMAIN issues' :
            Exact(issues'[j], LoadedIssues[i], stats.known)
      BY <1>0, <2>5, UpdateGivesExact
    <3> QED
      BY <1>0, <3>1, <3>2 DEF MainReport
  <2> QED
    BY <1>4, <2>1, <2>2, <2>3, <2>4, <2>5 DEF Write
<1>5. CASE WaitForCheckers
  <2>1. pc'[Main] \notin {"ok", "percent", "counts", "write"}
    BY <1>0, <1>5 DEF WaitForCheckers, AfterWrite, Goto
  <2> QED
    BY <1>1, <2>1
<1>6. CASE Idle
  BY <1>0, <1>6 DEF Idle, checkVars, statVars, ruleVars, MainReport
<1> QED
  BY <1>2, <1>3, <1>4, <1>5, <1>6, StepCases

(* At the last report all queries are counted. *)
LEMMA AllCounted ==
  ASSUME Inv, ReportInv, FinalInv, pc[Main] # "wait"
  PROVE  stats.total = Len(Input)
<1>1. PICK c \in Checkers : TRUE
  BY PoolAssumption DEF Checkers
<1>2. \A d \in Checkers : pc[d] = "done"
  BY DEF ReportInv, OneWriter
<1>3. sent = Len(Input) /\ \A d \in Checkers : ~Working(d)
  BY <1>1, <1>2 DEF FinalInv, AllAccounted, Working
<1>4. Positions = 1..sent /\ Len(Input) \in Nat
  BY <1>3, PositionsFinite DEF Inv, Shapes, OwnTypes
<1>5. Counted(outcome) = Positions
  BY <1>3, <1>4 DEF FinalInv, AllAccounted, Counted
<1>6. Cardinality(Positions) = Len(Input)
  <2>1. \A n \in Nat : Cardinality(1..n) = n
    <3> SUFFICES ASSUME NEW n \in Nat PROVE Cardinality(1..n) = n
      OBVIOUS
    <3>1. Cardinality(1..n) = IF 1 > n THEN 0 ELSE n - 1 + 1
      BY FS_Interval
    <3> QED
      BY <3>1
  <2> QED
    BY <1>3, <1>4, <2>1
<1> QED
  BY <1>5, <1>6 DEF Inv, StatsInv, StatsAreTally, IsTally

(* The rules that Main writes at the end account for every query: the      *)
(* totals are those of the whole log, and each rule has the number of      *)
(* queries counted under it, sorted or not; the other rules keep theirs.   *)
THEOREM FinalReportIsExact == Spec => []FinalReportExact
<1>1. Init => Inv /\ ReportInv /\ FinalInv
  BY InvInit, ReportInit, FinalInit
<1>2. Inv /\ ReportInv /\ FinalInv /\ [Next]_vars => Inv' /\ ReportInv' /\ FinalInv'
  BY InvInductive, ReportInductive, AllAccountedInductive, IssuesKeptInductive,
     MainReportInductive DEF FinalInv
<1>3. Inv /\ ReportInv /\ FinalInv => FinalReportExact
  <2> SUFFICES ASSUME Inv, ReportInv, FinalInv, pc[Main] = "write" PROVE
        /\ report.total = Len(Input)
        /\ report.ok = Cardinality(OfKind(outcome, "ok"))
        /\ report.percent = <<report.ok, report.total>>
        /\ \A i \in DOMAIN LoadedIssues : \E j \in DOMAIN issues :
             LET n       == LoadedIssues[i].name
                 matched == OfKey(outcome, "known", <<n>>)
             IN  issues[j] = IF matched = {} THEN LoadedIssues[i]
                             ELSE [LoadedIssues[i] EXCEPT !.count = Cardinality(matched)]
    BY DEF FinalReportExact
  <2>1. /\ report.total = stats.total /\ report.ok = stats.ok
        /\ report.percent = <<stats.ok, stats.total>>
    BY DEF FinalInv, MainReport
  <2>2. stats.total = Len(Input)
    BY AllCounted
  <2>3. stats.ok = Cardinality(OfKind(outcome, "ok")) /\ IsTable(stats.known, outcome, "known")
    BY DEF Inv, StatsInv, StatsAreTally, IsTally
  <2>4. ASSUME NEW key
        PROVE  /\ key \in DOMAIN stats.known <=> OfKey(outcome, "known", key) # {}
               /\ key \in DOMAIN stats.known =>
                    stats.known[key].count = Cardinality(OfKey(outcome, "known", key))
    BY <2>3 DEF IsTable, OfKey
  <2>5. ASSUME NEW i \in DOMAIN LoadedIssues
        PROVE  \E j \in DOMAIN issues :
                 issues[j] = IF OfKey(outcome, "known", <<LoadedIssues[i].name>>) = {}
                             THEN LoadedIssues[i]
                             ELSE [LoadedIssues[i] EXCEPT
                                     !.count = Cardinality(OfKey(outcome, "known", <<LoadedIssues[i].name>>))]
    <3>1. PICK j \in DOMAIN issues : Exact(issues[j], LoadedIssues[i], stats.known)
      BY DEF FinalInv, MainReport
    <3> QED
      BY <2>4, <3>1 DEF Exact
  <2> QED
    BY <2>1, <2>2, <2>3, <2>5
<1> QED
  BY <1>1, <1>2, <1>3, PTL DEF Spec

-----------------------------------------------------------------------------
(* Why the locks never stop everyone: a lock is only held by a goroutine   *)
(* that is past the places where it could have to wait for that lock.      *)
LocksInv ==
  /\ writer # Nobody => writer \in Checkers /\ Writing(writer)
  /\ readLock # Nobody => readLock \in Procs /\ pc[readLock] \in {"lists", "create", "encode"}
  /\ \A c \in Checkers : pc[c] \notin {"wait", "exit"}
  /\ pc[Main] \in {"wait", "exit"} \/ Writing(Main)

LEMMA LocksInit == Init => LocksInv
  BY CheckQueriesAssumption DEF Init, LocksInv, Procs, Checkers

LEMMA LocksInductive == Inv /\ LocksInv /\ [Next]_vars => LocksInv'
<1> SUFFICES ASSUME Inv, LocksInv, [Next]_vars PROVE LocksInv'
  OBVIOUS
<1>0. /\ pc \in [Procs -> Places] /\ Main \in Procs /\ Main \notin Checkers
      /\ Procs = Checkers \cup {Main}
      /\ Nobody \notin Procs
  BY CheckQueriesAssumption DEF Inv, Shapes, OwnTypes, Procs, Checkers
<1>1. ASSUME NEW c \in Checkers, Check(c) PROVE LocksInv'
  <2>1. /\ pc[c] \notin {"lists", "create", "encode"}
        /\ \A q \in Procs \ {c} : pc'[q] = pc[q]
        /\ pc'[c] \notin {"wait", "exit"}
        /\ UNCHANGED readLock
    BY <1>0, <1>1 DEF Check, Receive, Leave, GetDriver, Execute, Match, CountVerdict,
         ReleaseDriver, Tick, Lock, Unlock, AfterSave, Goto, statVars
  <2>2. (writer # Nobody => writer \in Checkers /\ Writing(writer))'
    <3>1. CASE Lock(c)
      BY <1>0, <3>1 DEF Lock, Goto, AfterSave, Writing
    <3>2. CASE Unlock(c)
      BY <3>2 DEF Unlock
    <3>3. CASE ~Lock(c) /\ ~Unlock(c)
      <4>1. ~Writing(c) /\ writer' = writer
        BY <1>1, <3>3 DEF Check, Receive, Leave, GetDriver, Execute, Match, CountVerdict,
             ReleaseDriver, Tick, Goto, Writing
      <4> QED
        BY <1>0, <2>1, <4>1 DEF LocksInv, Writing
    <3> QED
      BY <3>1, <3>2, <3>3
  <2> QED
    BY <1>0, <2>1, <2>2 DEF LocksInv, Writing
<1>2. ASSUME NEW p \in Procs, Write(p) PROVE LocksInv'
  <2> DEFINE Goal == /\ Writing(p) /\ UNCHANGED writer
                     /\ Writing(p)' \/ (p = Main /\ pc'[p] = "exit")
                     /\ pc'[p] # "wait" /\ \A q \in Procs \ {p} : pc'[q] = pc[q]
  <2>1. Goal
    <3>1. CASE SaveCounts(p) \/ SaveLists(p) \/ CreateStatFile(p) \/ EncodeStat(p)
      BY <1>0, <3>1 DEF SaveCounts, SaveLists, CreateStatFile, EncodeStat, AfterSave, Goto, Writing
    <3>2. CASE UpdateTotal(p) \/ UpdateOk(p) \/ UpdatePercent(p) \/ UpdateIssues(p)
      BY <1>0, <3>2 DEF UpdateTotal, UpdateOk, UpdatePercent, UpdateIssues, Goto, Writing
    <3>3. CASE WriteRulesFile(p)
      BY <1>0, <3>3 DEF WriteRulesFile, AfterWrite, Goto, Writing
    <3> QED
      BY <1>2, <3>1, <3>2, <3>3 DEF Write
  <2>2. /\ (writer # Nobody => writer \in Checkers /\ Writing(writer))'
        /\ \A c \in Checkers : pc'[c] \notin {"wait", "exit"}
        /\ pc'[Main] \in {"wait", "exit"} \/ Writing(Main)'
    BY <1>0, <2>1 DEF LocksInv, Writing
  <2>3. (readLock # Nobody => readLock \in Procs /\ pc[readLock] \in {"lists", "create", "encode"})'
    <3>1. CASE SaveCounts(p)
      BY <1>0, <3>1 DEF SaveCounts, Goto
    <3>2. CASE SaveLists(p)
      BY <1>0, <3>2 DEF SaveLists, Goto, LocksInv
    <3>3. CASE CreateStatFile(p)
      BY <1>0, <3>3 DEF CreateStatFile, Goto, LocksInv
    <3>4. CASE EncodeStat(p)
      BY <3>4 DEF EncodeStat
    <3>5. CASE UpdateTotal(p) \/ UpdateOk(p) \/ UpdatePercent(p) \/ UpdateIssues(p)
                 \/ WriteRulesFile(p)
      <4>1. pc[p] \notin {"lists", "create", "encode"} /\ UNCHANGED readLock
        BY <3>5 DEF UpdateTotal, UpdateOk, UpdatePercent, UpdateIssues, WriteRulesFile, Goto,
             statVars
      <4> QED
        BY <1>0, <2>1, <4>1 DEF LocksInv
    <3> QED
      BY <1>2, <3>1, <3>2, <3>3, <3>4, <3>5 DEF Write
  <2> QED
    BY <2>2, <2>3 DEF LocksInv
<1>3. CASE WaitForCheckers
  <2>1. /\ pc[Main] = "wait" /\ (pc'[Main] = "exit" \/ Writing(Main)')
        /\ \A q \in Procs \ {Main} : pc'[q] = pc[q]
        /\ UNCHANGED <<writer, readLock>>
    BY <1>0, <1>3 DEF WaitForCheckers, AfterWrite, Goto, Writing, statVars
  <2> QED
    BY <1>0, <1>3, <2>1 DEF LocksInv, Writing, WaitForCheckers, Goto
<1>4. CASE Idle
  BY <1>4 DEF Idle, checkVars, statVars, LocksInv, Writing
<1> QED
  BY <1>1, <1>2, <1>3, <1>4, StepCases

(* Whatever the number of goroutines and the flags, the three locks and    *)
(* wg.Wait never make all of them wait for one another.                    *)
THEOREM NeverAllStuck == Spec => []SomeoneGoesOn
<1>1. Init => Inv /\ LocksInv
  BY InvInit, LocksInit
<1>2. Inv /\ LocksInv /\ [Next]_vars => Inv' /\ LocksInv'
  BY InvInductive, LocksInductive
<1>3. Inv /\ LocksInv => SomeoneGoesOn
  <2> SUFFICES ASSUME Inv, LocksInv, pc[Main] # "exit"
               PROVE  \E p \in Procs : pc[p] # "done" /\ ~Waits(p)
    BY DEF SomeoneGoesOn
  <2>1. CASE readLock # Nobody
    BY <2>1 DEF LocksInv, Waits
  <2>2. CASE readLock = Nobody /\ writer # Nobody
    BY <2>2 DEF LocksInv, Waits, Writing, Procs
  <2>3. CASE readLock = Nobody /\ writer = Nobody
    <3>1. CASE \E c \in Checkers : pc[c] # "done"
      BY <2>3, <3>1 DEF LocksInv, Waits, Procs
    <3>2. CASE \A c \in Checkers : pc[c] = "done"
      BY <2>3, <3>2 DEF LocksInv, Waits, Writing, Procs
    <3> QED
      BY <3>1, <3>2
  <2> QED
    BY <2>1, <2>2, <2>3
<1> QED
  BY <1>1, <1>2, <1>3, PTL DEF Spec
=============================================================================
