----------------------------- MODULE CheckQueries -----------------------------
(***************************************************************************)
(* checkQueries of cmd/check_pg_queries.go and the end of the command that *)
(* calls it.  The checker goroutines (the Clients of the driver pool) take *)
(* queries from an unbuffered channel, ask the database to explain them,   *)
(* match the issues of the answer with the rules and count the verdict;    *)
(* after every WriteStatEveryItems queries the goroutine that counted the  *)
(* last of them writes the stat file and the rules file.  Main waits for   *)
(* all of them and writes both files once more.                            *)
(*                                                                         *)
(* The rules are passed by value, but the slice behind them is one: every  *)
(* goroutine matches against the array that UpdateFromStats sorts in       *)
(* place, and no lock orders the two.  A match that overlaps a sort which  *)
(* moves rules reads a mixture of rules: it may end with a wrong verdict,  *)
(* or with a panic that ends the process.                                  *)
(***************************************************************************)
EXTENDS YdbPool, QueryTally, IssueRules

CONSTANTS Answers,              \* Answers[q]: what the database may answer to q
          LoadedIssues,         \* the rules LoadFromFile returned
          WriteStatEveryItems,  \* the flags of the command
          WriteStat,            \*   write-stat-file is set
          WriteRules,           \*   write-updated-rules is set
          SortRulesByCount,
          Main                  \* the goroutine of the command

Checkers == Clients
Procs    == Checkers \cup {Main}
Nobody   == 0

ASSUME CheckQueriesAssumption ==
  /\ Main \notin Clients
  /\ Nobody \notin Procs
  /\ WriteStatEveryItems \in Nat
  /\ WriteStat \in BOOLEAN /\ WriteRules \in BOOLEAN /\ SortRulesByCount \in BOOLEAN
  /\ LoadedIssues \in Seq(PgIssueRules)
  /\ LoadFromFileAccepts(LoadedIssues)
  /\ \A i \in Positions : \A answer \in Answers[Input[i]] : answer.issues \in Seq(STRING)

(* Beside inflight and held of YdbPool, outcome and statFile of QueryTally. *)
VARIABLES
  pc,          \* where each goroutine is
  sent,        \* how many queries the reader has sent: Input[1..sent]
  pos,         \* pos[c]: the position of the query checker c works on
  verdict,     \* verdict[c]: the answer, then the verdict, on that query
  items,       \* itemsCounter
  writer,      \* the holder of the mutex writeStatMutex of checkQueries
  stats,       \* the counters of QueryStats
  readLock,    \* the goroutine that holds stats.m for reading, in SaveToFile
  draft,       \* the structure SaveToFile fills and encodes
  issues,      \* rules.Issues: the array behind the slice
  report,      \* rules.TotalStat
  rulesFile,   \* the rules file that is written
  torn,        \* the checkers whose match overlapped a sort
  crashed      \* the process has panicked

checkVars == <<pc, sent, pos, verdict, outcome, items, writer>>
statVars  == <<stats, readLock, draft, statFile>>
ruleVars  == <<issues, report, rulesFile, torn>>
vars      == <<poolVars, checkVars, statVars, ruleVars, crashed>>

NoReport == [total |-> 0, ok |-> 0, percent |-> <<0, 0>>]

Init ==
  /\ PoolInit
  /\ pc = [p \in Procs |-> IF p = Main THEN "wait" ELSE "receive"]
  /\ sent = 0
  /\ pos = [c \in Checkers |-> 0]
  /\ verdict = [c \in Checkers |-> NoOutcome]
  /\ outcome = [i \in Positions |-> NoOutcome]
  /\ items = 0
  /\ writer = Nobody
  /\ stats = EmptyStats
  /\ readLock = Nobody
  /\ draft = EmptyStats
  /\ statFile = NoFile
  /\ issues = LoadedIssues
  /\ report = NoReport
  /\ rulesFile = NoFile
  /\ torn = {}
  /\ crashed = FALSE

(* A goroutine goes on, as long as there is a process. *)
Goto(p, from, to) ==
  /\ ~crashed
  /\ pc[p] = from
  /\ pc' = [pc EXCEPT ![p] = to]
  /\ UNCHANGED crashed

-----------------------------------------------------------------------------
(* Mutant of Receive: one more read than there are queries. *)
ReceivePastTheEnd(c) ==
  /\ sent <= Len(Input)
  /\ Goto(c, "receive", "get")
  /\ sent' = sent + 1
  /\ pos' = [pos EXCEPT ![c] = sent + 1]
  /\ UNCHANGED <<poolVars, verdict, outcome, items, writer, statVars, ruleVars>>

(* for q := range queries: the reader and the checker meet on the channel, *)
(* which is closed after the last query.                                   *)
Receive(c) ==
  /\ sent < Len(Input)
  /\ Goto(c, "receive", "get")
  /\ sent' = sent + 1
  /\ pos' = [pos EXCEPT ![c] = sent + 1]
  /\ UNCHANGED <<poolVars, verdict, outcome, items, writer, statVars, ruleVars>>

Leave(c) ==
  /\ sent = Len(Input)
  /\ Goto(c, "receive", "done")
  /\ UNCHANGED <<poolVars, sent, pos, verdict, outcome, items, writer, statVars, ruleVars>>

GetDriver(c) ==
  /\ Goto(c, "get", "execute")
  /\ Get(c)
  /\ UNCHANGED <<sent, pos, verdict, outcome, items, writer, statVars, ruleVars>>

(* Execute in explain mode.  The context has no deadline. *)
Execute(c) ==
  pc[c] = "execute" /\ \E answer \in Answers[Input[pos[c]]] :
    /\ Goto(c, "execute", IF answer.err = "" THEN "count" ELSE "match")
    /\ verdict' = [verdict EXCEPT ![c] =
         [kind |-> IF answer.err = "" THEN "ok" ELSE "none", key |-> <<>>, answer |-> answer]]
    /\ UNCHANGED <<poolVars, sent, pos, outcome, items, writer, statVars, ruleVars>>

(* A torn match sees, for each issue, parts of any rules or no rule; the   *)
(* name it ends with is that of any rule, or the pointer of one with the   *)
(* length of another.                                                      *)
Garbled == "?"

TornNames == ({issues[i].name : i \in DOMAIN issues} \ {""}) \cup {Garbled}

TornVerdicts(answer) ==
  [kind : {"known"}, answer : {answer}, key : {<<n>> : n \in TornNames}]
    \cup [kind : {"unknown"}, answer : {answer},
          key : {<<answer.err>> \o Keep(answer.issues, rest) :
                   rest \in SUBSET Range(answer.issues)}]

Match(c) ==
  LET answer == verdict[c].answer
  IN  /\ Goto(c, "match", "count")
      /\ \E v \in IF c \in torn THEN TornVerdicts(answer)
                  ELSE {Verdict(issues, Input[pos[c]], answer)} :
           verdict' = [verdict EXCEPT ![c] = v]
      /\ torn' = torn \ {c}
      /\ UNCHANGED <<poolVars, sent, pos, outcome, items, writer, statVars,
                     issues, report, rulesFile>>

(* A torn copy of a rule may hold the pointer of one slice of compiled     *)
(* patterns with the length of another; IsMatched then calls a nil         *)
(* pattern, and nobody recovers: the process ends where it is.             *)
Panic(c) ==
  /\ ~crashed
  /\ pc[c] = "match" /\ c \in torn
  /\ crashed' = TRUE
  /\ UNCHANGED <<poolVars, checkVars, statVars, ruleVars>>

(* CountASOK, CountAsKnown, CountAsUnknown: stats.m is locked, so nobody   *)
(* may be reading under it.                                                *)
CountVerdict(c) ==
  /\ Goto(c, "count", "release")
  /\ readLock = Nobody
  /\ stats' = Count(stats, verdict[c], Input[pos[c]])
  /\ outcome' = [outcome EXCEPT ![pos[c]] = verdict[c]]
  /\ verdict' = [verdict EXCEPT ![c] = NoOutcome]
  /\ pos' = [pos EXCEPT ![c] = 0]
  /\ UNCHANGED <<poolVars, sent, items, writer, readLock, draft, statFile, ruleVars>>

ReleaseDriver(c) ==
  /\ Goto(c, "release", "tick")
  /\ Release(c)
  /\ UNCHANGED <<sent, pos, verdict, outcome, items, writer, statVars, ruleVars>>

WriteIsDue(counter) == WriteStatEveryItems > 0 /\ counter % WriteStatEveryItems = 0

Tick(c) ==
  /\ items' = items + 1
  /\ Goto(c, "tick", IF WriteIsDue(items + 1) THEN "lock" ELSE "receive")
  /\ UNCHANGED <<poolVars, sent, pos, verdict, outcome, writer, statVars, ruleVars>>

-----------------------------------------------------------------------------
(* A checker saves the stat, then the rules, under writeStatMutex; Main,   *)
(* after wg.Wait, writes the rules and then the stat, without it.          *)
AfterSave(p) ==
  IF p = Main THEN "exit" ELSE IF WriteRules THEN "total" ELSE "unlock"

AfterWrite(p) ==
  IF p # Main THEN "unlock" ELSE IF WriteStat THEN "save" ELSE "exit"

(* Mutant of Lock: writeStatMutex is not taken. *)
LockNothing(c) ==
  /\ Goto(c, "lock", IF WriteStat THEN "save" ELSE AfterSave(c))
  /\ writer' = c
  /\ UNCHANGED <<poolVars, sent, pos, verdict, outcome, items, statVars, ruleVars>>

Lock(c) ==
  /\ writer = Nobody
  /\ Goto(c, "lock", IF WriteStat THEN "save" ELSE AfterSave(c))
  /\ writer' = c
  /\ UNCHANGED <<poolVars, sent, pos, verdict, outcome, items, statVars, ruleVars>>

Unlock(c) ==
  /\ Goto(c, "unlock", "receive")
  /\ writer' = Nobody
  /\ UNCHANGED <<poolVars, sent, pos, verdict, outcome, items, statVars, ruleVars>>

(* Mutant of WaitForCheckers: the first checker to end ends the wait. *)
WaitForOneChecker ==
  /\ \E c \in Checkers : pc[c] = "done"
  /\ Goto(Main, "wait", IF WriteRules THEN "total" ELSE AfterWrite(Main))
  /\ UNCHANGED <<poolVars, sent, pos, verdict, outcome, items, writer, statVars, ruleVars>>

WaitForCheckers ==
  /\ \A c \in Checkers : pc[c] = "done"
  /\ Goto(Main, "wait", IF WriteRules THEN "total" ELSE AfterWrite(Main))
  /\ UNCHANGED <<poolVars, sent, pos, verdict, outcome, items, writer, statVars, ruleVars>>

(* Mutant of SaveCounts: the counters are read without the lock. *)
SaveCountsUnlocked(p) ==
  /\ Goto(p, "save", "lists")
  /\ draft' = [draft EXCEPT !.total = stats.total, !.ok = stats.ok]
  /\ UNCHANGED <<poolVars, sent, pos, verdict, outcome, items, writer,
                 stats, readLock, statFile, ruleVars>>

(* SaveToFile holds stats.m for reading, and the mutex writeStatMutex of   *)
(* QueryStats, from its first read of the counters until the file is       *)
(* written.                                                                *)
SaveCounts(p) ==
  /\ Goto(p, "save", "lists")
  /\ readLock = Nobody
  /\ readLock' = p
  /\ draft' = [draft EXCEPT !.total = stats.total, !.ok = stats.ok]
  /\ UNCHANGED <<poolVars, sent, pos, verdict, outcome, items, writer, stats, statFile, ruleVars>>

(* getTopCounter copies the tables into sorted lists; the examples are     *)
(* cleaned in the copies.                                                  *)
SaveLists(p) ==
  /\ Goto(p, "lists", "create")
  /\ draft' = [draft EXCEPT !.known = stats.known, !.unknown = stats.unknown]
  /\ UNCHANGED <<poolVars, sent, pos, verdict, outcome, items, writer,
                 stats, readLock, statFile, ruleVars>>

(* Mutant of CreateStatFile: the early return leaves stats.m locked. *)
CreateStatFileKeepsLock(p) ==
  /\ \/ /\ Goto(p, "create", AfterSave(p))
        /\ UNCHANGED statFile
     \/ /\ Goto(p, "create", "encode")
        /\ statFile' = BrokenFile
  /\ UNCHANGED <<poolVars, sent, pos, verdict, outcome, items, writer,
                 stats, draft, readLock, ruleVars>>

(* os.Create fails, or empties the file. *)
CreateStatFile(p) ==
  /\ \/ /\ Goto(p, "create", AfterSave(p))
        /\ readLock' = Nobody
        /\ UNCHANGED statFile
     \/ /\ Goto(p, "create", "encode")
        /\ statFile' = BrokenFile
        /\ UNCHANGED readLock
  /\ UNCHANGED <<poolVars, sent, pos, verdict, outcome, items, writer, stats, draft, ruleVars>>

(* Encode writes the whole file, or fails on the way. *)
EncodeStat(p) ==
  /\ Goto(p, "encode", AfterSave(p))
  /\ statFile' \in {StatFile(draft), BrokenFile}
  /\ readLock' = Nobody
  /\ draft' = EmptyStats
  /\ UNCHANGED <<poolVars, sent, pos, verdict, outcome, items, writer, stats, ruleVars>>

-----------------------------------------------------------------------------
(* UpdateFromStats takes stats.m four times: for each of the totals, and   *)
(* for the counters of the rules; twice for writing although it only reads. *)
UpdateTotal(p) ==
  /\ Goto(p, "total", "ok")
  /\ readLock = Nobody
  /\ report' = [report EXCEPT !.total = stats.total]
  /\ UNCHANGED <<poolVars, sent, pos, verdict, outcome, items, writer, statVars,
                 issues, rulesFile, torn>>

UpdateOk(p) ==
  /\ Goto(p, "ok", "percent")
  /\ readLock = Nobody
  /\ report' = [report EXCEPT !.ok = stats.ok]
  /\ UNCHANGED <<poolVars, sent, pos, verdict, outcome, items, writer, statVars,
                 issues, rulesFile, torn>>

(* The percentage is kept as the fraction it rounds. *)
UpdatePercent(p) ==
  /\ Goto(p, "percent", "counts")
  /\ report' = [report EXCEPT !.percent = <<stats.ok, stats.total>>]
  /\ UNCHANGED <<poolVars, sent, pos, verdict, outcome, items, writer, statVars,
                 issues, rulesFile, torn>>

(* Mutant of UpdateIssues: the rules are sorted whatever the flag says. *)
UpdateIssuesAndSort(p) ==
  LET counted == UpdateCounts(issues, stats.known)
  IN  /\ Goto(p, "counts", "write")
      /\ issues' \in SortOutcomes(counted)
      /\ torn' = torn
      /\ UNCHANGED <<poolVars, sent, pos, verdict, outcome, items, writer, statVars,
                     report, rulesFile>>

(* The checkers that may be reading the rules: without an issue in the     *)
(* answer MatchToKnownIssues looks at none.                                *)
Matchers == {c \in Checkers : pc[c] = "match" /\ verdict[c].answer.issues # <<>>}

(* The counters of the rules, and the sort.  Only the sort moves rules; a  *)
(* match never reads the counters.                                         *)
UpdateIssues(p) ==
  LET counted == UpdateCounts(issues, stats.known)
  IN  /\ Goto(p, "counts", "write")
      /\ issues' \in IF SortRulesByCount THEN SortOutcomes(counted) ELSE {counted}
      /\ torn' = IF issues' = counted THEN torn ELSE torn \cup Matchers
      /\ UNCHANGED <<poolVars, sent, pos, verdict, outcome, items, writer, statVars,
                     report, rulesFile>>

(* os.WriteFile writes the whole file, cannot open it, or fails on the way. *)
WriteRulesFile(p) ==
  /\ Goto(p, "write", AfterWrite(p))
  /\ rulesFile' \in {[state |-> "complete", stat |-> report, issues |-> issues],
                     rulesFile, BrokenFile}
  /\ UNCHANGED <<poolVars, sent, pos, verdict, outcome, items, writer, statVars,
                 issues, report, torn>>

-----------------------------------------------------------------------------
Check(c) ==
  \/ Receive(c) \/ Leave(c) \/ GetDriver(c) \/ Execute(c) \/ Match(c)
  \/ CountVerdict(c) \/ ReleaseDriver(c) \/ Tick(c) \/ Lock(c) \/ Unlock(c)

Write(p) ==
  \/ SaveCounts(p) \/ SaveLists(p) \/ CreateStatFile(p) \/ EncodeStat(p)
  \/ UpdateTotal(p) \/ UpdateOk(p) \/ UpdatePercent(p) \/ UpdateIssues(p)
  \/ WriteRulesFile(p)

Exited == (pc[Main] = "exit" \/ crashed) /\ UNCHANGED vars

Next ==
  \/ \E c \in Checkers : Check(c)
  \/ \E c \in Checkers : Panic(c)
  \/ \E p \in Procs : Write(p)
  \/ WaitForCheckers
  \/ Exited

Spec == Init /\ [][Next]_vars

-----------------------------------------------------------------------------
(* Each goroutine that can go on is scheduled; the database answers every  *)
(* query in the end (the code sets no deadline on it).                     *)
Fairness ==
  /\ \A c \in Checkers : WF_vars(Check(c))
  /\ \A p \in Procs : WF_vars(Write(p))
  /\ WF_vars(WaitForCheckers)

FairSpec == Spec /\ Fairness

-----------------------------------------------------------------------------
Places == {"receive", "get", "execute", "match", "count", "release", "tick",
           "lock", "unlock", "done", "wait", "exit", "save", "lists", "create",
           "encode", "total", "ok", "percent", "counts", "write"}

IsTableType(table) == table \in [DOMAIN table -> [count : Nat, example : DOMAIN QueryLen]]

IsStats(s) ==
  /\ s = [total |-> s.total, ok |-> s.ok, known |-> s.known, unknown |-> s.unknown]
  /\ s.total \in Nat /\ s.ok \in Nat
  /\ IsTableType(s.known) /\ IsTableType(s.unknown)

IsVerdict(v) ==
  /\ v = [kind |-> v.kind, key |-> v.key, answer |-> v.answer]
  /\ v.kind \in Kinds \cup {"none"}
  /\ v.answer.issues \in Seq(STRING)

Reports == [total : Nat, ok : Nat, percent : Nat \X Nat]

IsIssues(list) == list \in [DOMAIN LoadedIssues -> PgIssueRules]

IsStatFile(file) ==
  \/ file \in {NoFile, BrokenFile}
  \/ file = StatFile(file.stat) /\ IsStats(file.stat)

IsRulesFile(file) ==
  \/ file \in {NoFile, BrokenFile}
  \/ /\ file = [state |-> "complete", stat |-> file.stat, issues |-> file.issues]
     /\ file.stat \in Reports /\ IsIssues(file.issues)

(* Type invariant of the command: where each goroutine may be, and what    *)
(* the locks, the verdicts, the counters, the draft and the two files may  *)
(* hold.                                                                   *)
TypeOK ==
  /\ PoolTypeOK
  /\ pc \in [Procs -> Places]
  /\ sent \in 0..Len(Input)
  /\ pos \in [Checkers -> 0..Len(Input)]
  /\ DOMAIN verdict = Checkers /\ \A c \in Checkers : IsVerdict(verdict[c])
  /\ DOMAIN outcome = Positions /\ \A i \in Positions : IsVerdict(outcome[i])
  /\ items \in Nat
  /\ writer \in Checkers \cup {Nobody}
  /\ readLock \in Procs \cup {Nobody}
  /\ IsStats(stats) /\ IsStats(draft) /\ IsStatFile(statFile)
  /\ IsIssues(issues) /\ report \in Reports /\ IsRulesFile(rulesFile)
  /\ torn \subseteq Checkers
  /\ crashed \in BOOLEAN

(* The counters of QueryStats are, at every moment, the exact tally of the *)
(* verdicts counted so far: no increment is lost, no query is counted      *)
(* twice, and the example of a rule or reason is a shortest query counted  *)
(* under it, whatever the order in which the checkers finish.              *)
StatsAreTally == IsTally(stats, outcome)

(* The command implements its abstract specification: each query gets one  *)
(* verdict, and a complete stat file is the tally of all the queries       *)
(* counted when it is written, not a mixture of two moments.               *)
ImplementsTally == TallySpec

(* The rules that Main is about to write at the end of the run account for *)
(* every query: the totals, and the counter of every rule matched in this  *)
(* run; the other rules keep the counter they were loaded with.            *)
FinalReportExact ==
  pc[Main] = "write" =>
    /\ report.total = Len(Input)
    /\ report.ok = Cardinality(OfKind(outcome, "ok"))
    /\ report.percent = <<report.ok, report.total>>
    /\ \A i \in DOMAIN LoadedIssues : \E j \in DOMAIN issues :
         LET n       == LoadedIssues[i].name
             matched == OfKey(outcome, "known", <<n>>)
         IN  issues[j] = IF matched = {} THEN LoadedIssues[i]
                         ELSE [LoadedIssues[i] EXCEPT !.count = Cardinality(matched)]

(* A complete rules file is the report of one writer, read in the order of *)
(* UpdateFromStats: other checkers go on counting meanwhile, but the share *)
(* of good queries in the file is never older than the totals above it.    *)
RulesFileIsOneReport ==
  rulesFile.state = "complete" =>
    /\ rulesFile.stat.total <= rulesFile.stat.percent[2]
    /\ rulesFile.stat.ok <= rulesFile.stat.percent[1]

(* A query is counted under the rule that the order of the rules file      *)
(* gives to its answer, when the file is not sorted in the run.            *)
VerdictsFollowTheFile ==
  \A i \in Positions : outcome[i].kind \in {"known", "unknown"} =>
    outcome[i] = Verdict(LoadedIssues, Input[i], outcome[i].answer)

(* A query counted under the name of a rule matches that rule, with one of *)
(* the issues the database answered, and the rule is not one to skip.      *)
VerdictsJustified ==
  \A i \in OfKind(outcome, "known") : \E r \in DOMAIN LoadedIssues :
    /\ outcome[i].key = <<LoadedIssues[r].name>>
    /\ ~LoadedIssues[r].skip
    /\ \E n \in DOMAIN outcome[i].answer.issues :
         IsMatched(LoadedIssues[r], Input[i], outcome[i].answer.issues[n])

(* The comment on MatchToRules, "[rule name] query example": what is kept  *)
(* under the name of a rule is an example of that rule.                    *)
ExamplesMatchTheirRule ==
  \A n \in DOMAIN stats.known : \E r \in DOMAIN LoadedIssues :
    /\ n = <<LoadedIssues[r].name>>
    /\ \E answer \in Answers[stats.known[n].example] : \E k \in DOMAIN answer.issues :
         IsMatched(LoadedIssues[r], stats.known[n].example, answer.issues[k])

(* The operations that wait: for the mutex of checkQueries, for stats.m    *)
(* (the counters are written, or read by SaveToFile under its own mutex),  *)
(* and wg.Wait for the checkers.  The other places go on by themselves.    *)
Waits(p) ==
  \/ pc[p] = "lock" /\ writer # Nobody
  \/ pc[p] \in {"count", "save", "total", "ok"} /\ readLock # Nobody
  \/ pc[p] = "wait" /\ \E c \in Checkers : pc[c] # "done"

(* The locks taken one inside another, the early returns under them and    *)
(* wg.Wait never make everyone wait: until the command exits or crashes,   *)
(* one of its goroutines is not at its end and waits for nobody.           *)
SomeoneGoesOn ==
  pc[Main] # "exit" /\ ~crashed => \E p \in Procs : pc[p] # "done" /\ ~Waits(p)

(* The command ends, with every query counted: no goroutine waits forever  *)
(* for a lock, a driver or the end of the channel.  It can end with fewer  *)
(* only if it sorts the rules, by a panic in a torn match.                 *)
Terminates ==
  <>(\/ pc[Main] = "exit" /\ Counted(outcome) = Positions
     \/ SortRulesByCount /\ crashed)
=============================================================================
