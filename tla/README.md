# Specifications of postgres-compatibility-tests

TLA+ models of the programs in this repository, model-checked with TLC and,
for the core, proved with TLAPS. Paths below are relative to the root of the
repository; `GP` is `tools/greenplum-to-pg-tests`.

## 1. The system

The repository tests how well YDB speaks PostgreSQL. It holds

* `GP`, a Go tool with two commands. `check-pg-queries` replays a log of
  queries: goroutines ask YDB to explain each query, match the issues of the
  answer with known rules, and count; the counters are written to a stat file
  and into the rules file. `scheme-converter` turns a Greenplum schema dump
  into PostgreSQL `CREATE TABLE`s.
* `scripts/report-processing`, Python that makes one JUnit report out of what
  a test suite left, and compares two reports.
* `apps/go/url-shortener`, a small web server used as a test application.
* shell scripts and docker files that run foreign test suites against YDB, and
  data (dumps, expected results, lists of tests).

### Components

| Component | State | Operations | Shares state with | What makes it correct |
|---|---|---|---|---|
| Driver pool (`GP/internal/ydb_pool.go`) | mutex, slice of (driver, inflight) | `OpenYdbPool`, `NewYdbPool`, `Get`, `Release` | checkers | the counter is the number of holders; the load is spread; no opened driver is lost |
| Statistics (`QueryStats`) | RW lock, write mutex, counters, two tables | `CountASOK/AsKnown/AsUnknown`, getters, `SaveToFile` | checkers, stat file | counters are the exact tally; a file is the tally of one moment |
| Rules (`GP/cmd/issue_rules.go`) | list of rules with counters, totals | `LoadFromFile`, `MatchToKnownIssues`, `UpdateFromStats`, `WriteToFile` | checkers (one array), rules file | a query is filed under a rule that matches it; the file is loadable and its numbers are of one run |
| Checkers (`checkQueries`, `checkQuery`) | items counter, write mutex, a program counter for each goroutine | receive, explain, match, count, write | all of the above | every query counted once; reports never go back; the command ends |
| Log readers (`readSortedQueries`, `readSessions`, `extractQueries`) | decoder, nested maps, counter | decode, keep, sort, send | the channel of queries | order, no duplicates, the limit, an end |
| Start of the command (`Run`) | rules, pool, log | load, connect, open the log, choose a reader | pool, readers | the checkers never start without rules, driver or log |
| Schema converter (`GP/internal/converter.go`) | mode, current object, map of objects | one per kind of line; names; output | the names that `check-pg-queries` asks for | every complete table once, nothing mixed, under a name of its own |
| Report processing | report in memory, lists, tickets | append, skip, check, remove; diff | files | no test disappears, no pass is made up |
| URL shortener (`apps/go/url-shortener`) | table of URLs; requests under way | connect, create the table, form, add, redirect | database, other servers | a link that was given out keeps its target |
| Test runners, wrappers, data | files | shell steps | docker | a failed step is not reported as a pass |

### What is hard

Goroutines share one array of rules, of which one of them sorts the elements;
statistics are read and written under a read-write lock that is taken again for
each number; two files are rewritten in place while the process may be killed;
the reader and the checkers end one another through a channel; broken input
ends in four different ways; web requests of several servers meet in one table
while statements fail after they took effect. These are the hazards that `PROJECT.json` lists
line by line, with the properties that watch them.

## 2. Modules

| Module | Models | Uses |
|---|---|---|
| `YdbPool` | `Get`, `Release` | |
| `YdbPoolOpen` | `OpenYdbPool` | |
| `QuerySource` | the log readers | |
| `CommandStart` | `Run`, from the flags to the end of the log | `YdbPoolOpen`, `QuerySource` |
| `QueryStats` | the counting operators, and `IsTally`, what they are compared with | |
| `QueryTally` | abstract specification of the command | `QueryStats` |
| `IssueRules` | the rules as pure operators | |
| `CheckQueries` | the goroutines, locks and files of one run | `YdbPool`, `QueryTally`, `IssueRules` |
| `RulesLifecycle` | the rules file over several runs | |
| `PgSchema` | the schema converter and its names | |
| `ShortUrls` | abstract specification of the URL shortener | |
| `UrlShortener` | the servers, their requests and their table | `ShortUrls` |
| `JUnitReport` | report processing and comparison | |
| `YdbPoolProofs`, `CheckQueriesProofs`, `CheckReportProofs` | proofs about the command | |
| `CommandStartProofs`, `RulesLifecycleProofs` | proofs about its start and about its repetition | |
| `PgSchemaProofs`, `JUnitReportProofs`, `UrlShortenerProofs` | proofs about the other programs | |
| `MC...` | instances for TLC | |

### CheckQueries

One action stands for what a goroutine does between two points at which another
goroutine can see a difference. `pc[p]` names the place; the checkers walk

    receive -> get -> execute -> (match ->) count -> release -> tick
      -> [lock -> save -> lists -> create -> encode
               -> total -> ok -> percent -> counts -> write -> unlock] -> receive

and Main walks `wait -> total ... write -> save ... encode -> exit`, without the
mutex, as `Run` does after `wg.Wait`. `Get` and `Release` are the actions of
`YdbPool` itself, so that its invariants are checked and proved in the command, too;
`outcome` and `statFile` are the variables of `QueryTally`, which the command implements.

`readLock` is `QueryStats.m` held for reading by `SaveToFile`, the only read lock
that is held over several steps. The critical sections of the counters and the
getters are single steps that need `readLock` free where the code takes the lock
for writing (`CountASOK`, ..., `GetTotalCount`, `GetOkCount`). The mutex
`QueryStats.writeStatMutex` is held over the same steps as `readLock` and by
the same goroutine, so `SaveCounts` waits for `readLock` to be free.

The rules are passed by value and share one array. `UpdateIssues` sorts it; the
checkers that are at `match` when a sort moves a rule are put into `torn`, and
their match may then give a wrong verdict built from the names and the issues that are
there (`TornVerdicts`), or panic: the pointer of one slice of compiled patterns with the
length of another reads a nil pattern (`Panic`), and nobody recovers, so that after
`crashed` nothing moves. A match during which only counters change is not torn,
since `IsMatched` does not read them, nor is one whose answer has no issue, since it
reads no rule (`Matchers`).

Abstractions: a text is a name with a length; a regular expression is the set
of texts it matches; the rewriting of queries and the cleaning of examples for
YAML are left out (a text stands for its rewritten form, a file for its printed
form); `ok_percent` is kept as the fraction it rounds; the keys of unknown
problems are the tuple of the error and the issues they are printed from.

### QueryTally

What the command promises: each query gets one verdict that never changes
(`CountQuery`), a stat file may be emptied or cut (`Truncate`), and a complete
one is the tally of what has been counted at that moment (`Publish`).

### CommandStart, YdbPoolOpen, QuerySource

`CommandStart` is `Run` up to the end of the log: `load -> connect -> open ->
read`, or `fatal` from each of them. In `connect` the goroutines of `YdbPoolOpen`
run, one for each endpoint, any of which may fail; an append is split into the
read and the store of the slice header. In `read` the reader that the flags ask
for runs: `QuerySource` has one action for each branch of the two loops. The decoder
is the place it has reached, and "broken" is a syntax error, at which the
decoder of `encoding/json` stays. `CommandStart` composes the two by conjoining an
action of one with "the variables of the other stay as they are".

### RulesLifecycle, JUnitReport

`RulesLifecycle` splits an update of the rules file into the read of the totals
(`StartUpdate`), the later read of the counters with the encoding and the truncation of
the file (`StartWrite`), and the end of the write (`EndWrite`), with `Crash` between any two
steps. During a periodic write queries go on being counted; the last write of a run is
alone. A file that is cut short may be refused, or loaded with some of the rules
(`CutFiles`): YAML that ends at the border of an entry is still YAML.
`JUnitReport` has one action for each function that `process_report` calls, and each
of them that may raise has that end, beginning with the loading of a missing or
truncated file (`LoadReport`). A name without a slash in a list becomes a test case
whose full name has one (`FullName`). Any child of a test case is its status, also an
output. What the two loops over the report compute is
given in closed form, over the places of a list: `list.remove` takes the first entry of
a name that is left, so that the k-th entry of a name stays in the list of tests to
append exactly when fewer than k test cases have that name (`NotStarted`), and the
first test case of each listed name is removed (`IsRemoved`). `At` picks the places
of a list, in their order; two lists are equal when sorted if each name is in both
equally often (`Times`).

### PgSchema

One action for each mode and kind of line. The text of an object is the sequence
of the places of its lines. A name is a pair of identifiers, spelled as a sequence
of characters with or without quotes; a name that is too long is cut and ends with
its digest. `Digest` is a constant, any function to texts of the right length: the
code keeps 32 bits of an md5, which can collide, and the digest of the run does. The
limits of 63 and 8 characters are constants, 7 and 2 in the run.
`extractKeys`, which sorts the keys of a map, is any enumeration of the names that
is strictly increasing (`Orders`); there is exactly one.

### UrlShortener, ShortUrls

A server goes `down -> connected -> initialized -> serving`; a client is idle, at
one of the three handlers, or has an answer on its way. A handler is one action,
since it sends at most one statement to the database and keeps nothing between
requests. Statements that fail, statements whose answer is lost after they took
effect, answers that do not arrive, crashes of a server, and a table removed
behind it (`RemoveAllTables`) are all steps. The page and the status of an answer
are kept apart, because `gin` (external) sends the status with the first byte of
a page. Generated identifiers may collide: any identifier may be drawn.

`ShortUrls` is what this amounts to: a map of links that only grows until the
table is removed. The refinement mapping takes `open <- exists`, `links <- urls`, and
for `told` the links that clients were given of the table that exists now; tables
are numbered in the order of their creation to tell those links from older ones.

## 3. Runs

| Run | Bounds | Shows |
|---|---|---|
| `check_unsorted` | 2 checkers, 2 drivers, 3 queries, 4 rules, write after each query, rules not sorted | `TypeOK`, `PoolBalanced`, `PoolSpread`, `StatsAreTally`, `VerdictsFollowTheFile`, `VerdictsJustified`, `RulesFileIsOneReport`, `SomeoneGoesOn`; refinement of `TallySpec` |
| `check_fair` | 2 checkers, 1 driver, 3 queries with one answer for most texts, rules sorted, a write after every query | `FinalReportExact`, `Terminates` |
| `check_race` | 2 checkers, 4 queries, rules sorted | violated: `ExamplesMatchTheirRule` |
| `command_start` | 3 endpoints; all logs of up to 3 values out of 6 kinds, limit 0 or 2, all flags | `PoolHoldsEveryDriver`, `OpenEnds`; `SessionOrder`, `LimitHolds`, `ReadersAgree`, `ReaderEnds` |
| `source_failed` | the same logs, limits and flags | violated: `SuccessfulAreSent` |
| `source_broken` | the same | violated: `SortingEnds` |
| `lifecycle` | 3 runs of up to 2 queries, 2 rules, one file or two | `StartsAgain`, `RulesAreKept`, `MatchedWithinTotal` |
| `lifecycle_same` | the same | violated: `SameFileWorks` |
| `schema` | all dumps of up to 4 pieces out of 12 | `TablesAreConverted`, `TextsAreSegments`, `TablesStayApart` |
| `reports` | up to 3 test cases of 2 tests with failures or outputs, lists of up to 3, one with a name without a slash | `ResultIsFullList`, `NoTestDisappears`, `PassesAreEarned`, `RegressionsFail` |
| `shortener` | 2 clients, 2 servers, 2 identifiers, 2 URLs, 4 requests, 2 tables | `LinksKeepTheirTarget`, `SharedOnlyAfterRemoval`; refinement of `ShortUrls` |
| `shortener_status` | the same with 3 requests | violated: `ErrorsHaveTheirStatus` |

Why the bounds are enough. The steps of `CheckQueries` that interfere are a
count, a save, an update and a match, each of one goroutine with one other; two
checkers and Main give every pair, and three queries let a checker count while
the other writes and write again afterwards. With a write after every query, in
`check_unsorted` and `check_fair`, both checkers come to the mutex at the same time and
a match can overlap a sort. The rules are chosen so that every
branch is taken: one to skip, one that is never matched and keeps its counter,
two that match the same query. The texts have three lengths so that examples are
replaced in some orders and kept in others. Two runs after a cut write are what
`RulesLifecycle` needs, and it has three; two rules are enough for a cut file that has
one of them. A transaction with two queries, a
duplicate and a value that cannot be read fit in a log of three. Four pieces of
a dump hold a table, its second definition and something broken before, between
or after them; the pieces include two names that are too long and begin alike, one
that is exactly as long as it may be and ends like the digest of another, and a
quoted one. A link that is told, lost
with its table, and told again with another target takes two tables and four
requests (add, redirect, add, redirect); a collision takes two clients. Symmetry
is used in the runs of the shortener only, which check no liveness; no CHOOSE and
no constant of the model tells the permuted values apart.

Only `lifecycle` and `lifecycle_same` do not check for deadlock: at their bound
of runs, and after `log.Fatalf`, nothing can happen. The other specifications
have an explicit step for a process that has ended, except `UrlShortener`, where a
table can always be removed and a server started again.

### Fairness

`FairSpec` of `CheckQueries` asks for weak fairness of every goroutine: the Go
scheduler runs a goroutine that can run. That covers the locks: a mutex waited for
by two checkers is free again and again only as long as queries are left, so
weak fairness is enough. The one assumption that the code does not ensure is that
YDB answers each query: the context of `Execute` has no deadline. `Terminates` allows
a second end for runs that sort, the panic; no fairness is asked of `Panic`, since a
match can always end otherwise. `StartSpec`
of `CommandStart` asks for weak fairness of `Run` and the reader, and of every
goroutine that opens a driver: `ydb.Open` is bounded by its context of ten
seconds, and the checkers receive until the channel is closed (which is what
`Terminates` shows). `SourceSpec`, the reader alone, has the same fairness and is
used by the runs that expect a violation. No fairness is assumed of the shortener,
the converter, the reports and the life of the rules file: their properties are
safety properties.

## 4. Findings

* `check_race`: `UpdateFromStats` sorts the array other goroutines are reading.
  A query is kept as the example of a rule it does not match. (The same race can end
  the process with a panic, see `Terminates`.)
* `source_failed`: `transaction.Success` is never set to TRUE, so with
  `query-log-need-sort` and `include-failed=false` nothing is sent.
* `source_broken`: `readSessions` continues after a syntax error, and the
  decoder returns the same error for ever.
* `lifecycle_same`: a rules file that is also the one written can be left empty
  or cut, and the next run ends at once.
* `shortener_status`: `errorPage` writes the page before it sets the status, so an
  error page is sent with status 200 whatever code the handler asked for.

Other things the models show:

* With sorting, the rule a query is counted under depends on the moment it was
  checked even without a data race, since the first match decides.
  `VerdictsFollowTheFile` and `VerdictsJustified` hold, and are checked and proved,
  for the runs that do not sort.
* A stat file may be lost when it is rewritten, so that `QueryTally` cannot
  promise more than that a complete file is exact.
* In a rules file written while other checkers count, `total_ok` and the sum of the
  counters may exceed `total_checked_queries`, which was read before them.
  `RulesFileIsOneReport` says what remains true of every file, `MatchedWithinTotal`
  and `FinalReportExact` what is true of the last one of a run.
* A rules file that is written in place and cut at the border of an entry loads without
  complaint; the rules behind the cut are lost, and the next write makes that final.
  `RulesAreKept` says that nothing else loses a rule.
* The converter takes the quotes off the name of a table and not off its schema;
  `check-pg-queries` takes off both, as its test expects
  (`check_pg_queries_test.go:17-21`). It also never shortens a name. A table in a
  quoted schema, or with a name beyond 63 characters, is therefore asked for under a
  name it does not have. This is read off the two functions; no property states it.
* `schema___name` is not injective on names with underscores or quotes, which
  `TablesStayApart` leaves out. Of the other names two can meet only by the eight
  digits of the digest, or because a short name ends with the digest of a long one.
* `CREATE TABLE` without `IF NOT EXISTS` keeps a second shortener from a table that is
  there, and also means that after a crash none can be started until somebody
  removes the table, with its links. A server whose table was removed does not notice, and
  goes on in the table of the next one: then two serve one table, and only then
  (`SharedOnlyAfterRemoval`).
* A URL that cannot be parsed makes the handler panic before it looks at the
  error; the recovery of `gin` answers with an empty page and status 500, where the
  code means 400.
* `checkQueries` refuses fewer than one checker (`log.Fatalf`,
  `check_pg_queries.go:380`), so `PoolAssumption` has a client.

## 5. Proofs

All theorems hold for any values of the constants that satisfy the named
assumptions: finite sets of clients that are not empty, a pool that is not empty, texts
with a length, digests of a fixed length, answers whose issues are lists of texts, rules that `LoadFromFile` accepts, a
Main that is no checker, dumps whose `CREATE`s name two identifiers, of which no two
are spelled alike, logs whose keys are four numbers, and lists of tests without empty
lines (`_read_file_lines` drops them). The assumptions a single theorem needs beyond
these are in its ASSUME.

* `YdbPoolProofs`. `PoolInv` is the types and `PoolBalanced`; with it
  `CountersNeverNegative` says that the panic of `Release` is out of reach.
  `PoolSpread` is not inductive alone: that a `Get` picks a minimal counter helps
  only with the sum of the counters, which `HoldersFillDrivers` bounds by the
  number of clients, through the sets of holders instead of a sum.
* `CheckQueriesProofs`. `CountKeepsTally`: counting a new verdict keeps `IsTally`;
  the lemmas say how the set of positions under a key grows and how `Bump`
  follows. `CommandRunsPool` says that the steps of the command are steps of the pool,
  with which `PoolSafeInCommand` carries the theorems of the pool over. `Inv` is the inductive
  invariant behind `StatsAreTally`: the types, the tally itself, that the
  positions of the checkers are different and not counted yet (or a query would
  be counted twice), the form of a verdict, and that while `readLock` is held the
  draft agrees with the counters (or the file would mix two moments).
  The types of the values (`TypeCorrect`) need `Inv`: that the counters, the draft and
  the examples in them are numbers and texts follows from the tally, and `ValueTypes` adds
  the verdicts, the rules, the totals and the files.
  `CommandImplementsTally` follows: `CountVerdict` is `CountQuery`, `CreateStatFile`
  is `Truncate`, `EncodeStat` is `Publish` or `Truncate`, all other steps stutter.
* `CheckReportProofs` goes on from `Inv` to the rules file and the verdicts.
  `RulesFileIsOneReport` needs `OneWriter` (who fills the totals and the list of
  rules is alone, which is the mutex for the checkers and `wg.Wait` for Main) and
  `ReportIsBehind` (what was read for the report is not ahead of the counters, which
  only grow). For runs that do not sort, `SameRules` says that the array keeps the
  rules as loaded up to their counters, so that the least matching one is the same
  at any time, and `VerdictInv` carries that from the match to the count: this
  gives `UnsortedVerdictsFollow` and `UnsortedVerdictsJustified`, and with them that such a
  run never panics in a match (`UnsortedRunsDoNotPanic`). `FinalReportIsExact`
  rests on three parts: `AllAccounted` (a query received is at a checker or
  counted), `IssuesKept` (through sorting and updates each loaded rule has exactly
  one counterpart, a bijection), and `MainReport` (what Main has read so far is exact,
  since nobody counts any more). `NeverAllStuck` is the part of `Terminates` that needs no
  fairness: with `LocksInv`, who holds a lock is past the places where it waits for it, so
  following the locks from any goroutine that waits ends at one that goes on.
* `CommandStartProofs`. For the readers, `CountInv` ties the counter to what was
  sent or kept, or the limit would not bound the sorting reader; `KeptInv` says that the
  maps hold the first record of each key that was passed; `QueueInv` that what was
  sent, followed by what is queued, is in order (`LimitIsKept`, `OrderIsKept`).
  `ReadersSendTheSame` compares the readers on a log that is in order: `AgreeInv` says
  that the reader that streams has sent the records up to its place, and that the
  one that sorts has kept one record for each place and sends them by number. That a
  sequence of numbers which is increasing and has every place of the log *is* the
  log, in order, would be an induction; `GrowingIsIdentity` takes the least place at
  which it is not (`LeastExists`, from the well-foundedness of the numbers). For the
  pool, `OpenInv`: the goroutine that holds the mutex has read the slice that is
  there, so that its store loses nothing (`PoolIsComplete`).
* `RulesLifecycleProofs`. The file that is loaded is refused only if it is also the one
  that is written and a write of it was cut short and not made up for (`RunsStartAgain`);
  it lacks rules only if a write of it was ever cut (`NoRuleIsLost`).
  `MatchesAreQueries`, for the file a run leaves at its end, is about a sum, of the
  counters of the rules the run has matched. The sum is the size of the set `Tally`, the
  first, second, ... query of each rule, and `MatchInv` keeps that set no larger than the
  total while a match adds one element to it. `LastInv` is why the last write keeps
  it so though it reads the total first: nobody counts any more.
* `PgSchemaProofs`. The current text is a segment that ends at the last line
  (`CurrentInv`) only inside an object; `SavedInv` keeps the saved segments before the
  current one, so that what a second definition leaves behind never reaches a saved
  text (`SavedTextsAreSegments`). `SplitOnce` says that a text
  with the separator in it can be split in one way only if there is no underscore
  in front; with it the names are apart (`TablesHaveTheirOwnNames`), unless one is cut and
  its digest is the other's, whatever function the digest is. `RegularDumpsAreConverted` compares the automaton
  with the definition of a table over the whole dump. `ModeInv` says, for each mode,
  where in a statement the automaton is: the last CREATE before the line that is read,
  whether the line of the columns' end was passed, and that the current text is that of
  the reference so far; `SavedUpTo` that of the CREATEs before it exactly the first
  of each name is saved. A regular dump completes every CREATE, so that the next
  line is neither a CREATE nor the end while one is open (`ColumnsGoOn`,
  `StorageGoesOn`, `ViewGoesOn`): without that the modes could be mixed up.
  `OrdersCover` says that an increasing enumeration has every name, once.
* `JUnitReportProofs`. `Ascending`, the enumeration of the places of a list that an
  operation keeps, is a bijection (`AscendingIsBijection`, by the rank of a place in
  the set), so that `At` loses and doubles nothing (`AtHasThePlaces`, `AtCounts`); from
  it follow `NotStartedCovers` (each entry of the list is the name of a test case or is
  left over) and `RemoveCounts` (a removed name is there once less). The theorems then
  rest on three invariants along the steps of `process_report`: `EarnedInv`, a pass was one
  from the start, and has no ticket once the tickets are applied (`NoPassIsMadeUp`);
  `SeenInv`, after the missing tests are added the whole list is there, and only unit
  tests go (`NoTestIsLost`, in both modes); `ExactInv`, with consistent lists the
  test cases all have names, which makes the comparison of the sorted lists one of all
  of them, and its result is kept by the removal (`ResultIsExact`).
  `RegressionsAreReported` needs that a status is that of the last test case of a name
  (`StatusOfTest`), and that "OK" is no tag.
* `UrlShortenerProofs`. `LinksInv` says that not only the links clients know but also
  those in answers under way hold, and that tables of links are not newer than the
  last one; `OwnersInv` that a table has one creator, from which `ServersShareAfterRemoval`
  follows: of two servers that serve, one has lost its table. `ServersImplementLinks` is the
  refinement: `addURL` is `Add` or a stutter, whether or not its answer is lost,
  `Answered` is `Tell` or a stutter.

Every safety property of the passing runs is stated by a theorem. Only model-checked:
liveness under fairness (`Terminates`, `OpenEnds`, `ReaderEnds`), which the prover does
not handle. That the closed forms of `JUnitReport` are what the loops of the Python code
compute is a matter of reading them: it would be an induction over the report.

## 6. Not modelled

* The rewriting of query text (`fixCreateTable`,
  `fixSchemaNames`, `cutUnsupportedConstructions`) and the cleaning for YAML: replacements of regular
  expressions in a text, without state, on which no property of the models depends.
* Credentials: a choice among environment variables, without state. `ExtractIssues`
  flattens a tree of issues; the answers of `CheckQueries` are its results.
* Test suite runners (`scripts/run-*.bash`, `go-run-separate-tests.bash`) and the
  `docker-start.bash` wrappers: straight lines of commands without state of their
  own. What happens when one fails is the meaning of `set -e`, `&&`, `||` and
  pipelines in bash, and what `docker-compose` returns, neither of which this
  repository defines; a model of them would say what bash does rather than what this code
  does. What the rest of the system sees of a failed suite is a report with
  tests missing, and `JUnitReport` starts from any such report.
* In `JUnitReport`: nested suites, which the suites used here do not produce, and
  the XML itself.
* Dumps and expected results: data.
* `PrintStats`: prints, and is not called.

## 7. Plan

Done: pool, its opening, statistics, rules, checkers, readers, the start of the
command, life of the rules file, schema converter with its names, reports, URL
shortener; the abstract specifications `QueryTally` and `ShortUrls` with refinements
that are checked and proved; and the theorems of section 5, one for each
safety property of the passing runs.

What could come next, in this order:

1. A composition of `CommandStart` with `CheckQueries`, the channel between them
   in place of `Input`; the product of the two state spaces is what keeps them apart
   now, and `Terminates` and `ReaderEnds` each assume what the other shows.
2. Nested suites in `JUnitReport`, should a suite begin to produce them.
