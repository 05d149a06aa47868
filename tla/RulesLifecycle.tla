---------------------------- MODULE RulesLifecycle ----------------------------
(***************************************************************************)
(* The rules file over several runs of check-pg-queries: loaded at the     *)
(* start (LoadFromFile), rewritten with new counters every now and then    *)
(* and at the end (UpdateFromStats, WriteToFile), by a process that may be *)
(* killed at any moment and started again.  The file that is written may   *)
(* be the one that was loaded, or another one.                             *)
(*                                                                         *)
(* Only the rules and their counters are kept here.  CheckQueries has the  *)
(* goroutines of one run; here they are only there as queries that go on   *)
(* being counted while one of them writes the file.                        *)
(***************************************************************************)
EXTENDS Integers, FiniteSets

CONSTANTS RuleNames,    \* the names in the rules file
          FirstCounts,  \* the counters in it before the first run
          MaxRuns,      \* bound: runs considered
          MaxQueries    \* bound: queries of a run

ASSUME LifecycleAssumption ==
  /\ FirstCounts \in [RuleNames -> Nat]
  /\ IsFiniteSet(RuleNames)

VARIABLES sameFile,     \* write-updated-rules is rules-file
          rulesFile,    \* what is loaded
          writtenFile,  \* what is written, when it is another file
          phase,        \* of the process
          counts,       \* rules.Issues: the rules in memory, with their counters
          report,       \* rules.TotalStat.TotalCount
          matched,      \* matched[r]: queries of this run counted under r
          total,        \* queries of this run
          runs,         \* runs started
          hurt,         \* a write was begun since the last complete one
          cut           \* a write has ever been cut short

files    == <<rulesFile, writtenFile>>
lifeVars == <<sameFile, files, phase, counts, report, matched, total, runs, hurt, cut>>

NoMatches == [r \in RuleNames |-> 0]

(* A file that LoadFromFile refuses, and one that it takes.  "final" marks *)
(* the file that the last write of a run left whole, and "mine" the rules  *)
(* which that run had matched.                                             *)
Broken == [loads |-> FALSE, final |-> FALSE]
File(c, n, mine, final) ==
  [loads |-> TRUE, final |-> final, counts |-> c, total |-> n, mine |-> mine]

LifeInit ==
  /\ sameFile \in BOOLEAN
  /\ rulesFile = File(FirstCounts, 0, {}, FALSE)
  /\ writtenFile = Broken
  /\ phase = "down"
  /\ counts = NoMatches /\ report = 0
  /\ matched = NoMatches /\ total = 0
  /\ runs = 0
  /\ hurt = FALSE /\ cut = FALSE

(* The periodic write goes on beside the checkers, the last one after them. *)
Counting    == {"checking", "updating", "writing"}
Running     == Counting \cup {"lastUpdate", "lastWrite"}
IsWriting   == phase \in {"writing", "lastWrite"}
After(last) == IF last THEN "down" ELSE "checking"

(* LoadFromFile; a file that it refuses ends the process (log.Fatalf).     *)
Start ==
  /\ phase = "down" /\ runs < MaxRuns
  /\ runs' = runs + 1
  /\ IF rulesFile.loads
     THEN phase' = "checking" /\ counts' = rulesFile.counts
     ELSE phase' = "fatal" /\ UNCHANGED counts
  /\ matched' = NoMatches
  /\ total' = 0 /\ report' = 0
  /\ UNCHANGED <<sameFile, files, hurt, cut>>

(* A checker counts a query, under a rule that is in memory or otherwise.  *)
CountUnder(r) ==
  /\ phase \in Counting /\ total < MaxQueries
  /\ r \in DOMAIN counts
  /\ matched' = [matched EXCEPT ![r] = @ + 1]
  /\ total' = total + 1
  /\ UNCHANGED <<sameFile, files, phase, counts, report, runs, hurt, cut>>

CountOther ==
  /\ phase \in Counting /\ total < MaxQueries
  /\ total' = total + 1
  /\ UNCHANGED <<sameFile, files, phase, counts, report, matched, runs, hurt, cut>>

SetFile(content) ==
  IF sameFile THEN rulesFile' = content /\ UNCHANGED writtenFile
              ELSE writtenFile' = content /\ UNCHANGED rulesFile

(* UpdateFromStats begins with the totals. *)
StartUpdate(last) ==
  /\ phase = "checking"
  /\ phase' = IF last THEN "lastUpdate" ELSE "updating"
  /\ report' = total
  /\ UNCHANGED <<sameFile, files, counts, matched, total, runs, hurt, cut>>

(* Mutant of Updated: the counters of this run are added to those there. *)
Added(c) == [r \in DOMAIN c |-> c[r] + matched[r]]

(* Mutant of Updated: only the rules of this run's report are kept. *)
ReportedOnly(c) == [r \in {s \in DOMAIN c : matched[s] > 0} |-> matched[r]]

(* Only the rules that were matched in this run get a new counter. *)
Updated(c) == [r \in DOMAIN c |-> IF matched[r] > 0 THEN matched[r] ELSE c[r]]

Matched == {r \in RuleNames : matched[r] > 0}

(* Mutant of StartWrite: the file that was loaded is emptied first. *)
StartWriteInput(last) ==
  /\ phase = IF last THEN "lastUpdate" ELSE "updating"
  /\ counts' = Updated(counts)
  /\ phase' = IF last THEN "lastWrite" ELSE "writing"
  /\ rulesFile' = Broken /\ hurt' = TRUE
  /\ UNCHANGED <<sameFile, writtenFile, report, matched, total, runs, cut>>

(* The counters, read later than the totals; the encoding into a buffer;   *)
(* and the opening of the file by os.WriteFile, which empties it or fails. *)
StartWrite(last) ==
  /\ phase = IF last THEN "lastUpdate" ELSE "updating"
  /\ counts' = Updated(counts)
  /\ \/ /\ SetFile(Broken) /\ hurt' = TRUE
        /\ phase' = IF last THEN "lastWrite" ELSE "writing"
     \/ UNCHANGED <<files, hurt>> /\ phase' = After(last)
  /\ UNCHANGED <<sameFile, report, matched, total, runs, cut>>

(* What a write that is cut short may leave: a file that is refused (empty, *)
(* or cut inside a rule before its first regexp), or one that LoadFromFile  *)
(* takes with the rules before the cut, perhaps none.  Which rules come     *)
(* first is left open; one that is cut behind its first regexp is kept.     *)
CutFiles == {Broken} \cup {File([r \in kept |-> counts[r]], report, {}, FALSE) :
                              kept \in SUBSET DOMAIN counts}

CutShort == cut' = TRUE /\ (\E content \in CutFiles : SetFile(content))

(* The write succeeds, or fails with a part of the file written, which is  *)
(* logged and forgotten.                                                   *)
EndWrite(last) ==
  /\ phase = IF last THEN "lastWrite" ELSE "writing"
  /\ phase' = After(last)
  /\ \/ SetFile(File(counts, report, Matched, last)) /\ hurt' = FALSE /\ UNCHANGED cut
     \/ CutShort /\ UNCHANGED hurt
  /\ UNCHANGED <<sameFile, counts, report, matched, total, runs>>

Crash ==
  /\ phase \in Running
  /\ phase' = "down"
  /\ IF IsWriting THEN CutShort ELSE UNCHANGED <<files, cut>>
  /\ UNCHANGED <<sameFile, counts, report, matched, total, runs, hurt>>

LifeNext ==
  \/ Start \/ CountOther \/ (\E r \in RuleNames : CountUnder(r))
  \/ (\E last \in BOOLEAN : StartUpdate(last) \/ StartWrite(last) \/ EndWrite(last))
  \/ Crash

LifeSpec == LifeInit /\ [][LifeNext]_lifeVars

-----------------------------------------------------------------------------
Output == IF sameFile THEN rulesFile ELSE writtenFile

(* A command that was killed, or whose write failed, can be started again  *)
(* with the rules file: always when it writes another file, and otherwise  *)
(* unless that write was cut short and none has succeeded since.           *)
StartsAgain == phase = "fatal" => sameFile /\ hurt

(* A command runs with every rule of the file it was first given, after    *)
(* any number of updates and restarts, unless it writes the file it loads  *)
(* and a write was cut short: then a file may load that lacks the rules    *)
(* behind the cut, and later writes keep it so.                            *)
RulesAreKept == phase \in Running => (DOMAIN counts = RuleNames \/ (sameFile /\ cut))

(* The queries counted under the rules: the first, the second, ... of each. *)
Tally(c, rules) == UNION {{r} \X (1..c[r]) : r \in rules}

(* In the file that a run leaves at its end, the counters of the rules it  *)
(* has matched account for no more queries than the total beside them,     *)
(* whatever was written, cut or loaded before.  A periodic write promises  *)
(* no such thing: it reads the counters after the total.                   *)
MatchedWithinTotal ==
  Output.final => Cardinality(Tally(Output.counts, Output.mine)) <= Output.total

(* "may be same or other file as for rules-file": the command can always   *)
(* be started again with the file it wrote.                                *)
SameFileWorks == phase # "fatal"
=============================================================================
