------------------------------ MODULE JUnitReport ------------------------------
(***************************************************************************)
(* junit_report_converter.py and report-diff.py of report-processing: the  *)
(* reports of a test suite are loaded, the tests that did not start are    *)
(* added, the tests of known tickets are skipped, the result is compared   *)
(* with the full list, the unit tests are taken out; the result is then    *)
(* compared with an older one.                                             *)
(*                                                                         *)
(* A report is the sequence of its test cases, over all files and suites   *)
(* (no testsuite is nested in another).  A test case is its full name,     *)
(* "class/name", or "" when it has neither, and the tags of its children.  *)
(* The lists hold full names, as list-tests.py prints them, or what        *)
(* somebody wrote there, perhaps without a slash.                          *)
(***************************************************************************)
EXTENDS Integers, Sequences, FiniteSets, SequencesExt

CONSTANTS RawReports,   \* what the test runs left
          OldReports,   \* the reports compared with
          FullLists,    \* contents of full-test-list.txt
          UnitLists,    \* contents of unit-tests.txt
          TicketSets,   \* the tests named by the tickets of config.yaml
          WithSlash,    \* WithSlash[n] is "n/", for each n without a slash
          Tags          \* the elements that may stand in a test case

NoName == ""
Passed == <<>>

(* The fullname of a test case has a slash, or is empty. *)
FullNames == STRING \ DOMAIN WithSlash
Cases     == [name : FullNames, tags : Seq(Tags)]

(* A test case without children is reported as "OK", which is no element;  *)
(* the lists are read without their empty lines.                           *)
ASSUME ReportAssumption ==
  /\ {"error", "failure", "skipped"} \subseteq Tags /\ "OK" \notin Tags
  /\ \A n \in DOMAIN WithSlash : WithSlash[n] \in FullNames \ {NoName}
  /\ RawReports \subseteq Seq(Cases) /\ OldReports \subseteq Seq(Cases)
  /\ FullLists \subseteq Seq(STRING) /\ UnitLists \subseteq Seq(STRING)
  /\ \A l \in FullLists \cup UnitLists : \A i \in DOMAIN l : l[i] # NoName

VARIABLES raw, old, fullList, unitTests, ticketed,  \* the inputs
          flags,      \* change_error_to_failure, and the inconsistent-lists file
          report,     \* the report in memory
          step,       \* the next step, "done", or "raised"
          exitCode    \* of report-diff

reportVars == <<raw, old, fullList, unitTests, ticketed, flags, report, step, exitCode>>
inputs     == <<raw, old, fullList, unitTests, ticketed, flags>>

ReportInit ==
  /\ raw \in RawReports
  /\ old \in OldReports
  /\ fullList \in FullLists
  /\ unitTests \in UnitLists
  /\ ticketed \in TicketSets
  /\ flags \in [errorToFailure : BOOLEAN, inconsistent : BOOLEAN]
  /\ report = <<>>
  /\ step = "load"
  /\ exitCode = 0

(* load_report and _read_file_lines read the files, or raise: at a file    *)
(* that is missing, or XML that is cut short.                              *)
LoadReport ==
  /\ step = "load"
  /\ \/ report' = raw /\ step' = "errors"
     \/ UNCHANGED report /\ step' = "raised"
  /\ UNCHANGED <<inputs, exitCode>>

Names(tests) == [i \in DOMAIN tests |-> tests[i].name]

Times(list, n) == Cardinality({i \in DOMAIN list : list[i] = n})

(* get_test_names leaves out the test cases without a name. *)
TestNames(tests) == ToSet(Names(tests)) \ {NoName}

(* The places of a set, from the first one on, and what a list has there. *)
Ascending(places) ==
  [k \in 1..Cardinality(places) |->
     CHOOSE i \in places : Cardinality({j \in places : j <= i}) = k]

At(list, places) == [k \in 1..Cardinality(places) |-> list[Ascending(places)[k]]]

Renamed(tags) == [i \in DOMAIN tags |-> IF tags[i] = "error" THEN "failure" ELSE tags[i]]

ChangeErrors ==
  /\ step = "errors"
  /\ report' = IF flags.errorToFailure
               THEN [i \in DOMAIN report |-> [report[i] EXCEPT !.tags = Renamed(@)]]
               ELSE report
  /\ step' = "append"
  /\ UNCHANGED <<inputs, exitCode>>

-----------------------------------------------------------------------------
(* Mutant of NotStarted: tests are only added when nothing ran. *)
NotStartedAtAll(tests, list) == IF tests = <<>> THEN list ELSE <<>>

(* tests_to_append_list.remove, for each test case in turn, takes the      *)
(* first entry of its name that is left: the k-th entry of a name stays    *)
(* when fewer than k test cases have it.                                   *)
NotStarted(tests, list) ==
  At(list, {p \in DOMAIN list :
              Times(SubSeq(list, 1, p), list[p]) > Times(Names(tests), list[p])})

(* Otherwise remove raises: the list does not hold the test, or no longer. *)
AllListed(tests, list) ==
  \A n \in ToSet(Names(tests)) : Times(Names(tests), n) <= Times(list, n)

(* create_from_fullname: a name without a slash becomes a class. *)
FullName(n) == IF n \in DOMAIN WithSlash THEN WithSlash[n] ELSE n

(* Mutant of NewTest: the test case gets no tag. *)
NewPassedTest(n) == [name |-> FullName(n), tags |-> Passed]

NewTest(n) == [name |-> FullName(n), tags |-> <<"failure">>]

(* _append_unexisted_tests: what is left of the list, as failed tests (the *)
(* sorting of their names is left out).                                    *)
AppendNotStarted ==
  /\ step = "append"
  /\ IF AllListed(report, fullList) \/ flags.inconsistent
     THEN LET left == NotStarted(report, fullList)
          IN  /\ report' = report \o [i \in DOMAIN left |-> NewTest(left[i])]
              /\ step' = "skip"
     ELSE step' = "raised" /\ UNCHANGED report
  /\ UNCHANGED <<inputs, exitCode>>

(* skip_tests: the children are replaced, whatever the test ended with. *)
SkipTicketed ==
  /\ step = "skip"
  /\ report' = [i \in DOMAIN report |->
                  IF report[i].name \in ticketed
                  THEN [report[i] EXCEPT !.tags = <<"skipped">>] ELSE report[i]]
  /\ step' = "check"
  /\ UNCHANGED <<inputs, exitCode>>

(* _check_test_list_equals: the lists are the same when they are sorted.   *)
IsFullList(tests) ==
  \A n \in TestNames(tests) \cup ToSet(fullList) : Times(Names(tests), n) = Times(fullList, n)

CheckList ==
  /\ step = "check"
  /\ step' = IF ~flags.inconsistent /\ ~IsFullList(report) THEN "raised" ELSE "remove"
  /\ UNCHANGED <<inputs, report, exitCode>>

(* Mutant of IsRemoved: the entry stays in tests_to_remove. *)
IsNamed(i) == report[i].name \in ToSet(unitTests)

(* The first test case of each name on the list. *)
IsRemoved(i) ==
  /\ report[i].name \in ToSet(unitTests)
  /\ \A j \in 1..(i - 1) : report[j].name # report[i].name

(* _remove_tests; then the attributes are put in order and the report is   *)
(* saved, or cannot be.                                                    *)
RemoveUnitTests ==
  /\ step = "remove"
  /\ report' = At(report, {i \in DOMAIN report : ~IsRemoved(i)})
  /\ \/ /\ ToSet(unitTests) \subseteq ToSet(Names(report)) \/ flags.inconsistent
        /\ step' = "diff"
     \/ step' = "raised"
  /\ UNCHANGED <<inputs, exitCode>>

-----------------------------------------------------------------------------
(* report-diff.  The status of a test is that of its last test case, by    *)
(* the tag of its first child.                                             *)
Status(tests, n) ==
  LET last == CHOOSE i \in DOMAIN tests : /\ tests[i].name = n
                                          /\ \A j \in DOMAIN tests : tests[j].name = n => j <= i
  IN  IF n \notin ToSet(Names(tests)) THEN "NO_RUN"
      ELSE IF tests[last].tags = Passed THEN "OK" ELSE Head(tests[last].tags)

(* Mutant of Compared: the tests of the old report are not looked at. *)
ComparedNew(older, newer) == ToSet(Names(newer))

Compared(older, newer) == ToSet(Names(newer)) \cup ToSet(Names(older))

IsBroken(older, newer, n) == Status(older, n) = "OK" /\ Status(newer, n) # "OK"

(* Either report may be missing or cut short, which raises and is 1 too.   *)
Diff ==
  /\ step = "diff"
  /\ \/ /\ exitCode' = IF \E n \in Compared(old, report) : IsBroken(old, report, n) THEN 1 ELSE 0
        /\ step' = "done"
     \/ exitCode' = 1 /\ step' = "raised"
  /\ UNCHANGED <<inputs, report>>

ReportNext ==
  \/ LoadReport \/ ChangeErrors \/ AppendNotStarted \/ SkipTicketed \/ CheckList
  \/ RemoveUnitTests \/ Diff
  \/ (step \in {"done", "raised"} /\ UNCHANGED reportVars)

ReportSpec == ReportInit /\ [][ReportNext]_reportVars

-----------------------------------------------------------------------------
(* A report that is accepted with consistent lists has exactly the tests   *)
(* of the full list that are no unit tests, each as often as it is there   *)
(* (a unit test that is listed twice loses one).                           *)
ResultIsFullList ==
  step = "done" /\ ~flags.inconsistent =>
    \A n \in ToSet(Names(report)) \cup ToSet(fullList) \cup ToSet(unitTests) :
      Times(Names(report), n) =
        Times(fullList, n) - (IF n \in ToSet(unitTests) THEN 1 ELSE 0)

(* In both modes no test of the full list disappears from the result other *)
(* than a unit test: a suite that crashed or did not start is still seen,  *)
(* and so is a name that somebody wrote without a slash.                   *)
NoTestDisappears ==
  step = "done" =>
    {FullName(n) : n \in ToSet(fullList)} \ ToSet(unitTests) \subseteq ToSet(Names(report))

(* A test passes in the result only if it ran and passed, in one of its    *)
(* runs, and no ticket names it: no step makes a pass of a failure or of a *)
(* test that did not run.                                                  *)
PassesAreEarned ==
  \A i \in DOMAIN report :
    report[i].tags = Passed /\ step \in {"diff", "done"} =>
      /\ report[i].name \notin ticketed
      /\ \E j \in DOMAIN raw : raw[j].name = report[i].name /\ raw[j].tags = Passed

(* report-diff fails when a test that passed in the old report fails, is   *)
(* skipped or is missing in the new one.  Any element in a test case, also *)
(* an output, counts as a failure.                                         *)
RegressionsFail ==
  step = "done" =>
    \A n \in ToSet(Names(old)) :
      /\ \A i \in DOMAIN old : old[i].name = n => old[i].tags = Passed
      /\ \A i \in DOMAIN report : report[i].name = n => report[i].tags # Passed
      => exitCode = 1
=============================================================================
