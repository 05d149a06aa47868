-------------------------- MODULE RulesLifecycleProofs --------------------------
(***************************************************************************)
(* Proofs about the rules file over several runs, for any rules, counters  *)
(* and number of runs, kills and failed writes: when a start can fail,     *)
(* when rules can be lost, and that the file which a run leaves at its end *)
(* agrees with itself.                                                     *)
(***************************************************************************)
EXTENDS RulesLifecycle, FiniteSetTheorems, TLAPS

(* The file that is loaded is refused only if it is also the one that is   *)
(* written and its last write did not end.                                 *)
FileInv == ~rulesFile.loads => (sameFile /\ hurt)

(* "fatal" is the end: the file is as it was found. *)
FatalInv == phase = "fatal" => ~rulesFile.loads

HurtInv == IsWriting => (hurt = TRUE)

StartInv == sameFile \in BOOLEAN /\ FileInv /\ FatalInv /\ HurtInv

LEMMA StartInvInit == LifeInit => StartInv
  BY DEF LifeInit, StartInv, FileInv, FatalInv, HurtInv, IsWriting, File

(* A write of another file leaves this one; a write of this file ends with *)
(* one that loads, or is remembered as hurt.                               *)
LEMMA WriteKeepsInv ==
  ASSUME StartInv, NEW content, SetFile(content), sameFile' = sameFile,
         (hurt' = TRUE) \/ (content.loads = TRUE)
  PROVE  FileInv'
<1>1. CASE sameFile
  BY <1>1 DEF FileInv, SetFile
<1>2. CASE ~sameFile
  BY <1>2 DEF StartInv, FileInv, SetFile
<1> QED
  BY <1>1, <1>2

LEMMA StartInvInductive == StartInv /\ [LifeNext]_lifeVars => StartInv'
<1> SUFFICES ASSUME StartInv, [LifeNext]_lifeVars PROVE StartInv'
  OBVIOUS
<1> USE DEF files
<1>a. ASSUME UNCHANGED <<sameFile, files, hurt>>,
             phase' \notin {"fatal", "writing", "lastWrite"}
      PROVE  StartInv'
  BY <1>a DEF StartInv, FileInv, FatalInv, HurtInv, IsWriting
<1>b. ASSUME NEW content, SetFile(content), sameFile' = sameFile, phase' # "fatal",
             (hurt' = TRUE) \/ (content.loads = TRUE /\ ~IsWriting')
      PROVE  StartInv'
  BY <1>b, WriteKeepsInv DEF StartInv, FatalInv, HurtInv
<1>1. CASE Start
  BY <1>1 DEF Start, StartInv, FileInv, FatalInv, HurtInv, IsWriting
<1>2. CASE CountOther \/ \E r \in RuleNames : CountUnder(r)
  <2>1. UNCHANGED <<sameFile, files, hurt, phase>> /\ phase # "fatal"
    BY <1>2 DEF CountOther, CountUnder, Counting
  <2> QED
    BY <2>1 DEF StartInv, FileInv, FatalInv, HurtInv, IsWriting
<1>3. ASSUME NEW last \in BOOLEAN, StartUpdate(last) PROVE StartInv'
  BY <1>3, <1>a DEF StartUpdate
<1>4. ASSUME NEW last \in BOOLEAN, StartWrite(last) PROVE StartInv'
  <2>1. CASE SetFile(Broken) /\ hurt' = TRUE
    BY <1>4, <2>1, <1>b DEF StartWrite, After
  <2>2. CASE UNCHANGED <<files, hurt>> /\ phase' = After(last)
    BY <1>4, <2>2, <1>a DEF StartWrite, After
  <2> QED
    BY <1>4, <2>1, <2>2 DEF StartWrite
<1>c. ASSUME CutShort, IsWriting, UNCHANGED <<sameFile, hurt>>, phase' # "fatal"
      PROVE  StartInv'
  <2>1. PICK content \in CutFiles : SetFile(content)
    BY <1>c DEF CutShort
  <2>2. hurt' = TRUE
    BY <1>c DEF StartInv, HurtInv
  <2> QED
    BY <1>b, <1>c, <2>1, <2>2
<1>5. ASSUME NEW last \in BOOLEAN, EndWrite(last) PROVE StartInv'
  <2>1. sameFile' = sameFile /\ phase' \in {"down", "checking"} /\ IsWriting
    BY <1>5 DEF EndWrite, After, IsWriting
  <2>2. CASE SetFile(File(counts, report, Matched, last))
    <3>1. File(counts, report, Matched, last).loads = TRUE
      BY DEF File
    <3>2. ~IsWriting'
      BY <2>1 DEF IsWriting
    <3> QED
      BY <1>b, <2>1, <2>2, <3>1, <3>2
  <2>3. CASE CutShort /\ UNCHANGED hurt
    BY <1>c, <2>1, <2>3
  <2> QED
    BY <1>5, <2>2, <2>3 DEF EndWrite
<1>6. CASE Crash
  BY <1>6, <1>a, <1>c DEF Crash
<1>7. CASE UNCHANGED lifeVars
  BY <1>7 DEF lifeVars, StartInv, FileInv, FatalInv, HurtInv, IsWriting
<1> QED
  BY <1>1, <1>2, <1>3, <1>4, <1>5, <1>6, <1>7 DEF LifeNext

(* StartsAgain: the next run can load its rules unless it shares the file  *)
(* with its output and os.WriteFile was cut short since the last whole     *)
(* one, after any number of runs.                                          *)
THEOREM RunsStartAgain == LifeSpec => []StartsAgain
<1>1. StartInv => StartsAgain
  BY DEF StartInv, FileInv, FatalInv, StartsAgain
<1> QED
  BY <1>1, StartInvInit, StartInvInductive, PTL DEF LifeSpec
-----------------------------------------------------------------------------
(* The file that is loaded, and the process that loaded it, lack rules     *)
(* only if that file is also the one that is written and a write was cut.  *)
Excused == sameFile /\ cut

KeptInv ==
  /\ rulesFile.loads => ((DOMAIN rulesFile.counts = RuleNames) \/ Excused)
  /\ (phase \in Running) => ((DOMAIN counts = RuleNames) \/ Excused)

LEMMA KeptInvInit == LifeInit => KeptInv
<1> SUFFICES ASSUME LifeInit PROVE KeptInv
  OBVIOUS
<1>1. DOMAIN rulesFile.counts = RuleNames
  BY LifecycleAssumption DEF LifeInit, File
<1>2. phase \notin Running
  BY DEF LifeInit, Running, Counting
<1> QED
  BY <1>1, <1>2 DEF KeptInv

(* A write of another file leaves this one; a write of this one puts the   *)
(* rules of the process there, or is remembered as cut.                    *)
LEMMA WriteKeepsRules ==
  ASSUME KeptInv, NEW content, SetFile(content), sameFile' = sameFile, cut => cut',
         cut' \/ (content.loads = FALSE) \/ (DOMAIN content.counts = RuleNames) \/ Excused
  PROVE  rulesFile'.loads => ((DOMAIN rulesFile'.counts = RuleNames) \/ Excused')
<1>1. CASE sameFile
  BY <1>1 DEF SetFile, Excused
<1>2. CASE ~sameFile
  BY <1>2 DEF KeptInv, SetFile, Excused
<1> QED
  BY <1>1, <1>2

LEMMA KeptInvInductive == KeptInv /\ [LifeNext]_lifeVars => KeptInv'
<1> SUFFICES ASSUME KeptInv, [LifeNext]_lifeVars PROVE KeptInv'
  OBVIOUS
<1> USE DEF files
<1>a. ASSUME UNCHANGED <<sameFile, cut, files>>, DOMAIN counts' = DOMAIN counts,
             (phase' \in Running) => (phase \in Running)
      PROVE  KeptInv'
  BY <1>a DEF KeptInv, Excused
<1>b. ASSUME NEW content, SetFile(content), sameFile' = sameFile, cut => cut',
             DOMAIN counts' = DOMAIN counts, phase \in Running,
             cut' \/ (content.loads = FALSE) \/ (DOMAIN content.counts = DOMAIN counts)
      PROVE  KeptInv'
  <2>1. DOMAIN counts = RuleNames \/ Excused
    BY <1>b DEF KeptInv
  <2>2. Excused => Excused'
    BY <1>b DEF Excused
  <2>3. rulesFile'.loads => ((DOMAIN rulesFile'.counts = RuleNames) \/ Excused')
    BY <1>b, <2>1, WriteKeepsRules
  <2> QED
    BY <1>b, <2>1, <2>2, <2>3 DEF KeptInv
<1>c. ASSUME CutShort, phase \in Running, UNCHANGED <<sameFile, counts>>
      PROVE  KeptInv'
  <2>1. PICK content \in CutFiles : SetFile(content)
    BY <1>c DEF CutShort
  <2>2. cut'
    BY <1>c DEF CutShort
  <2> QED
    BY <1>b, <1>c, <2>1, <2>2
<1>1. CASE Start
  BY <1>1 DEF Start, KeptInv, Excused, Running, Counting
<1>2. CASE CountOther \/ \E r \in RuleNames : CountUnder(r)
  BY <1>2, <1>a DEF CountOther, CountUnder
<1>3. ASSUME NEW last \in BOOLEAN, StartUpdate(last) PROVE KeptInv'
  BY <1>3, <1>a DEF StartUpdate, Running, Counting
<1>4. ASSUME NEW last \in BOOLEAN, StartWrite(last) PROVE KeptInv'
  <2>1. DOMAIN counts' = DOMAIN counts
    BY <1>4 DEF StartWrite, Updated
  <2>2. sameFile' = sameFile /\ cut' = cut /\ phase \in Running
    BY <1>4 DEF StartWrite, Running, Counting
  <2>3. CASE SetFile(Broken)
    BY <1>b, <2>1, <2>2, <2>3 DEF Broken
  <2>4. CASE UNCHANGED files
    BY <1>a, <2>1, <2>2, <2>4
  <2> QED
    BY <1>4, <2>3, <2>4 DEF StartWrite
<1>5. ASSUME NEW last \in BOOLEAN, EndWrite(last) PROVE KeptInv'
  <2>1. UNCHANGED <<sameFile, counts>> /\ phase \in Running
    BY <1>5 DEF EndWrite, Running, Counting
  <2>2. CASE SetFile(File(counts, report, Matched, last)) /\ UNCHANGED cut
    <3>1. File(counts, report, Matched, last).counts = counts
      BY DEF File
    <3> QED
      BY <1>b, <2>1, <2>2, <3>1
  <2>3. CASE CutShort
    BY <1>c, <2>1, <2>3
  <2> QED
    BY <1>5, <2>2, <2>3 DEF EndWrite
<1>6. CASE Crash
  BY <1>6, <1>a, <1>c DEF Crash
<1>7. CASE UNCHANGED lifeVars
  BY <1>7, <1>a DEF lifeVars
<1> QED
  BY <1>1, <1>2, <1>3, <1>4, <1>5, <1>6, <1>7 DEF LifeNext

(* RulesAreKept: no rule is lost over any number of runs, kills and failed *)
(* writes when another file is written, nor when no write was cut short.   *)
THEOREM NoRuleIsLost == LifeSpec => []RulesAreKept
<1>1. KeptInv => RulesAreKept
  BY DEF KeptInv, Excused, RulesAreKept
<1> QED
  BY <1>1, KeptInvInit, KeptInvInductive, PTL DEF LifeSpec
-----------------------------------------------------------------------------
(* Why a last report never claims more matches than queries.  In memory    *)
(* each query is counted under one rule at the most; from the moment the   *)
(* last write reads its total no query is counted; while it is written the *)
(* counters of the matched rules are those of this run; and what is in a   *)
(* file was so when it was written.                                        *)
FileIsBounded(file) ==
  file.final => Cardinality(Tally(file.counts, file.mine)) <= file.total

MatchInv ==
  /\ total \in Nat /\ matched \in [RuleNames -> Nat]
  /\ IsFiniteSet(Tally(matched, RuleNames))
  /\ Cardinality(Tally(matched, RuleNames)) <= total

HeldInv == Matched \subseteq DOMAIN counts

LastInv ==
  /\ (phase \in {"lastUpdate", "lastWrite"}) => (report = total)
  /\ (phase = "lastWrite") => (\A r \in Matched : counts[r] = matched[r])

OutputInv == sameFile \in BOOLEAN /\ FileIsBounded(Output)

TotalsInv == MatchInv /\ HeldInv /\ LastInv /\ OutputInv

LEMMA NoMatchesInv ==
  /\ Tally(NoMatches, RuleNames) = {} /\ \A c : Tally(c, {}) = {}
  /\ IsFiniteSet({}) /\ Cardinality({}) = 0
<1>1. Tally(NoMatches, RuleNames) = {}
  BY DEF Tally, NoMatches
<1> QED
  BY <1>1, FS_EmptySet DEF Tally

LEMMA TotalsInvInit == LifeInit => TotalsInv
<1> SUFFICES ASSUME LifeInit PROVE TotalsInv
  OBVIOUS
<1>1. MatchInv /\ HeldInv
  BY NoMatchesInv DEF LifeInit, MatchInv, HeldInv, Matched, NoMatches
<1>2. LastInv
  BY DEF LifeInit, LastInv
<1>3. OutputInv
  BY DEF LifeInit, OutputInv, Output, FileIsBounded, File, Broken
<1> QED
  BY <1>1, <1>2, <1>3 DEF TotalsInv

(* One more query under a rule is one more element of the tally. *)
LEMMA CountUnderInv ==
  ASSUME MatchInv, NEW r \in RuleNames, CountUnder(r)
  PROVE  MatchInv'
<1> DEFINE n == matched[r]
           old == Tally(matched, RuleNames)
           new == Tally(matched', RuleNames)
<1>1. total \in Nat /\ matched \in [RuleNames -> Nat] /\ n \in Nat
  BY DEF MatchInv
<1>2. matched' = [matched EXCEPT ![r] = n + 1] /\ total' = total + 1
  BY DEF CountUnder
<1>3. matched' \in [RuleNames -> Nat] /\ matched'[r] = n + 1
      /\ \A s \in RuleNames \ {r} : matched'[s] = matched[s]
  BY <1>1, <1>2
<1>4. <<r, n + 1>> \notin old
  BY <1>1 DEF Tally
<1>5. new = old \cup {<<r, n + 1>>}
  <2>1. 1..(n + 1) = (1..n) \cup {n + 1}
    BY <1>1
  <2>2. \A s \in RuleNames :
          {s} \X (1..matched'[s]) = ({s} \X (1..matched[s]))
                                     \cup (IF s = r THEN {<<r, n + 1>>} ELSE {})
    BY <1>3, <2>1
  <2> QED
    BY <2>2 DEF Tally
<1>6. IsFiniteSet(old) /\ Cardinality(old) \in Nat /\ Cardinality(old) <= total
  BY FS_CardinalityType DEF MatchInv
<1>7. IsFiniteSet(new) /\ Cardinality(new) <= total'
  <2> DEFINE one == <<r, n + 1>>
  <2>1. IsFiniteSet(old) /\ one \notin old /\ new = old \cup {one}
    BY <1>4, <1>5, <1>6
  <2> HIDE DEF old, new, one
  <2>2. IsFiniteSet(new) /\ Cardinality(new) = Cardinality(old) + 1
    BY <2>1, FS_AddElement
  <2> QED
    BY <1>1, <1>2, <1>6, <2>2
<1> QED
  BY <1>1, <1>2, <1>3, <1>7 DEF MatchInv

(* What the last write puts in the file is bounded. *)
LEMMA WrittenIsBounded ==
  ASSUME MatchInv, LastInv, phase = "lastWrite"
  PROVE  FileIsBounded(File(counts, report, Matched, TRUE))
<1>1. matched \in [RuleNames -> Nat] /\ Matched \subseteq RuleNames
  BY DEF MatchInv, Matched
<1>2. \A r \in RuleNames \ Matched : {r} \X (1..matched[r]) = {}
  BY <1>1 DEF Matched
<1>3. (\A r \in Matched : counts[r] = matched[r]) /\ report = total
  BY DEF LastInv
<1>4. Tally(counts, Matched) = Tally(matched, RuleNames)
  <2>1. Tally(counts, Matched) = Tally(matched, Matched)
    BY <1>3 DEF Tally
  <2>2. Tally(matched, Matched) = Tally(matched, RuleNames)
    BY <1>1, <1>2 DEF Tally
  <2> QED
    BY <2>1, <2>2
<1> QED
  BY <1>3, <1>4 DEF FileIsBounded, File, MatchInv

LEMMA SetFileKeepsOutput ==
  ASSUME OutputInv, NEW content, FileIsBounded(content),
         SetFile(content), sameFile' = sameFile
  PROVE  OutputInv'
<1>1. Output' = content
  BY DEF SetFile, Output, OutputInv
<1>2. FileIsBounded(Output')
  BY <1>1
<1> QED
  BY <1>2 DEF OutputInv, FileIsBounded

(* A write that was cut short leaves a file that promises nothing. *)
LEMMA CutKeepsOutput ==
  ASSUME OutputInv, CutShort, sameFile' = sameFile
  PROVE  OutputInv'
<1>1. PICK content \in CutFiles : SetFile(content)
  BY DEF CutShort
<1>2. FileIsBounded(content)
  BY DEF CutFiles, FileIsBounded, Broken, File
<1> QED
  BY <1>1, <1>2, SetFileKeepsOutput

(* The numbers of a run do not change while it writes. *)
LEMMA WritesKeepMatches ==
  ASSUME MatchInv, HeldInv, UNCHANGED <<matched, total>>, DOMAIN counts' = DOMAIN counts
  PROVE  MatchInv' /\ HeldInv'
  BY DEF MatchInv, HeldInv, Matched, Tally

LEMMA TotalsInvInductive == TotalsInv /\ [LifeNext]_lifeVars => TotalsInv'
<1> SUFFICES ASSUME TotalsInv, [LifeNext]_lifeVars PROVE TotalsInv'
  OBVIOUS
<1> USE DEF TotalsInv, files
<1>b. ASSUME UNCHANGED <<sameFile, files>> PROVE OutputInv'
  BY <1>b DEF OutputInv, Output, FileIsBounded, Tally
<1>1. CASE Start
  <2>1. MatchInv' /\ HeldInv'
    BY <1>1, NoMatchesInv DEF Start, MatchInv, HeldInv, Matched, Tally, NoMatches
  <2> QED
    BY <1>1, <1>b, <2>1 DEF Start, LastInv
<1>2. ASSUME NEW r \in RuleNames, CountUnder(r) PROVE TotalsInv'
  <2>1. MatchInv'
    BY <1>2, CountUnderInv
  <2>2. HeldInv'
    <3>1. r \in DOMAIN counts /\ counts' = counts /\ matched' = [matched EXCEPT ![r] = @ + 1]
      BY <1>2 DEF CountUnder
    <3>2. \A s \in RuleNames \ {r} : matched'[s] = matched[s]
      BY <3>1 DEF MatchInv
    <3> QED
      BY <3>1, <3>2 DEF HeldInv, Matched
  <2> QED
    BY <1>2, <1>b, <2>1, <2>2 DEF CountUnder, LastInv, Counting
<1>3. CASE CountOther
  <2>1. MatchInv'
    <3>1. total' = total + 1 /\ UNCHANGED matched
      BY <1>3 DEF CountOther
    <3>2. Tally(matched', RuleNames) = Tally(matched, RuleNames)
      BY <3>1
    <3>3. Cardinality(Tally(matched, RuleNames)) \in Nat
      BY FS_CardinalityType DEF MatchInv
    <3> QED
      BY <3>1, <3>2, <3>3 DEF MatchInv
  <2> QED
    BY <1>3, <1>b, <2>1 DEF CountOther, LastInv, HeldInv, Matched, Counting
<1>4. ASSUME NEW last \in BOOLEAN, StartUpdate(last) PROVE TotalsInv'
  <2>1. MatchInv' /\ HeldInv'
    BY <1>4, WritesKeepMatches DEF StartUpdate
  <2>2. LastInv'
    BY <1>4 DEF StartUpdate, LastInv
  <2> QED
    BY <1>4, <1>b, <2>1, <2>2 DEF StartUpdate
<1>5. ASSUME NEW last \in BOOLEAN, StartWrite(last) PROVE TotalsInv'
  <2>1. counts' = Updated(counts) /\ UNCHANGED <<matched, total, report>>
    BY <1>5 DEF StartWrite
  <2>2. MatchInv' /\ HeldInv'
    BY <2>1, WritesKeepMatches DEF Updated
  <2>3. LastInv'
    <3>1. \A r \in Matched' : counts'[r] = matched'[r]
      BY <2>1 DEF Updated, Matched, HeldInv
    <3>2. (phase' \in {"lastUpdate", "lastWrite"})
             => (phase = "lastUpdate")
      BY <1>5 DEF StartWrite, After
    <3> QED
      BY <2>1, <3>1, <3>2 DEF LastInv
  <2>4. OutputInv'
    <3>1. CASE SetFile(Broken)
      <4>1. FileIsBounded(Broken) /\ sameFile' = sameFile
        BY <1>5 DEF FileIsBounded, Broken, StartWrite
      <4> QED
        BY <3>1, <4>1, SetFileKeepsOutput
    <3>2. CASE UNCHANGED files
      BY <1>5, <1>b, <3>2 DEF StartWrite
    <3> QED
      BY <1>5, <3>1, <3>2 DEF StartWrite
  <2> QED
    BY <2>2, <2>3, <2>4
<1>6. ASSUME NEW last \in BOOLEAN, EndWrite(last) PROVE TotalsInv'
  <2>1. MatchInv' /\ HeldInv'
    BY <1>6, WritesKeepMatches DEF EndWrite
  <2>2. LastInv'
    BY <1>6 DEF EndWrite, After, LastInv
  <2>3. OutputInv'
    <3>1. CASE SetFile(File(counts, report, Matched, last)) /\ last = TRUE
      BY <1>6, <3>1, WrittenIsBounded, SetFileKeepsOutput DEF EndWrite
    <3>2. CASE SetFile(File(counts, report, Matched, last)) /\ last = FALSE
      <4>1. FileIsBounded(File(counts, report, Matched, last))
        BY <3>2 DEF FileIsBounded, File
      <4> QED
        BY <1>6, <3>2, <4>1, SetFileKeepsOutput DEF EndWrite
    <3>3. CASE CutShort
      BY <1>6, <3>3, CutKeepsOutput DEF EndWrite
    <3> QED
      BY <1>6, <3>1, <3>2, <3>3 DEF EndWrite
  <2> QED
    BY <2>1, <2>2, <2>3
<1>7. CASE Crash
  <2>1. MatchInv' /\ HeldInv'
    BY <1>7, WritesKeepMatches DEF Crash
  <2>2. LastInv'
    BY <1>7 DEF Crash, LastInv
  <2>3. OutputInv'
    BY <1>7, <1>b, CutKeepsOutput DEF Crash
  <2> QED
    BY <2>1, <2>2, <2>3
<1>8. CASE UNCHANGED lifeVars
  BY <1>8, <1>b, WritesKeepMatches DEF lifeVars, LastInv, Matched
<1> QED
  BY <1>1, <1>2, <1>3, <1>4, <1>5, <1>6, <1>7, <1>8 DEF LifeNext

(* The file that a run leaves at its end never has more matches of that    *)
(* run than queries: for any rules and counters, over any number of runs,  *)
(* with one file or two, and whatever was killed, failed or cut before.    *)
THEOREM MatchesAreQueries == LifeSpec => []MatchedWithinTotal
<1>1. TotalsInv => MatchedWithinTotal
  BY DEF TotalsInv, OutputInv, FileIsBounded, MatchedWithinTotal
<1> QED
  BY <1>1, TotalsInvInit, TotalsInvInductive, PTL DEF LifeSpec
=============================================================================
