------------------------------- MODULE Quality -------------------------------
(* The quality tool: it decides whether the build's reports are stale, runs  *)
(* the tests, compares what the reports say with the baseline of an earlier  *)
(* call, evaluates the gates, and keeps a new baseline with a fingerprint of *)
(* the sources.  A developer edits and commits at any time, during a call as *)
(* well.  A test file is the set of its test methods, a class the set of its *)
(* method signatures <<name, parameters>>; {} stands for no file.  Lines     *)
(* stand for every metric of JaCoCo, a line for each method, and percentages *)
(* are whole; times of tests and the layout of the report are left out.      *)
EXTENDS Integers, FiniteSets

CONSTANTS
  TestFiles, Classes,
  Contents,        \* what each file may hold
  Exercises,       \* the classes each test method runs
  Imports,         \* the classes each test file names
  TargetOf,        \* the class that a test file is called after
  MinCoverage, MinNewCoverage, MaxTestDrop, MaxTestDropPercent,  \* gates
  Ignored,         \* classes that ignorePatterns covers
  QualityParams,        \* the parameters of a call
  MaxEdits, MaxCalls   \* bounds

ASSUME MaxEditsAssumption == MaxEdits \in Nat

VARIABLES
  source,       \* the working copy
  written,        \* the modification time and size of each file
  head,         \* the commit checked out
  newer,        \* test files modified after the reports were written
  artifacts,    \* the sources that each report was made from
  baseline,     \* .bootstrap/quality-baseline.json
  fingerprint,  \* .bootstrap/quality-fingerprint.json
  call,         \* the call of the tool under way
  lapses,       \* what has kept the fingerprint from speaking for the reports
  edits, calls

projectVars == <<source, written, head, newer, edits>>
storeVars == <<baseline, fingerprint>>
qualityVars == <<projectVars, storeVars, artifacts, call, lapses, calls>>

SourceFiles == TestFiles \cup Classes
NoReport == [f \in SourceFiles |-> {<<"-", 0>>}]
NoArtifacts == [jacoco |-> NoReport, surefire |-> NoReport]
NoDiff == [added |-> {}, deleted |-> {}, modified |-> {}, known |-> FALSE]
NoFingerprint == [commit |-> -1, dirty |-> <<>>, tree |-> <<>>]
NoBaseline == [total |-> -1]
Present(s, F) == {f \in F : s[f] # {}}
When(condition, code) == IF condition THEN {code} ELSE {}

-----------------------------------------------------------------------------
(* Fingerprints *)

\* A file with the modification time and size of the previous tree's leaf is
\* not read again.
BuildMerkleTree(previous, visible) ==
  [f \in Present(source, visible) |->
    IF f \in DOMAIN previous /\ previous[f].written = written[f] THEN previous[f]
    ELSE [hash |-> source[f], written |-> written[f]]]

DiffMerkleTrees(current, stored) ==
  [added    |-> DOMAIN current \ DOMAIN stored,
   deleted  |-> DOMAIN stored \ DOMAIN current,
   modified |-> {f \in DOMAIN current \cap DOMAIN stored : current[f].hash # stored[f].hash},
   known    |-> TRUE]

\* git status names every file that changed, git diff HEAD shows the tracked.
GitDirtyState ==
  [f \in {g \in SourceFiles : source[g] # head.files[g]} |->
    IF head.files[f] = {} THEN {<<"untracked", 0>>} ELSE source[f]]

ComputeFingerprint(previous, visible) ==
  [commit |-> head.id, dirty |-> GitDirtyState, tree |-> BuildMerkleTree(previous, visible)]

Differs(diff) == diff.added \cup diff.deleted \cup diff.modified # {}
CompareFingerprints(current, stored) ==
  \/ current.commit # stored.commit
  \/ current.dirty # stored.dirty
  \/ Differs(DiffMerkleTrees(current.tree, stored.tree))

-----------------------------------------------------------------------------
(* What git says of the test files *)

GitDeleted == {f \in TestFiles : head.files[f] # {} /\ source[f] = {}}
GitModified ==
  {f \in TestFiles : head.files[f] # {} /\ source[f] \notin {{}, head.files[f]}}
GitUntracked == {f \in TestFiles : head.files[f] = {} /\ source[f] # {}}
GetGitChangedTestFiles == GitDeleted \cup GitModified \cup GitUntracked
GetDeletedTestMethods == UNION {head.files[f] \ source[f] : f \in GitModified}

-----------------------------------------------------------------------------
(* What the reports say *)

Percent(covered, total) == IF total = 0 THEN 0 ELSE (100 * covered) \div total

\* parseJacocoCsv: the lines of each class it lists, and those that ran.
Listed(report) == IF report = NoReport THEN {} ELSE Present(report, Classes)
Ran(report, class) == \E f \in TestFiles : \E m \in report[f] : class \in Exercises[m[1]]
Lines(report, classes) == UNION {{c} \X report[c] : c \in classes \cap Listed(report)}
CoveredLines(report, classes) == Lines(report, {c \in classes \cap Listed(report) : Ran(report, c)})
LineCoverage(report, classes) ==
  Percent(Cardinality(CoveredLines(report, classes)), Cardinality(Lines(report, classes)))
AggregateCoverage(report) == LineCoverage(report, Classes \ Ignored)

\* parseSurefireDirectory: the suites that ran and the tests they counted.
Suites(report) == IF report = NoReport THEN {} ELSE Present(report, TestFiles)
Total(report) == Cardinality(UNION {{f} \X report[f] : f \in Suites(report)})

\* A directory is gone when its last file is: the files of those that a call
\* found when it began.
Visible == UNION {d \in {TestFiles, Classes} : Present(source, d) # {}}
Referenced == UNION {Imports[f] : f \in Present(source, TestFiles)}
DetectIncidentalCoverage(report) ==
  {c \in Listed(report) : TestFiles \subseteq call.visible /\ Ran(report, c) /\ c \notin Referenced}

\* The class that each deleted test was called after, and whether its loss
\* is critical: its coverage looks fine and is not.
TestToClassMap == [f \in Present(source, TestFiles \cap call.visible) |-> Imports[f] \cup {TargetOf[f]}]
VerifyCoverageIntegrity(diff, report) ==
  {[class |-> TargetOf[f],
    remaining |-> {g \in DOMAIN TestToClassMap \ {f} : TargetOf[f] \in TestToClassMap[g]},
    critical |-> \/ TargetOf[f] \in DetectIncidentalCoverage(report)
                 \/ LineCoverage(report, {TargetOf[f]}) > 50] :
     f \in diff.deleted \cap TestFiles}

ComputeChangedCodeCoverage(diff, report) ==
  (diff.modified \cup diff.added) \cap Classes \cap Listed(report)

-----------------------------------------------------------------------------
(* The sources beside those of the baseline *)

ScanTestSourceFiles == [f \in Present(source, TestFiles \cap call.visible) |-> source[f]]
ScanProductionSourceFiles == [c \in Present(source, Classes \cap call.visible) |-> source[c]]

FilesOnly(scanned, previous) ==
  [filesRemoved |-> DOMAIN previous.tests \ DOMAIN scanned,
   filesAdded |-> DOMAIN scanned \ DOMAIN previous.tests, methodsRemoved |-> {}]
ComputeSourceDiff(scanned, previous) ==
  [filesRemoved |-> DOMAIN previous.tests \ DOMAIN scanned,
   filesAdded   |-> DOMAIN scanned \ DOMAIN previous.tests,
   methodsRemoved |-> {f \in DOMAIN previous.tests \cap DOMAIN scanned :
                         ~(previous.tests[f] \subseteq scanned[f])}]

\* A signature that is gone was altered, if a method of its name is left.
ComputeProductionSourceDiff(scanned, previous) ==
  LET both == DOMAIN previous.classes \cap DOMAIN scanned
      gone == UNION {{c} \X (previous.classes[c] \ scanned[c]) : c \in both}
      Left(g) == {s \in scanned[g[1]] : s[1] = g[2][1]}
  IN [classesRemoved |-> DOMAIN previous.classes \ DOMAIN scanned,
      methodsRemoved |-> {g \in gone : Left(g) = {}},
      methodsAltered |-> {g \in gone : Left(g) # {}}]

\* createBaseline reads the sources again.
CreateBaseline ==
  [total   |-> Total(artifacts.surefire),
   line    |-> AggregateCoverage(artifacts.jacoco),
   suites  |-> Suites(artifacts.surefire),
   tests   |-> ScanTestSourceFiles,
   classes |-> ScanProductionSourceFiles]

-----------------------------------------------------------------------------
(* The difference and the gates *)

\* Coverage counts less when tests were lost: -1 stands for no adjustment.
AdjustedCoverage(current, previous, diff) ==
  IF /\ current.total < previous.total
     /\ diff.deleted \cap TestFiles # {} \/ current.line - previous.line < -5
  THEN (current.line * current.total) \div previous.total
  ELSE -1

CoverageWarnings(current, previous) ==
  LET tests == current.total - previous.total
      line == current.line - previous.line
  IN When(~(previous.suites \subseteq current.suites), "TESTS_REMOVED")
     \cup When(tests < -MaxTestDrop, "TEST_COUNT_DROP")
     \cup When(current.line < MinCoverage, "LINE_COVERAGE_BELOW_GATE")
     \cup When(line < -5, "LINE_COVERAGE_DROP")
     \cup When(tests < -2 /\ line \in -1..1, "SUSPICIOUS_STABLE_COVERAGE")
     \cup When(line > 10 /\ current.suites \subseteq previous.suites, "SUSPICIOUS_COVERAGE_JUMP")
     \cup When(~(current.suites \subseteq previous.suites), "TESTS_ADDED")

AdjustmentWarnings(current, previous, adjusted) ==
  When(adjusted \in 0..(MinCoverage - 1) /\ current.line >= MinCoverage,
       "ADJUSTED_COVERAGE_BELOW_THRESHOLD")
  \cup When(adjusted >= 0 /\ current.line - previous.line >= -5, "INCIDENTAL_COVERAGE_MASKING")
  \cup When(current.total < previous.total /\ adjusted < 0, "TESTS_REFACTORED")

ChangedCodeWarnings(integrity, changed, report) ==
  When(\E i \in integrity : i.critical, "DEDICATED_TEST_LOST")
  \cup When(\E i \in integrity : ~i.critical, "DEDICATED_TEST_WEAKER")
  \cup When(\E c \in changed : LineCoverage(report, {c}) < 50, "CHANGED_CODE_LOW_COVERAGE")

ComputeDiff(current, previous, diff, integrity, report) ==
  IF previous = NoBaseline
  THEN [testsDelta |-> 0, adjusted |-> -1, warnings |-> {"FIRST_RUN"}]
  ELSE LET adjusted == AdjustedCoverage(current, previous, diff)
       IN [testsDelta |-> current.total - previous.total,
           adjusted |-> adjusted,
           warnings |->
             CoverageWarnings(current, previous)
             \cup AdjustmentWarnings(current, previous, adjusted)
             \cup ChangedCodeWarnings(integrity, ComputeChangedCodeCoverage(diff, report), report)]

Critical ==
  {"TESTS_REMOVED", "TEST_COUNT_DROP", "ADJUSTED_COVERAGE_BELOW_THRESHOLD",
   "DEDICATED_TEST_LOST", "TEST_FILES_DELETED", "TEST_METHODS_DELETED",
   "TEST_FILES_DELETED_GIT", "TEST_METHODS_DELETED_GIT"}

Serious ==
  {"LINE_COVERAGE_BELOW_GATE", "LINE_COVERAGE_DROP", "SUSPICIOUS_STABLE_COVERAGE",
   "SUSPICIOUS_COVERAGE_JUMP", "INCIDENTAL_COVERAGE_MASKING", "DEDICATED_TEST_WEAKER",
   "CHANGED_CODE_LOW_COVERAGE", "PRODUCTION_CLASSES_DELETED", "PRODUCTION_METHODS_DELETED"}

EvaluateGates(current, previous, delta, warnings, diff, report) ==
  LET effective == IF delta.adjusted >= 0 THEN delta.adjusted ELSE current.line
      drop == -delta.testsDelta
      changed == ComputeChangedCodeCoverage(diff, report)
  IN When(effective < MinCoverage, "line coverage")
     \cup When(drop > MaxTestDrop /\ Percent(drop, previous.total) > MaxTestDropPercent, "test count")
     \cup When(changed # {} /\ LineCoverage(report, changed) < MinNewCoverage, "changed code")
     \cup (warnings \cap Critical)

-----------------------------------------------------------------------------
(* The report: its sections, and the rows of its table of gates that fail *)

RunSections ==
  {"Summary", "Evidence"}
  \cup When(call.ran # "no", "Test Execution")
  \cup When(Differs(call.diff), "Source Changes Detected")

CoverageSections(delta, integrity, report) ==
  {"Per-Class Coverage", "Quality Gates"}
  \cup When(delta.adjusted >= 0, "Coverage Adjusted")
  \cup When(DetectIncidentalCoverage(report) # {}, "Incidentally Covered")
  \cup When(integrity # {}, "Coverage Integrity")

ChangedCodeSections(warnings, report) ==
  When(Listed(report) # {} /\ (call.diff.modified \cup call.diff.added) \cap Classes # {},
       "Coverage on Changed Code")
  \cup When(DOMAIN TestToClassMap # {}, "Test Coverage Map")
  \cup When(warnings \cap (Critical \cup Serious) # {}, "Warnings")

ChangeSections(warnings) ==
  When({"TEST_FILES_DELETED", "TEST_METHODS_DELETED"} \cap warnings # {}, "Source File Changes")
  \cup When({"PRODUCTION_CLASSES_DELETED", "PRODUCTION_METHODS_DELETED", "PRODUCTION_METHODS_ALTERED"}
              \cap warnings # {}, "Production Code Changes")
  \cup When(GetGitChangedTestFiles # {}, "Uncommitted Changes")

IssueSections(warnings, report) ==
  When(warnings \cap (Critical \cup Serious) # {}, "Issues")
  \cup When(\/ DetectIncidentalCoverage(report) # {}
            \/ \E c \in Listed(report) : LineCoverage(report, {c}) < 70, "Recommendations")

\* The table is of the coverage as it was measured.
FailingRows(current, delta, report) ==
  LET changed == ComputeChangedCodeCoverage(call.diff, report)
  IN When(current.line < MinCoverage, "Line Coverage")
     \cup When(delta.testsDelta < -MaxTestDrop, "Test Count Drop")
     \cup When(changed # {} /\ LineCoverage(report, changed) < MinNewCoverage, "Changed Code")

-----------------------------------------------------------------------------
(* A call of the tool *)

Idle == [at |-> "idle", update |-> "unset", gate |-> FALSE, run |-> FALSE, skip |-> FALSE,
         diff |-> NoDiff, stale |-> FALSE, used |-> FALSE, visible |-> {}, seen |-> NoReport,
         compiled |-> NoReport, ran |-> "no",
         scanned |-> <<>>, warnings |-> {}, failures |-> {},
         sections |-> {}, rows |-> {}, outcome |-> "none"]

QualityInit ==
  /\ source \in {s \in [SourceFiles -> UNION {Contents[f] : f \in SourceFiles}] :
                   \A f \in SourceFiles : s[f] \in Contents[f]}
  /\ written = [f \in SourceFiles |-> 0] /\ head = [id |-> 0, files |-> source]
  /\ newer = {} /\ artifacts = NoArtifacts
  /\ baseline = NoBaseline /\ fingerprint = NoFingerprint
  /\ call = Idle /\ lapses = {} /\ edits = 0 /\ calls = 0

At(phase) == call.at = phase
Ends(outcome) == call' = [Idle EXCEPT !.outcome = outcome]

\* The parameters; the permission to read is asked first.
Execute ==
  /\ At("idle") /\ calls < MaxCalls
  /\ \E r \in QualityParams :
       call' = [Idle EXCEPT !.at = "check", !.update = r.update, !.gate = r.gate,
                            !.run = r.run, !.skip = r.skip]
  /\ calls' = calls + 1
  /\ UNCHANGED <<projectVars, storeVars, artifacts, lapses>>

Rejected ==
  /\ call.at \in {"check", "askWrite"} /\ Ends("rejected")
  /\ UNCHANGED <<projectVars, storeVars, artifacts, lapses, calls>>

\* No reports, then the fingerprint, git, and the time only without one.
CheckTestStaleness ==
  /\ At("check")
  /\ LET none == artifacts = NoArtifacts
         used == fingerprint # NoFingerprint
         now == ComputeFingerprint(fingerprint.tree, Visible)
         stale == \/ none
                  \/ used /\ CompareFingerprints(now, fingerprint)
                  \/ GetGitChangedTestFiles # {}
                  \/ ~used /\ newer # {}
     IN call' = [call EXCEPT
          !.at = IF call.run \/ (stale /\ ~call.skip) THEN "askWrite" ELSE "scan",
          !.stale = stale, !.used = used /\ ~none, !.visible = Visible, !.seen = source,
          !.diff = IF used /\ ~none THEN DiffMerkleTrees(now.tree, fingerprint.tree) ELSE NoDiff]
  /\ UNCHANGED <<projectVars, storeVars, artifacts, lapses, calls>>

\* mvn clean test jacoco:report removes the reports, then compiles.  A
\* project of another build tool fails at once.
ExecuteTestsWithCoverage ==
  /\ At("askWrite")
  /\ \/ /\ artifacts' = NoArtifacts
        /\ call' = [call EXCEPT !.at = "building", !.compiled = source]
     \/ /\ call' = [call EXCEPT !.at = "scan", !.ran = "failed"]
        /\ UNCHANGED artifacts
  /\ UNCHANGED <<projectVars, storeVars, lapses, calls>>

\* A build that fails, or is killed after five minutes, leaves no coverage
\* and may leave no results; one without tests leaves nothing.
BuildEnds ==
  /\ At("building")
  /\ \E ran \in {"success", "failed"}, surefire, jacoco \in {call.compiled, NoReport} :
       /\ ran = "failed" => jacoco = NoReport
       /\ ran = "success" => surefire = IF Present(call.compiled, TestFiles) = {} THEN NoReport ELSE call.compiled
       /\ surefire = NoReport => jacoco = NoReport
       /\ artifacts' = [jacoco |-> jacoco, surefire |-> surefire]
       /\ call' = [call EXCEPT !.at = "scan", !.ran = ran]
       /\ lapses' = lapses \cup When(ran = "failed", "failed")
  /\ newer' = {}
  /\ UNCHANGED <<source, written, head, edits, storeVars, calls>>

SourceWarnings ==
  LET d == ComputeSourceDiff(ScanTestSourceFiles, baseline)
  IN IF baseline = NoBaseline \/ ~(TestFiles \subseteq call.visible) THEN {}
     ELSE When(d.filesRemoved # {}, "TEST_FILES_DELETED")
          \cup When(d.methodsRemoved # {}, "TEST_METHODS_DELETED")

ProductionWarnings ==
  LET d == ComputeProductionSourceDiff(ScanProductionSourceFiles, baseline)
  IN IF baseline = NoBaseline \/ ~(Classes \subseteq call.visible) THEN {}
     ELSE When(d.classesRemoved # {}, "PRODUCTION_CLASSES_DELETED")
          \cup When(d.methodsRemoved # {}, "PRODUCTION_METHODS_DELETED")
          \cup When(d.methodsAltered # {}, "PRODUCTION_METHODS_ALTERED")

\* The reports are parsed and the sources compared with the old baseline.
ScanSources ==
  /\ At("scan")
  /\ IF artifacts = NoArtifacts THEN Ends("noArtifacts")
     ELSE call' = [call EXCEPT !.at = "record", !.scanned = ScanTestSourceFiles,
                               !.warnings = SourceWarnings \cup ProductionWarnings]
  /\ UNCHANGED <<projectVars, storeVars, artifacts, lapses, calls>>

ShouldUpdateBaseline == call.update = "yes" \/ (call.ran = "success" /\ call.update # "no")

\* git is asked and the sources read again; then the gates are evaluated and
\* the new baseline replaces the old one, whatever the gates said.
RecordBaseline ==
  /\ At("record")
  /\ LET current == CreateBaseline
         integrity == IF call.diff.known THEN VerifyCoverageIntegrity(call.diff, artifacts.jacoco) ELSE {}
         delta == ComputeDiff(current, baseline, call.diff, integrity, artifacts.jacoco)
         git == When(GitDeleted # {}, "TEST_FILES_DELETED_GIT")
                \cup When(GetDeletedTestMethods # {}, "TEST_METHODS_DELETED_GIT")
         warnings == call.warnings \cup git \cup delta.warnings
     IN /\ call' = [call EXCEPT
             !.at = IF ShouldUpdateBaseline THEN "print" ELSE "gate", !.warnings = warnings,
             !.failures = EvaluateGates(current, baseline, delta, warnings, call.diff, artifacts.jacoco),
             !.sections = RunSections \cup CoverageSections(delta, integrity, artifacts.jacoco)
                          \cup ChangedCodeSections(warnings, artifacts.jacoco)
                          \cup ChangeSections(warnings)
                          \cup IssueSections(warnings, artifacts.jacoco),
             !.rows = FailingRows(current, delta, artifacts.jacoco)]
        /\ baseline' = IF ShouldUpdateBaseline THEN current ELSE baseline
        /\ lapses' = lapses \cup When(call.ran = "success" /\ ~ShouldUpdateBaseline, "unrecorded")
  /\ UNCHANGED <<projectVars, fingerprint, artifacts, calls>>

\* The fingerprint is of the sources as they are now.
SaveFingerprint ==
  /\ At("print")
  /\ fingerprint' = ComputeFingerprint(fingerprint.tree, call.visible)
  /\ call' = [call EXCEPT !.at = "gate"]
  /\ lapses' = IF call.ran = "success" /\ source = call.compiled THEN lapses \cap {"sameTime"}
               ELSE lapses \cup {"untested"}
  /\ UNCHANGED <<projectVars, baseline, artifacts, calls>>

GateCheck ==
  /\ At("gate")
  /\ Ends(IF call.gate /\ call.failures # {} THEN "gatesFailed" ELSE "reported")
  /\ UNCHANGED <<projectVars, storeVars, artifacts, lapses, calls>>

-----------------------------------------------------------------------------
(* The developer: external *)

\* An edit may leave the size and the modification time as they were.
Edit ==
  /\ edits < MaxEdits
  /\ \E f \in SourceFiles, same \in BOOLEAN : \E new \in Contents[f] \ {source[f]} :
       /\ source' = [source EXCEPT ![f] = new]
       /\ written' = IF same THEN written ELSE [written EXCEPT ![f] = edits + 1]
       /\ newer' = IF same \/ f \notin TestFiles THEN newer
                   ELSE IF new = {} THEN newer \ {f} ELSE newer \cup {f}
       /\ lapses' = lapses \cup When(same, "sameTime")
  /\ edits' = edits + 1
  /\ UNCHANGED <<head, storeVars, artifacts, call, calls>>

Commit ==
  /\ source # head.files
  /\ head' = [id |-> head.id + 1, files |-> source]
  /\ UNCHANGED <<source, written, newer, edits, storeVars, artifacts, call, lapses, calls>>

QualityNext ==
  \/ Execute \/ Rejected \/ CheckTestStaleness \/ ExecuteTestsWithCoverage \/ BuildEnds
  \/ ScanSources \/ RecordBaseline \/ SaveFingerprint \/ GateCheck
  \/ Edit \/ Commit

-----------------------------------------------------------------------------
QualityTypeOK ==
  /\ source \in [SourceFiles -> UNION {Contents[f] : f \in SourceFiles}] /\ head.id \in 0..MaxEdits
  /\ newer \subseteq TestFiles
  /\ \A f \in DOMAIN fingerprint.tree : fingerprint.tree[f].hash # {}
  /\ call.at \in {"idle", "check", "askWrite", "building", "scan", "record", "print", "gate"}
  /\ call.outcome \in {"none", "rejected", "noArtifacts", "gatesFailed", "reported"}
  /\ lapses \subseteq {"failed", "unrecorded", "untested", "sameTime"}

\* A call that finds its fingerprint good and runs no tests reports on the
\* very sources it saw: unless the fingerprint was taken of sources that were
\* not those tested, reports were made since without a new one, or an edit
\* kept a file's size and modification time.
ReportIsCurrent ==
  /\ QualityTypeOK
  /\ At("scan") /\ call.used /\ ~call.stale /\ call.ran = "no" /\ lapses = {} =>
       \A r \in {artifacts.jacoco, artifacts.surefire} : r \in {NoReport, call.seen}

\* A baseline that lacks a test of the baseline it replaces was kept by a call
\* whose gates failed: unless the sources changed between the two times the
\* call read them, or the test directory was gone.
Loses(new, old) ==
  \E f \in DOMAIN old.tests : f \notin DOMAIN new.tests \/ ~(old.tests[f] \subseteq new.tests[f])
DropsAreReported ==
  [][/\ baseline # NoBaseline /\ baseline' # baseline
     /\ call.scanned = baseline'.tests /\ TestFiles \subseteq call.visible
     /\ Loses(baseline', baseline)
     => call'.failures # {} /\ "Issues" \in call'.sections]_qualityVars

\* What a call reports is of the sources it saw, and no baseline loses a test
\* without a word.
QualityReportsAreTrue == []ReportIsCurrent /\ DropsAreReported
=============================================================================
