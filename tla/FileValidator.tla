--------------------------- MODULE FileValidator ---------------------------
(***************************************************************************)
(* The file validation run of src/scripts/validate_files.py: main() builds *)
(* a FileValidator (truncating logs/validation.log), walks three root      *)
(* directories with Path.rglob, dispatches every match to the checker of   *)
(* the glob it matched (validate_json, validate_xml,                       *)
(* validate_witcherscript), logs the summary and appends one block to the  *)
(* cumulative logs/test_results.log.  The process can be run again: the    *)
(* log file is truncated by every run, the results file only grows.        *)
(*                                                                         *)
(* Data is abstracted to what the checks tell apart: a path is a member of *)
(* Entries, its content a class (well-formed, malformed, not UTF-8,        *)
(* unreadable), the verdict of the WitcherScript heuristics a Boolean      *)
(* (computed by module ScriptCheck in the MC module).  A log line is the   *)
(* record [lvl, msg, file]; timestamps and wording are left out.  Every    *)
(* write to the log file or to the results file may fail (disk full, file  *)
(* locked): the failure raises an OSError where the code raises it.        *)
(***************************************************************************)
EXTENDS Naturals, Sequences, FiniteSets

CONSTANTS
    Entries,          \* paths that exist below the working directory
    RootOf,           \* RootOf[e]: the root directory of main() e lies below
    PatternOf,        \* PatternOf[e]: the glob of main() e's name matches
    KindOf,           \* KindOf[e]: "file" or "dir" (rglob yields both)
    ContentOf,        \* ContentOf[e]: class of the bytes of a regular file
    ScriptIssues,     \* ScriptIssues[e]: the .ws heuristics report issues
    ExistingRoots,    \* the roots of main() that exist
    NoFile,           \* the file field of a log line about no file
    MaxWriteFailures, \* bound on failed writes to the log/results files
    MaxRuns           \* bound on how often the program is started

\* The roots and globs main() passes to validate_directory (lines 180-185).
Roots == {"mod/config", "config", "mod/scripts"}
Patterns == {"*.json", "*.xml", "*.ws"}
Contents == {"wellformed", "malformed", "undecodable", "unreadable"}

ASSUME EntriesAssumption == IsFiniteSet(Entries) /\ NoFile \notin Entries
ASSUME TreeAssumption ==
    /\ RootOf \in [Entries -> Roots \cup {"elsewhere"}]
    /\ PatternOf \in [Entries -> Patterns \cup {"none"}]
    /\ KindOf \in [Entries -> {"file", "dir"}]
    /\ ContentOf \in [Entries -> Contents]
    /\ ScriptIssues \in [Entries -> BOOLEAN]
    /\ ExistingRoots \subseteq Roots
ASSUME BoundsAssumption == MaxWriteFailures \in Nat /\ MaxRuns \in Nat

(***************************************************************************)
(* The body of main() (lines 179-199) as the sequence of its steps.        *)
(***************************************************************************)
MainSteps ==
    << [op |-> "log",     root |-> "",            pats |-> << >>],
       [op |-> "dir",     root |-> "mod/config",  pats |-> <<"*.json", "*.xml">>],
       [op |-> "dir",     root |-> "config",      pats |-> <<"*.json">>],
       [op |-> "log",     root |-> "",            pats |-> << >>],
       [op |-> "dir",     root |-> "mod/scripts", pats |-> <<"*.ws">>],
       [op |-> "summary", root |-> "",            pats |-> << >>],
       [op |-> "results", root |-> "",            pats |-> << >>] >>

\* What Path(root).rglob(p) yields: files and directories alike.
Matching(root, p) == {e \in Entries : RootOf[e] = root /\ PatternOf[e] = p}

(***************************************************************************)
(* The checkers.  Verdict(p, e) is what the checker dispatched for glob p  *)
(* logs first about e.  open() of a directory, of an unreadable file and   *)
(* the UnicodeDecodeError of a non-UTF-8 file all land in the generic     *)
(* `except Exception` ("Error reading file"), except for XML, which        *)
(* ET.parse decodes itself and rejects with a ParseError.                  *)
(***************************************************************************)
Unreadable(e) == KindOf[e] = "dir" \/ ContentOf[e] = "unreadable"

JsonVerdict(e) ==
    IF Unreadable(e) \/ ContentOf[e] = "undecodable" THEN "read_error"
    ELSE IF ContentOf[e] = "malformed" THEN "invalid"
    ELSE "valid"

XmlVerdict(e) ==
    IF Unreadable(e) THEN "read_error"
    ELSE IF ContentOf[e] \in {"malformed", "undecodable"} THEN "invalid"
    ELSE "valid"

ScriptVerdict(e) ==
    IF Unreadable(e) \/ ContentOf[e] = "undecodable" THEN "read_error"
    ELSE IF ScriptIssues[e] THEN "issues"
    ELSE "valid"

Verdict(p, e) ==
    CASE p = "*.json" -> JsonVerdict(e)
      [] p = "*.xml"  -> XmlVerdict(e)
      [] OTHER        -> ScriptVerdict(e)

Verdicts == {"valid", "invalid", "read_error", "issues"}
LevelOf == [valid |-> "INFO", issues |-> "WARNING",
            invalid |-> "ERROR", read_error |-> "ERROR"]
\* The verdicts logged inside the try block: a failing write of theirs is
\* caught by the checker's own `except Exception`.
LoggedInTry == {"valid", "issues"}

Msgs == Verdicts \cup {"header", "phase", "scanning", "dir_missing",
                       "passed", "passed_warnings", "failed"}
LogEntries == [lvl : {"INFO", "WARNING", "ERROR"}, msg : Msgs,
               file : Entries \cup {NoFile}]
Entry(l, m, f) == [lvl |-> l, msg |-> m, file |-> f]

Blocks == [validated : Nat, errors : Nat, warnings : Nat,
           status : {"PASSED", "FAILED"}]

VARIABLES
    status,     \* "idle" before the first start, "running", "exited", "crashed"
    step,       \* index into MainSteps of the statement main() executes
    pat,        \* index of the glob validate_directory loops over, 0 outside
    pending,    \* what the rglob generator of the current glob has yet to yield
    visited,    \* what the generators have yielded in this run (history)
    validated,  \* self.validated_files
    errors,     \* self.errors, as the files they are about
    warnings,   \* self.warnings, as the files they are about
    logFile,    \* logs/validation.log
    console,    \* what this process printed
    results,    \* logs/test_results.log: one block per completed run
    exitCode,   \* exit status of the last process
    failures,   \* writes that have failed so far (environment)
    runs        \* processes started so far

runVars == <<step, pat, pending, visited, validated, errors, warnings>>
vars == <<status, step, pat, pending, visited, validated, errors, warnings,
          logFile, console, results, exitCode, failures, runs>>

Op == MainSteps[step].op
Pats == MainSteps[step].pats

(***************************************************************************)
(* self.log (lines 33-39): print, then append to the log file.  The write *)
(* may fail; an exception that no handler catches ends the process.      *)
(***************************************************************************)
WriteOk(en) ==
    /\ console' = Append(console, en)
    /\ logFile' = Append(logFile, en)
    /\ UNCHANGED failures

Crash ==
    /\ status' = "crashed"
    /\ exitCode' = 1

WriteFails(en) ==
    /\ failures < MaxWriteFailures
    /\ console' = Append(console, en)
    /\ failures' = failures + 1
    /\ UNCHANGED <<logFile, results, runs>>
    /\ UNCHANGED runVars
    /\ Crash

Init ==
    /\ status = "idle"
    /\ step = 1
    /\ pat = 0
    /\ pending = {}
    /\ visited = {}
    /\ validated = 0
    /\ errors = << >>
    /\ warnings = << >>
    /\ logFile = << >>
    /\ console = << >>
    /\ results = << >>
    /\ exitCode = 0
    /\ failures = 0
    /\ runs = 0

(***************************************************************************)
(* A process starts: FileValidator.__init__ (lines 15-27) resets the      *)
(* counters, truncates the log file and writes its header.               *)
(***************************************************************************)
Start ==
    /\ status \in {"idle", "exited", "crashed"}
    /\ runs < MaxRuns
    /\ runs' = runs + 1
    /\ step' = 1
    /\ pat' = 0
    /\ pending' = {}
    /\ visited' = {}
    /\ validated' = 0
    /\ errors' = << >>
    /\ warnings' = << >>
    /\ console' = << >>
    /\ UNCHANGED results
    /\ \/ /\ logFile' = << Entry("INFO", "header", NoFile) >>
          /\ status' = "running"
          /\ UNCHANGED <<failures, exitCode>>
       \/ /\ failures < MaxWriteFailures
          /\ logFile' = << >>
          /\ failures' = failures + 1
          /\ Crash

\* validator.log(...) of main() (lines 179 and 184).
LogStep ==
    /\ status = "running"
    /\ Op = "log"
    /\ \/ /\ WriteOk(Entry("INFO", "phase", NoFile))
          /\ step' = step + 1
          /\ UNCHANGED <<status, pat, pending, visited, validated, errors,
                         warnings, results, exitCode, runs>>
       \/ WriteFails(Entry("INFO", "phase", NoFile))

(***************************************************************************)
(* validate_directory, entry (lines 126-133): a missing root is logged as *)
(* an ERROR and the call returns; otherwise the first glob's walk starts. *)
(***************************************************************************)
EnterDir ==
    /\ status = "running"
    /\ Op = "dir"
    /\ pat = 0
    /\ LET root == MainSteps[step].root
           en == IF root \in ExistingRoots THEN Entry("INFO", "scanning", NoFile)
                 ELSE Entry("ERROR", "dir_missing", NoFile)
       IN \/ /\ WriteOk(en)
             /\ IF root \in ExistingRoots
                  THEN /\ pat' = 1
                       /\ pending' = Matching(root, Pats[1])
                       /\ UNCHANGED step
                  ELSE /\ step' = step + 1
                       /\ UNCHANGED <<pat, pending>>
             /\ UNCHANGED <<status, visited, validated, errors, warnings,
                            results, exitCode, runs>>
          \/ WriteFails(en)

(***************************************************************************)
(* One iteration of the inner loop (lines 133-141 with the checker it     *)
(* calls, lines 41-122): count the match, check it, log the verdict and   *)
(* record it in self.errors / self.warnings after the log call.  When the *)
(* write of a verdict logged inside the try fails, the checker's except   *)
(* handler logs "Error reading file" instead; when a write inside an      *)
(* except handler fails, the exception leaves the program.                *)
(***************************************************************************)
Record(v, e) ==
    /\ errors' = IF LevelOf[v] = "ERROR" THEN Append(errors, e) ELSE errors
    /\ warnings' = IF v = "issues" THEN Append(warnings, e) ELSE warnings

\* Variant of CheckEntry that appends to self.warnings before logging the
\* WARNING, so a failed write leaves the file in both lists (mutation).
CheckEntryAppendBeforeLog(e) ==
    /\ status = "running"
    /\ Op = "dir"
    /\ pat >= 1
    /\ e \in pending
    /\ LET v == Verdict(Pats[pat], e)
           first == Entry(LevelOf[v], v, e)
           caught == Entry("ERROR", "read_error", e)
       IN \/ /\ WriteOk(first)
             /\ Record(v, e)
             /\ UNCHANGED <<status, exitCode>>
          \/ /\ v \in LoggedInTry
             /\ failures < MaxWriteFailures
             /\ console' = console \o << first, caught >>
             /\ logFile' = Append(logFile, caught)
             /\ failures' = failures + 1
             /\ errors' = Append(errors, e)
             /\ warnings' = IF v = "issues" THEN Append(warnings, e) ELSE warnings
             /\ UNCHANGED <<status, exitCode>>
    /\ pending' = pending \ {e}
    /\ visited' = visited \cup {e}
    /\ validated' = validated + 1
    /\ UNCHANGED <<step, pat, results, runs>>

CheckEntry(e) ==
    /\ status = "running"
    /\ Op = "dir"
    /\ pat >= 1
    /\ e \in pending
    /\ LET v == Verdict(Pats[pat], e)
           first == Entry(LevelOf[v], v, e)
           caught == Entry("ERROR", "read_error", e)
       IN \/ /\ WriteOk(first)
             /\ Record(v, e)
             /\ UNCHANGED <<status, exitCode>>
          \/ /\ v \in LoggedInTry
             /\ failures < MaxWriteFailures
             /\ console' = console \o << first, caught >>
             /\ logFile' = Append(logFile, caught)
             /\ failures' = failures + 1
             /\ Record("read_error", e)
             /\ UNCHANGED <<status, exitCode>>
          \/ /\ v \in LoggedInTry
             /\ failures + 2 <= MaxWriteFailures
             /\ console' = console \o << first, caught >>
             /\ failures' = failures + 2
             /\ UNCHANGED <<logFile, errors, warnings>>
             /\ Crash
          \/ /\ v \notin LoggedInTry
             /\ failures < MaxWriteFailures
             /\ console' = Append(console, first)
             /\ failures' = failures + 1
             /\ UNCHANGED <<logFile, errors, warnings>>
             /\ Crash
    /\ pending' = pending \ {e}
    /\ visited' = visited \cup {e}
    /\ validated' = validated + 1
    /\ UNCHANGED <<step, pat, results, runs>>

\* The rglob generator of the current glob is exhausted: the next glob.
NextPattern ==
    /\ status = "running"
    /\ Op = "dir"
    /\ pat >= 1
    /\ pending = {}
    /\ pat < Len(Pats)
    /\ pat' = pat + 1
    /\ pending' = Matching(MainSteps[step].root, Pats[pat + 1])
    /\ UNCHANGED <<status, step, visited, validated, errors, warnings,
                   logFile, console, results, exitCode, failures, runs>>

\* Variant of LeaveDir that returns once any glob is exhausted (mutation).
LeaveDirAfterAnyGlob ==
    /\ status = "running"
    /\ Op = "dir"
    /\ pat >= 1
    /\ pending = {}
    /\ pat' = 0
    /\ step' = step + 1
    /\ UNCHANGED <<status, pending, visited, validated, errors, warnings,
                   logFile, console, results, exitCode, failures, runs>>

\* The last glob is exhausted: validate_directory returns.
LeaveDir ==
    /\ status = "running"
    /\ Op = "dir"
    /\ pat >= 1
    /\ pending = {}
    /\ pat = Len(Pats)
    /\ pat' = 0
    /\ step' = step + 1
    /\ UNCHANGED <<status, pending, visited, validated, errors, warnings,
                   logFile, console, results, exitCode, failures, runs>>

(***************************************************************************)
(* generate_summary (lines 143-170): counts, the itemised errors and      *)
(* warnings (abstracted away) and the final status line, all at INFO.     *)
(* Any of its writes may fail, and none is inside a try.                  *)
(***************************************************************************)
SummaryMsg ==
    IF errors = << >> /\ warnings = << >> THEN "passed"
    ELSE IF errors = << >> THEN "passed_warnings"
    ELSE "failed"

Summary ==
    /\ status = "running"
    /\ Op = "summary"
    /\ \/ /\ WriteOk(Entry("INFO", SummaryMsg, NoFile))
          /\ step' = step + 1
          /\ UNCHANGED <<status, pat, pending, visited, validated, errors,
                         warnings, results, exitCode, runs>>
       \/ WriteFails(Entry("INFO", SummaryMsg, NoFile))

(***************************************************************************)
(* The end of main() (lines 188-199): success is generate_summary's value *)
(* (no errors); one block is appended to the results file and the process *)
(* exits 0 on success, 1 otherwise.  A failed write loses the block.      *)
(***************************************************************************)
\* Variant of Results that exits with the number of errors (mutation).
ResultsExitErrorCount ==
    /\ status = "running"
    /\ Op = "results"
    /\ results' = Append(results,
            [validated |-> validated, errors |-> Len(errors),
             warnings |-> Len(warnings),
             status |-> IF errors = << >> THEN "PASSED" ELSE "FAILED"])
    /\ status' = "exited"
    /\ exitCode' = Len(errors)
    /\ UNCHANGED failures
    /\ UNCHANGED <<step, pat, pending, visited, validated, errors, warnings,
                   logFile, console, runs>>

\* Variant of Results that opens the results file with 'w', so the block
\* replaces the earlier ones (mutation).
ResultsOverwrite ==
    /\ status = "running"
    /\ Op = "results"
    /\ \/ /\ results' = << [validated |-> validated, errors |-> Len(errors),
                             warnings |-> Len(warnings),
                             status |-> IF errors = << >> THEN "PASSED" ELSE "FAILED"] >>
          /\ status' = "exited"
          /\ exitCode' = IF errors = << >> THEN 0 ELSE 1
          /\ UNCHANGED failures
       \/ /\ failures < MaxWriteFailures
          /\ failures' = failures + 1
          /\ UNCHANGED results
          /\ Crash
    /\ UNCHANGED <<step, pat, pending, visited, validated, errors, warnings,
                   logFile, console, runs>>

Results ==
    /\ status = "running"
    /\ Op = "results"
    /\ \/ /\ results' = Append(results,
                [validated |-> validated, errors |-> Len(errors),
                 warnings |-> Len(warnings),
                 status |-> IF errors = << >> THEN "PASSED" ELSE "FAILED"])
          /\ status' = "exited"
          /\ exitCode' = IF errors = << >> THEN 0 ELSE 1
          /\ UNCHANGED failures
       \/ /\ failures < MaxWriteFailures
          /\ failures' = failures + 1
          /\ UNCHANGED results
          /\ Crash
    /\ UNCHANGED <<step, pat, pending, visited, validated, errors, warnings,
                   logFile, console, runs>>

\* The steps of one process, from its start to its end.
Process ==
    \/ LogStep
    \/ EnterDir
    \/ \E e \in Entries : CheckEntry(e)
    \/ NextPattern
    \/ LeaveDir
    \/ Summary
    \/ Results

Next == Start \/ Process

(***************************************************************************)
(* The interpreter runs a started process on without pause: weak fairness *)
(* of its steps.  Starting the program again is the user's choice.        *)
(***************************************************************************)
Spec == Init /\ [][Next]_vars /\ WF_vars(Process)

-----------------------------------------------------------------------------
TypeOK ==
    /\ status \in {"idle", "running", "exited", "crashed"}
    /\ step \in 1..Len(MainSteps)
    /\ pat \in 0..2
    /\ pending \subseteq Entries
    /\ visited \subseteq Entries
    /\ validated \in Nat
    /\ errors \in Seq(Entries)
    /\ warnings \in Seq(Entries)
    /\ logFile \in Seq(LogEntries)
    /\ console \in Seq(LogEntries)
    /\ results \in Seq(Blocks)
    /\ exitCode \in {0, 1}
    /\ failures \in 0..MaxWriteFailures
    /\ runs \in 0..MaxRuns

-----------------------------------------------------------------------------
(***************************************************************************)
(* Properties.                                                             *)
(***************************************************************************)
\* The positions of the lines of log s of level l that are about a file.
LinesAt(s, l) == {i \in DOMAIN s : s[i].lvl = l /\ s[i].file # NoFile}

\* The rank of position i among them: how many lie at or before it.
RankAt(s, l, i) == Cardinality({j \in LinesAt(s, l) : j <= i})

\* The files of those lines in log order: the k-th is the file of the line
\* of rank k.
FilesIn(s, l) ==
    [k \in 1..Cardinality(LinesAt(s, l)) |->
        s[CHOOSE i \in LinesAt(s, l) : RankAt(s, l, i) = k].file]

\* The files of the log lines of level l that are about a file, in log order.
FilesLoggedAt(l) == FilesIn(logFile, l)

\* The number of log lines that carry a verdict about a file.
VerdictLines == Cardinality({i \in DOMAIN logFile : logFile[i].file # NoFile})

\* Every match a run must check: the globs of main() under its existing roots.
Expected ==
    LET calls == {MainSteps[k] : k \in DOMAIN MainSteps}
        walked == {c \in calls : c.op = "dir" /\ c.root \in ExistingRoots}
    IN  UNION {UNION {Matching(c.root, c.pats[j]) : j \in DOMAIN c.pats} :
                 c \in walked}

(***************************************************************************)
(* The summary agrees with the log file: while a process is alive or after *)
(* it exited, self.errors and self.warnings list exactly the files whose  *)
(* verdict line in the log file is an ERROR or a WARNING, in the order of *)
(* the log, and self.validated_files is the number of verdict lines.  Bad *)
(* if a checker records a verdict other than the one the log file holds,  *)
(* e.g. after a failed write inside a try block.                          *)
(***************************************************************************)
ReportMatchesLog ==
    status \in {"running", "exited"} =>
        /\ errors = FilesLoggedAt("ERROR")
        /\ warnings = FilesLoggedAt("WARNING")
        /\ validated = VerdictLines

(***************************************************************************)
(* The results file keeps the blocks of the earlier runs, and the block a *)
(* run appends at its exit (lines 188-196) summarises that run's own log  *)
(* file: its count is the number of verdict lines, its error and warning  *)
(* counts the numbers of ERROR and WARNING verdict lines, its status      *)
(* PASSED exactly when there is no ERROR verdict line, and the exit       *)
(* status agrees (line 198).  Bad if the file were opened with 'w', or if *)
(* a count of an earlier run reached the block.                           *)
(***************************************************************************)
BlockMatchesLog ==
    results' # results =>
        LET b == results'[Len(results')]
            noErrorLine == LinesAt(logFile, "ERROR") = {}
        IN  /\ Len(results') = Len(results) + 1
            /\ results' = Append(results, b)
            /\ b.validated = VerdictLines
            /\ b.errors = Cardinality(LinesAt(logFile, "ERROR"))
            /\ b.warnings = Cardinality(LinesAt(logFile, "WARNING"))
            /\ b.status = IF noErrorLine THEN "PASSED" ELSE "FAILED"
            /\ exitCode' = IF noErrorLine THEN 0 ELSE 1

\* The property: every step that changes the results file is such a step.
ResultsBlockMatchesLog == [][BlockMatchesLog]_vars

(***************************************************************************)
(* A run that exits normally has checked every match of main()'s globs    *)
(* under every existing root exactly once: the counter equals the number  *)
(* of matches and every match has a verdict line in the log file.         *)
(***************************************************************************)
EveryMatchChecked ==
    status = "exited" =>
        /\ validated = Cardinality(Expected)
        /\ \A e \in Expected : \E i \in DOMAIN logFile : logFile[i].file = e

(***************************************************************************)
(* Spec section 8, scenario C and section 6: the exit code is non-zero    *)
(* exactly when the run logged an ERROR.                                  *)
(***************************************************************************)
ExitCodeReflectsErrorLog ==
    status = "exited" =>
        (exitCode = 0 <=> \A i \in DOMAIN logFile : logFile[i].lvl # "ERROR")

(***************************************************************************)
(* Spec sections 4.2 and 7: a file is reported as an ERROR only if it is  *)
(* malformed or cannot be read; a well-formed file never is.              *)
(***************************************************************************)
OnlyFaultyFilesFail ==
    \A i \in DOMAIN logFile :
        (logFile[i].lvl = "ERROR" /\ logFile[i].file # NoFile) =>
            LET e == logFile[i].file
            IN  Unreadable(e) \/ ContentOf[e] # "wellformed"

(***************************************************************************)
(* Spec section 4.4: the walker enumerates files, so the run counts the   *)
(* regular files that match main()'s globs, and nothing else.             *)
(***************************************************************************)
ValidatedCountsFiles ==
    status = "exited" =>
        validated = Cardinality({e \in Expected : KindOf[e] = "file"})
====
