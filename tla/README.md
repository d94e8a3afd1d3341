# Formal models of the Witcher3-MP validation scripts

This directory holds TLA+ models of the three Python programs of the repository, the TLC
configurations that model-check them and TLAPS proofs about them.

## The system

| Part | Source | What it does |
|---|---|---|
| File validation run | `src/scripts/validate_files.py` | `main()` builds a `FileValidator`. The constructor truncates `logs/validation.log`. The run walks `mod/config` (`*.json`, `*.xml`), `config` (`*.json`) and `mod/scripts` (`*.ws`) with `Path.rglob`, dispatches each match to a checker, logs a summary, appends one block to `logs/test_results.log` and exits 0 or 1. |
| JSON / XML checkers | same, lines 41-74 | `json.load` / `ET.parse` inside `try`. The verdict is logged inside the `try`, and errors are logged in the `except` handlers. |
| WitcherScript heuristics | same, lines 76-122 | Counts braces and parentheses, checks for mixed `function`/`func` syntax, and flags declaration lines (`let `/`var `) that have no `;` or `{` and none of the keywords (tested as substrings). |
| Project structure check | `src/Witcher3-MP-master/Witcher3-MP-Clean/validate_code.py` | `CodeValidator.run_validation` checks six lists of required paths with `exists()`. A present path adds one to `success_count`. A missing path appends an error (structure, combat, integration) or a warning (tests, docs). `main()` exits 0 iff there are no errors. |
| API research tool | `src/.../scripts/research_apis.py` | `run_research` runs four searches: local `*.md` files mentioning "redkit", the `.ws` files, a fixed list of bundle tools, and API patterns in `.ws`/`.cpp`/`.h` files. It then searches the documents again for the report's count and writes `docs/API_RESEARCH_REPORT.md` with `open(..., 'w')`. |

The programs do not call each other. They interact only through the file system: the
validation run's log and results files, and the project tree that `validate_code.py` inspects.
The research tool's report is one of the documents `validate_code.py` requires, and it is read
back by the research tool's own next run.
Each program runs on a single thread. Its only concurrency is with its environment: the file
system can refuse a write, stdout can refuse a character, and the user can start the program
again.

## Modules and how they correspond to the code

**`FileValidator.tla`** models the whole run of `validate_files.py`.

- **State.** `status`, `step` (the statement of `main()`, an index into `MainSteps`), `pat` (the
  glob of the current `validate_directory` call), `pending` (what the current `rglob` generator
  has yet to yield, in any order), the validator's `validated`/`errors`/`warnings`, `logFile`,
  `console`, the cumulative `results` file, `exitCode`, and two environment counters (`failures`,
  `runs`).
- **Actions.**
  - `Start` is `__init__`: it resets the counters and truncates the log.
  - `LogStep` covers the two phase logs.
  - `EnterDir` is the root test of `validate_directory`.
  - `CheckEntry(e)` is one inner-loop iteration together with the checker it calls.
  - `NextPattern` and `LeaveDir` advance the loops.
  - `Summary` is `generate_summary`.
  - `Results` is the append to the results file and the exit.
- **Failures.** Every log write may fail, bounded by `MaxWriteFailures`, and raises where the
  code raises:
  - inside a checker's `try`, the `except` handler logs "Error reading file";
  - inside an `except` handler or outside any `try`, the process crashes with status 1.
- **Data abstraction.**
  - A file is a model value with a root, a glob, a kind (`file`/`dir`) and a content class
    (well-formed, malformed, not UTF-8, unreadable).
  - A log line is `[lvl, msg, file]`. Timestamps and wording are dropped.
  - The itemised summary lines are folded into one write.

**`ScriptCheck.tla`** gives the WitcherScript heuristics as operators on token sequences.

- A token is a run of characters the checks tell apart: `NL`, blanks, `let `, `{`, `;`, `if`,
  `diff`, and so on.
- `Lines` is `split('\n')`, `Stripped` is `strip()`, and `FlaggedLines` is the
  `enumerate(lines, 1)` loop.
- `Issues` is the issue list in the order the code appends to it.
- `MC_FileValidator` computes each `.ws` file's verdict with `ScriptCheck!HasIssues` from a real
  token text, so the two modules compose.

**`CodeValidator.tla`** models `run_validation` and `main()`.

- `Sections` are the six lists, in call order, each with its error/warning target.
- `CheckPath` is one loop iteration. It includes the "found" `print`, which raises
  `UnicodeEncodeError` when `UnicodeConsole` is FALSE.
- `NextSection` moves to the next method call.
- `Report` covers the report prints and the exit status.
- Which required paths exist is chosen in the initial state from `MaybeMissing`.

**`ProjectCheck.tla`** is the abstract project check: one step, `Decide`, takes a running check
to `done` with exit status 0 exactly when every required path is present. `CodeValidator`
instantiates it as `PC` (`Paths <- AllPaths`, `Required <- RequiredPaths`, the variables
`present`, `status`, `exitCode` by name). The section loops are stutter steps of `PC`, and
`Report` is `Decide`.

**`ResearchTool.tla`** models `research_apis.py` across several runs.

- **State.** The report file (`reportFile`: `none`, `empty` or `written`, and `report`, the
  record of its varying fields), the process (`status`, `step`), the search results (`redkit`,
  `ws`, `tw3`), whether `docs/` exists, and the counters `runs` and `failures`.
- **Actions.** `Start` is `run_research`. `SearchRedkit`, `SearchWitcherScript`,
  `SearchBundle` and `SearchTw3` are the four searches. `Save` is the second documentation
  search, the report text and `save_research_results`, with three outcomes: the write succeeds;
  `docs/` is missing (`FileNotFoundError`); or the write fails after `open` has truncated the
  file. `CreateDocsDir` is the user creating `docs/` between runs.
- **Data abstraction.** A document is a model value with a file name (`DocName`). The model
  records whether the document mentions REDkit and whether it can be read as UTF-8. A source
  file has the set of API patterns it contains. `LocalDocs` is the set of `found_in_<name>`
  keys, and it includes the report on disk: every complete report mentions REDkit (line 180).

`MC_FileValidator`, `MC_ScriptCheck`, `MC_CodeValidator` and `MC_ResearchTool` hold the instances (the trees and
token sets). The proofs are in six modules:

- `FileValidatorProofs`: type correctness of the validator.
- `FileValidatorWalkProofs`: the walk invariant and the count of verdict lines.
- `FileValidatorLogProofs`: the lists of the report and the results block agree with the log file.
- `CodeValidatorProofs`: the exit status and the refinement.
- `CodeValidatorTallyProofs`: the tally of the project check.
- `ResearchToolProofs`: the report's consistency and its type.

## Runs

| Run | Expect | Checks | What it shows |
|---|---|---|---|
| `fv_main` | pass | `TypeOK`, `ReportMatchesLog`, `EveryMatchChecked`, `ResultsBlockMatchesLog` | See below. |
| `fv_missing_root` | violation | `ExitCodeReflectsErrorLog` | A missing root is logged at ERROR, yet the run exits 0 (spec §6, §8 scenario C). |
| `fv_write_failure` | violation | `OnlyFaultyFilesFail` | One failed log write inside a `try` makes a well-formed file an ERROR. |
| `fv_dir_entry` | violation | `ValidatedCountsFiles` | A directory named `old.json` is counted and reported as unreadable (spec §4.4). |
| `sc_keywords` | violation | `UnterminatedDeclarationReported` | `let diff` without `;` is not reported: the keyword test is by substring (spec §4.3 check 4). |
| `cv_main` | pass | `TypeOK`, `ExitCodeMatchesRequired`, `ReportAccountsForEveryCheck` | For all 16 combinations of missing paths, the exit status is 0 iff all required paths exist, and every list entry is tallied once. This includes the file listed twice, as combat file and as test. |
| `cv_ascii_console` | violation | `ExitCodeMatchesRequired` | On a stdout that cannot encode the check mark, a complete project exits 1. |
| `rt_main` | pass | `TypeOK`, `ReportSelfConsistent` | Over four starts, with `docs/` present or created later and up to two failed writes, every complete report's REDkit status agrees with its own local-documentation count. |
| `rt_self_reference` | violation | `RedkitStatusReflectsDocs` | No readable document mentions REDkit, yet the second run reports REDkit `partial`: it found its own earlier report. |

`fv_main` runs on a tree with every verdict kind, up to 2 failed writes and 2 process starts.
It shows three things:

- the in-memory report always equals what the log file says;
- every block written to the results file is appended after the earlier blocks and carries
  the counts and status of its own run's log file, with a matching exit status
  (`ResultsBlockMatchesLog`, an action property);
- a normal exit has checked every match exactly once.

**Bounds.**

- The main tree has seven entries: one of each content class, both `.ws` outcomes (computed by
  `ScriptCheck` from real texts), a two-glob root, a one-glob root and a non-matching file. This
  reaches every checker branch.
- Two write failures let a caught failure be followed by an uncaught one.
- `MC_ResearchTool` has two READMEs in different directories, one non-UTF-8 note (the only
  document that mentions REDkit), one C++ file with two API patterns and one `.ws` file. Four
  starts and two write failures cover the first report, its reuse by later runs, a truncated
  report, and the crash without `docs/` followed by its creation.
- Two starts show that a restart after a crash truncates the log while the results file keeps
  growing.
- Three tokens over {`let `, `diff`, `x`, NL, `;`} reach a declaration whose identifier
  contains a keyword, with and without its terminator.

Every run finishes in seconds.

**Deadlock.** Every cfg sets `CHECK_DEADLOCK FALSE`. The programs really stop: a finished
process has no successor, and `FileValidator` stops once `MaxRuns` starts are used up.

**Fairness.** `WF_vars(Process)` for the validation run and the research tool, and
`WF_vars(Next)` for `CodeValidator`. CPython runs the single thread of a started process without pause. Starting
the program again is the user's choice, so `Start` gets no fairness. No run checks a liveness
property: every loop of these programs runs over a finite list or a finite `rglob` result, so
that a started process ends says nothing about the code.

## What is proved

`FileValidatorProofs.tla` proves `THEOREM TypeCorrect == Spec => []TypeOK` for every tree,
every root set and every bound. It rests on the lemmas below; `TypeOK` is itself inductive, so
no strengthening is needed.

- `MainStepsShape`: the statement table, one case per step.
- `VerdictType`: every verdict is one of the four.
- `EntryType`: `Entry` builds log lines.
- `FixedMsgs`.
- `TypeInit`.
- `AppendLine`: appending a log line stays in `Seq(LogEntries)`.
- `TypeStep`: one case per action and per disjunct of the action.

The assumptions used are `EntriesAssumption`, `TreeAssumption` and `BoundsAssumption`.

`CodeValidatorProofs.tla` proves `THEOREM ExitCodeCorrect == UnicodeConsole = TRUE => (Spec =>
[]ExitCodeMatchesRequired)` for every set of missing paths. `ExitCodeMatchesRequired` is not
inductive as it stands: it says nothing about a running process. The strengthening `IInv` adds:

- the loop position (`sec`, `idx`) is in range;
- `errors` is empty exactly when no finished check (`Done(c)`: an earlier list, or an earlier
  position in the current list) found a required path missing;
- a returned process has finished all six lists and set the matching exit status.

The proof has one lemma per action:

- `CheckPath` adds exactly the check at the loop position to the finished ones;
- `NextSection` changes nothing, because every position of the left list is already finished;
- `Report` sets the exit status from `errors`.

It needs only the shape of the path lists (`SectionsShape`), not their contents. Without the
hypothesis `UnicodeConsole = TRUE`, run `cv_ascii_console` shows that the property fails.

`CodeValidatorProofs.tla` also proves `THEOREM Refinement == UnicodeConsole = TRUE => (Spec =>
PC!SafeSpec)`. The proof has three parts:

- `Init` maps to `PC!Init`;
- under `IInv`, every step maps to a step of `PC` or a stutter of `PC` (`StepRefines`): the
  loop steps leave `present`, `status` and `exitCode` alone, and `Report` is `PC!Decide`. The
  exit status it sets is the right one by `FinishedMissed`, which says that after the last
  list, a missed required check is the same as a required path absent;
- the fairness of `ProjectCheck!Spec` is not claimed: the run reaches its verdict because its
  loops run over fixed lists.

`ResearchToolProofs.tla` proves `THEOREM SelfConsistent == Spec => []ReportSelfConsistent` for
every project tree, every bound and every history of runs. The property is not inductive: a
running process must carry the answer of its first documentation search to the save. `IInv`
adds that, once `SearchRedkit` has run, `redkit = "partial"` exactly when `LocalDocs` is
non-empty. `LocalDocs` cannot change before the save because nothing writes the report file
until then. `LocalDocsFinite` and `LocalDocsCount` show that the printed count is positive
exactly when that set is non-empty. The argument uses `ToolAssumption`.

`FileValidatorWalkProofs.tla` proves `THEOREM WalkComplete == Spec => []EveryMatchChecked`.
It holds for every tree, every root set, every order in which `rglob` yields the matches, and
every history of failed writes and restarts. `EveryMatchChecked` only speaks of an exited
process, so the proof needs a strengthening. `WInv` is `TypeOK` plus, while the process is
running or has exited, `WalkInv`:

- The globs of `main()` are four *slots*: a (root, glob) pair of a walked, existing root.
  `CoveredAt(s, q)` is the set of matches of the slots before statement `s`, together with the
  first `q` globs of `s`.
- The generator of the current glob holds only matches of that glob.
- The yielded matches (`visited`) and the pending ones are disjoint. Together they are
  `CoveredAt(step, pat)`.
- `validated` is the number of yielded matches.
- Every yielded match has a line in the log file.

The facts it rests on:

- No two slots share a root and a glob (`SlotsDistinct`), so the matches of different slots are
  disjoint (`CoveredNextGlob`).
- `CoveredAt(7, 0)` is `Expected` (`CoveredAtEnd`).
- Steps with no slot leave `CoveredAt` alone (`CoveredSkip`, `CoveredLeave`).
- A failed write of a statement, or one the checker does not catch, crashes the process, and
  that takes it out of `Alive`.

There is one lemma per action (`StartWalk`, `LogStepWalk`, `EnterDirWalk`, `CheckEntryWalk`,
`NextPatternWalk`, `LeaveDirWalk`, `SummaryWalk`, `ResultsWalk`, `StutterWalk`). At a normal
exit `main()` stands at its last statement with no generator open, so `visited = Expected`
(`WInvChecked`). TLC checked `WInv` as an invariant on the five `FileValidator` configurations
before it was proved.

The same module proves `THEOREM CountMatchesLog`: while a process is alive, `validated` equals
`VerdictLines`. This is the count part of `ReportMatchesLog`. It is inductive with `TypeOK`:

- every written line about a file comes with one added to the counter, including the
  `read_error` line of a caught failure;
- every other line leaves the counter alone;
- a failure the checker does not catch crashes the process.

`CodeValidatorTallyProofs.tla` proves `THEOREM TallyCorrect == Spec =>
[]ReportAccountsForEveryCheck` and `THEOREM TypeCorrect == Spec => []TypeOK`, both without
the `UnicodeConsole` hypothesis. The invariant `TInv` adds:

- the loop position is in range;
- a finished run has left the last list;
- `successCount + Len(errors) + Len(warnings)` is the number of finished checks (`DoneSet`);
- the paths of the messages are the paths of the finished checks that are absent.

`CheckSubsetCount` and `CountBound` bound the counter by `Cardinality(Checks)`, which is what
`TypeOK` needs. `AllDone` says that after the last list every check is finished.
`ResearchToolProofs.tla` also proves `THEOREM TypeCorrect == Spec => []TypeOK` from the same
`IInv`.

`FileValidatorLogProofs.tla` proves `THEOREM ReportLogCorrect == Spec => []ReportMatchesLog`:
the lists `errors` and `warnings` are the files of the ERROR and WARNING lines of the log, in
log order, for every tree, yield order and history of failed writes.

- `FilesLoggedAt(l)` was first written with `SelectSeq`, which the standard module defines by
  a recursive function the provers cannot unfold. It is now defined without recursion: the
  `k`-th file is the file of the line whose *rank* (`RankAt`, the number of lines of level `l`
  about a file at or before it) is `k`. TLC checked that both definitions agree in every
  state of `fv_main` before the change.
- The invariant `LInv` is `TypeOK` plus `RankOnto` (every rank `1..n` is taken by a line) plus,
  while the process is alive, `errors = FilesLoggedAt("ERROR")` and
  `warnings = FilesLoggedAt("WARNING")`. `RankOnto` is carried in the invariant rather than
  derived, since deriving it needs a counting argument over finite sets.
- `FilesAppend` is the key lemma: appending a line of level `l` about a file gives it the next
  rank, so `FilesIn` grows by its file; any other line leaves `FilesIn` alone. `AppendLines`,
  `AppendRank` and `NewRank` give the pieces.
- One lemma per kind of step: `StartL`, `LineL` (a line and its list append, including the
  `read_error` line of a caught failure), `PlainL`, `SilentL` and `CheckEntryL`.

Together with `CountMatchesLog` this gives `ReportMatchesLog` in full.

The same module proves `THEOREM ResultsBlockCorrect == Spec => ResultsBlockMatchesLog`, an
action property. A step that changes the results file is the successful write of `Results`
(`OnlyResultsWrites`). That write appends a block, so the earlier runs' blocks are kept. By
`LInv` and `CountMatchesLog` the block's counts are the numbers of verdict, ERROR and WARNING
lines of the log, and `FilesLen` turns `errors = << >>` into "no ERROR line". The proof is
`StepBlock` followed by a `PTL` step.

**Left to TLC.** Every invariant and action property of a passing run is proved. What only
TLC shows is what the violation runs show: those properties are false of the code, and a
counterexample is their evidence. Liveness is neither checked nor proved (see Fairness), and the
provers could not handle it: they do not reason about `ENABLED`.

## Findings

1. `validate_files.py:127`: a missing root directory does not fail the run.
2. `validate_files.py:46`, `63`, `115`: the success log call sits inside `try`. A failing write
   or print turns a valid file into a read error.
3. `validate_files.py:133`: `rglob` yields directories.
4. `validate_files.py:106`: the keyword exemption matches substrings.
5. `validate_code.py:131`: the check-mark print crashes the run on a non-UTF-8 stdout.
6. `research_apis.py:117`: the documentation search globs the tool's own earlier report. From
   the second run on, REDkit is reported `partial` and the report counts itself as local
   documentation (`rt_self_reference`).

Hazards with no property: a failed write leaves an empty report, the earlier one is lost, and
`validate_code.py` still counts the file as present. Also, documents with the same file name
count once.

There is also a divergence with no run of its own: the results block records `PASSED` for a
run with warnings only, where spec §4.6 names `PASSED_WITH_WARNINGS`.

## Not modelled

- In `research_apis.py`: the emoji prints (stdout is taken to encode them), the report's fixed
  text and date, the `import requests` that fails where the package is missing, and the regex
  matches themselves (abstracted to the set of patterns per file).
- The content checks of `validate_code.py` (`validate_file`, `validate_cpp_file`, ...). Nothing
  calls them.
- The parsers `json.load` and `ET.parse`. They are library code, abstracted to a content class.
- Case-insensitive extensions (spec §4.1). `rglob` on POSIX is case-sensitive and the model
  takes the glob of each file as given.

## Plan for later work

- Add a refinement from `FileValidator` to an abstract "verdict per file" specification.
- Model the dead content checks of `validate_code.py` as operators.
