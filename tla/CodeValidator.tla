--------------------------- MODULE CodeValidator ---------------------------
(***************************************************************************)
(* The project check of validate_code.py (CodeValidator.run_validation and *)
(* main): six sections of required paths are checked in order with        *)
(* Path.exists(); a present path adds one to success_count, a missing one  *)
(* appends a message to errors (structure, combat, integration) or to      *)
(* warnings (tests, documentation).  The report is printed and main()      *)
(* returns 0 exactly when errors is empty.                                 *)
(*                                                                         *)
(* The printed lines of the "found" messages and of the report carry       *)
(* non-ASCII symbols; print() raises UnicodeEncodeError, uncaught, when    *)
(* stdout's encoding cannot encode them (UnicodeConsole = FALSE), and the *)
(* interpreter then exits with status 1.  A message is the record          *)
(* [section, path]; wording is left out.                                   *)
(***************************************************************************)
EXTENDS Naturals, Sequences, FiniteSets

CONSTANTS
    MaybeMissing,    \* the required paths that may be absent in a run
    UnicodeConsole   \* stdout encodes the symbols the script prints

(***************************************************************************)
(* The sections in the order run_validation calls them (lines 195-211):   *)
(* the path lists of lines 98-99, 117-125, 137-144, 156-161, 173-178, the *)
(* list a missing path is appended to, and whether a found path is        *)
(* printed with the check-mark symbol.                                    *)
(***************************************************************************)
Sections ==
  << [name |-> "dirs", missing |-> "error", shows |-> FALSE,
      paths |-> <<"src", "include", "tests", "mod", "docs">>],
     [name |-> "files", missing |-> "error", shows |-> FALSE,
      paths |-> <<"CMakeLists.txt", "README.md">>],
     [name |-> "combat", missing |-> "error", shows |-> TRUE,
      paths |-> <<"CombatSystemIntegration.cpp", "CombatSystemIntegration.h",
                  "CombatOptimizer.cpp", "CombatOptimizer.h",
                  "MP_CombatSystemEnhanced.ws", "MP_CombatHelpers.ws",
                  "test_combat_system.cpp">>],
     [name |-> "integration", missing |-> "error", shows |-> TRUE,
      paths |-> <<"REDkitBridge.cpp", "REDkitBridge.h",
                  "WitcherScriptBridge.cpp", "WitcherScriptBridge.h",
                  "AssetLoader.cpp", "AssetLoader.h">>],
     [name |-> "tests", missing |-> "warning", shows |-> TRUE,
      paths |-> <<"test_combat_system.cpp", "test_bridges.cpp",
                  "test_witcherscript.cpp", "test_compression.cpp">>],
     [name |-> "docs", missing |-> "warning", shows |-> TRUE,
      paths |-> <<"IMPLEMENTATION_COMPLETE_REPORT.md",
                  "MOD_ANALYSIS_COMBAT_SYSTEM.md",
                  "INCOMPLETE_FUNCTIONS_ANALYSIS.md",
                  "API_RESEARCH_REPORT.md">>] >>

\* Every (section, index) pair the loops of lines 101-186 visit.
Checks == UNION {{<<s, i>> : i \in DOMAIN Sections[s].paths} : s \in DOMAIN Sections}
PathOf(c) == Sections[c[1]].paths[c[2]]
AllPaths == {PathOf(c) : c \in Checks}

ASSUME ConstantsAssumption ==
    MaybeMissing \subseteq AllPaths /\ UnicodeConsole \in BOOLEAN

Messages == [section : {Sections[s].name : s \in DOMAIN Sections},
             path : AllPaths]

VARIABLES
    present,       \* the required paths that exist in the project root
    status,        \* "running", "done" (main returned) or "crashed"
    sec,           \* the section run_validation is in
    idx,           \* the position of the loop in the section's list
    errors,        \* self.errors
    warnings,      \* self.warnings
    successCount,  \* self.success_count
    exitCode       \* the process exit status

vars == <<present, status, sec, idx, errors, warnings, successCount, exitCode>>

\* The project tree does not change during the run.
Init ==
    /\ present \in {AllPaths \ m : m \in SUBSET MaybeMissing}
    /\ status = "running"
    /\ sec = 1
    /\ idx = 1
    /\ errors = << >>
    /\ warnings = << >>
    /\ successCount = 0
    /\ exitCode = 0

\* print() of a line with a non-ASCII symbol raises and ends the process.
PrintCrash ==
    /\ status' = "crashed"
    /\ exitCode' = 1

\* Variant that counts every path as found, missing or not (mutation).
CheckPathCountsAlways ==
    LET s == Sections[sec]
        p == s.paths[idx]
        msg == [section |-> s.name, path |-> p]
    IN  /\ status = "running"
        /\ sec <= Len(Sections)
        /\ idx <= Len(s.paths)
        /\ idx' = idx + 1
        /\ successCount' = successCount + 1
        /\ UNCHANGED <<present, sec, status, exitCode>>
        /\ errors' = IF p \notin present /\ s.missing = "error"
                       THEN Append(errors, msg) ELSE errors
        /\ warnings' = IF p \notin present /\ s.missing = "warning"
                         THEN Append(warnings, msg) ELSE warnings

(***************************************************************************)
(* One iteration of a section's loop: exists(), then either the count and *)
(* (in four sections) the printed "found" line, or the append.            *)
(***************************************************************************)
CheckPath ==
    LET s == Sections[sec]
        p == s.paths[idx]
        msg == [section |-> s.name, path |-> p]
    IN  /\ status = "running"
        /\ sec <= Len(Sections)
        /\ idx <= Len(s.paths)
        /\ idx' = idx + 1
        /\ UNCHANGED <<present, sec>>
        /\ IF p \in present
             THEN /\ successCount' = successCount + 1
                  /\ UNCHANGED <<errors, warnings>>
                  /\ IF s.shows /\ ~UnicodeConsole
                       THEN PrintCrash
                       ELSE UNCHANGED <<status, exitCode>>
             ELSE /\ errors' = IF s.missing = "error" THEN Append(errors, msg)
                                                     ELSE errors
                  /\ warnings' = IF s.missing = "warning" THEN Append(warnings, msg)
                                                         ELSE warnings
                  /\ UNCHANGED <<successCount, status, exitCode>>

\* A section's loop is done; run_validation calls the next method.
NextSection ==
    /\ status = "running"
    /\ sec <= Len(Sections)
    /\ idx > Len(Sections[sec].paths)
    /\ sec' = sec + 1
    /\ idx' = 1
    /\ UNCHANGED <<present, status, errors, warnings, successCount, exitCode>>

\* Variant that returns the number of errors as the exit status (mutation).
ReportExitErrorCount ==
    /\ status = "running"
    /\ sec = Len(Sections) + 1
    /\ status' = "done"
    /\ exitCode' = Len(errors)
    /\ UNCHANGED <<present, sec, idx, errors, warnings, successCount>>

\* Variant that also fails a run with only warnings (mutation).
ReportFailsOnWarnings ==
    /\ status = "running"
    /\ sec = Len(Sections) + 1
    /\ status' = "done"
    /\ exitCode' = IF errors = << >> /\ warnings = << >> THEN 0 ELSE 1
    /\ UNCHANGED <<present, sec, idx, errors, warnings, successCount>>

(***************************************************************************)
(* Lines 214-234 and main() (lines 238-245): the report is printed, its    *)
(* last line always with a symbol, and the exit status is 0 exactly when  *)
(* errors is empty.                                                       *)
(***************************************************************************)
Report ==
    /\ status = "running"
    /\ sec = Len(Sections) + 1
    /\ IF UnicodeConsole
         THEN /\ status' = "done"
              /\ exitCode' = IF errors = << >> THEN 0 ELSE 1
         ELSE PrintCrash
    /\ UNCHANGED <<present, sec, idx, errors, warnings, successCount>>

Next == CheckPath \/ NextSection \/ Report

\* CPython runs the single thread to the end: every enabled step is taken.
Spec == Init /\ [][Next]_vars /\ WF_vars(Next)

-----------------------------------------------------------------------------
\* Type invariant.
TypeOK ==
    /\ present \subseteq AllPaths
    /\ status \in {"running", "done", "crashed"}
    /\ sec \in 1..Len(Sections) + 1
    /\ idx \in 1..8
    /\ errors \in Seq(Messages)
    /\ warnings \in Seq(Messages)
    /\ successCount \in 0..Cardinality(Checks)
    /\ exitCode \in {0, 1}

\* The required paths whose absence the code treats as an error.
RequiredPaths ==
    {PathOf(c) : c \in {c \in Checks : Sections[c[1]].missing = "error"}}

(***************************************************************************)
(* The exit status of main() says whether the project is complete: once   *)
(* the process has ended, it is 0 exactly when every path of the          *)
(* structure, combat and integration lists exists.  Missing tests or      *)
(* documentation only warn.                                               *)
(***************************************************************************)
ExitCodeMatchesRequired ==
    status \in {"done", "crashed"} => (exitCode = 0 <=> RequiredPaths \subseteq present)

(***************************************************************************)
(* The tally of run_validation adds up: after the report, every visited   *)
(* list entry was counted once, as a success, an error or a warning, and  *)
(* the messages name exactly the missing required paths.                  *)
(***************************************************************************)
ReportAccountsForEveryCheck ==
    status = "done" =>
        /\ successCount + Len(errors) + Len(warnings) = Cardinality(Checks)
        /\ {errors[i].path : i \in DOMAIN errors}
             \cup {warnings[i].path : i \in DOMAIN warnings} = AllPaths \ present
-----------------------------------------------------------------------------
\* The abstract check: one verdict on the project, no lists.
PC == INSTANCE ProjectCheck WITH Paths <- AllPaths, Required <- RequiredPaths
====
