------------------------- MODULE MC_CodeValidator ---------------------------
(***************************************************************************)
(* Instances of CodeValidator for TLC: a few required paths that may be   *)
(* missing, one of them listed twice (in the combat and the tests lists). *)
(***************************************************************************)
EXTENDS CodeValidator

\* An error-list directory, an error-list file, the path of two lists and
\* a documentation file.
SometimesMissing ==
    {"src", "README.md", "test_combat_system.cpp", "API_RESEARCH_REPORT.md"}
====
