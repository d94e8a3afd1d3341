--------------------------- MODULE ProjectCheck ----------------------------
(***************************************************************************)
(* What validate_code.py promises, with no loops and no lists: a run looks *)
(* at the project once and ends with status 0 if every required path      *)
(* exists and 1 otherwise.  Module CodeValidator implements it under the  *)
(* mapping that keeps present, status and exitCode.                       *)
(***************************************************************************)
CONSTANTS
    Paths,          \* every path the check looks at
    Required,       \* the paths whose absence fails the check
    MaybeMissing    \* the paths that may be absent in a run

VARIABLES present, status, exitCode

vars == <<present, status, exitCode>>

Init ==
    /\ present \in {Paths \ m : m \in SUBSET MaybeMissing}
    /\ status = "running"
    /\ exitCode = 0

\* The run ends with its verdict on the project.
Decide ==
    /\ status = "running"
    /\ status' = "done"
    /\ exitCode' = IF Required \subseteq present THEN 0 ELSE 1
    /\ UNCHANGED present

SafeSpec == Init /\ [][Decide]_vars

\* A started run is not left unfinished.
Spec == SafeSpec /\ WF_vars(Decide)
====
