SPECIFICATION Spec
CONSTANTS
    MaybeMissing <- SometimesMissing
    UnicodeConsole = FALSE
INVARIANTS
    ExitCodeMatchesRequired
\* The process ends after its report: the final state has no successor.
CHECK_DEADLOCK FALSE
