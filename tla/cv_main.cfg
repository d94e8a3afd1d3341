SPECIFICATION Spec
CONSTANTS
    MaybeMissing <- SometimesMissing
    UnicodeConsole = TRUE
INVARIANTS
    TypeOK
    ExitCodeMatchesRequired
    ReportAccountsForEveryCheck
\* The process ends after its report: the final state has no successor.
CHECK_DEADLOCK FALSE
