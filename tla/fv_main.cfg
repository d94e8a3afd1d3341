CONSTANTS
    Entries <- MainEntries
    RootOf <- MainRootOf
    PatternOf <- MainPatternOf
    KindOf <- MainKindOf
    ContentOf <- MainContentOf
    ScriptIssues <- MainScriptIssues
    ExistingRoots <- AllRoots
    NoFile = NoFile
    MaxWriteFailures = 2
    MaxRuns = 2
SPECIFICATION Spec
\* The program really stops once the user stops starting it.
CHECK_DEADLOCK FALSE
INVARIANTS
    TypeOK
    ReportMatchesLog
    EveryMatchChecked
PROPERTIES
    ResultsBlockMatchesLog
