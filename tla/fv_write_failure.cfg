CONSTANTS
    Entries <- CleanEntries
    RootOf <- CleanRootOf
    PatternOf <- CleanPatternOf
    KindOf <- CleanKindOf
    ContentOf <- CleanContentOf
    ScriptIssues <- CleanScriptIssues
    ExistingRoots <- AllRoots
    NoFile = NoFile
    MaxWriteFailures = 1
    MaxRuns = 1
SPECIFICATION Spec
\* The program really stops once the user stops starting it.
CHECK_DEADLOCK FALSE
INVARIANTS
    OnlyFaultyFilesFail
