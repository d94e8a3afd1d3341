CONSTANTS
    Entries <- DirEntries
    RootOf <- DirRootOf
    PatternOf <- DirPatternOf
    KindOf <- DirKindOf
    ContentOf <- DirContentOf
    ScriptIssues <- DirScriptIssues
    ExistingRoots <- AllRoots
    NoFile = NoFile
    MaxWriteFailures = 0
    MaxRuns = 1
SPECIFICATION Spec
\* The program really stops once the user stops starting it.
CHECK_DEADLOCK FALSE
INVARIANTS
    ValidatedCountsFiles
