SPECIFICATION Spec
CONSTANTS
    readme = readme
    guideReadme = guideReadme
    notes = notes
    mpScript = mpScript
    bridgeCpp = bridgeCpp
    Docs <- TreeDocs
    DocName <- TreeDocName
    MentionsRedkit <- TreeMentions
    Sources <- TreeSources
    PatternsIn <- TreePatternsIn
    Undecodable <- TreeUndecodable
    WsFiles <- TreeWs
    MaxRuns = 4
    MaxWriteFailures = 2
INVARIANTS
    TypeOK
    ReportSelfConsistent
\* The program really stops once the user stops starting it.
CHECK_DEADLOCK FALSE
