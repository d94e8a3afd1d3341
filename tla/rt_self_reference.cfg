SPECIFICATION Spec
CONSTANTS
    readme = readme
    guideReadme = guideReadme
    notes = notes
    mpScript = mpScript
    bridgeCpp = bridgeCpp
    Docs <- TreeDocs
    DocName <- TreeDocName
    MentionsRedkit <- TreeMentions
    Sources <- TreeSources
    PatternsIn <- TreePatternsIn
    Undecodable <- TreeUndecodable
    WsFiles <- TreeWs
    MaxRuns = 2
    MaxWriteFailures = 0
INVARIANTS
    RedkitStatusReflectsDocs
\* The program really stops once the user stops starting it.
CHECK_DEADLOCK FALSE
