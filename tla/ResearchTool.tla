--------------------------- MODULE ResearchTool ----------------------------
(***************************************************************************)
(* The API research run of scripts/research_apis.py: run_research calls    *)
(* save_research_results, which builds the report (four searches, then    *)
(* the Markdown text) and writes it to docs/API_RESEARCH_REPORT.md with    *)
(* open(..., 'w').  The report file persists between runs, and the search *)
(* of local documentation globs **/*.md, which includes that file.        *)
(*                                                                         *)
(* Data is abstracted to what the report shows: a document is a model     *)
(* value with a file name, whether its text mentions "redkit" and whether *)
(* reading it as UTF-8 fails (the bare except skips it); a source file has *)
(* the set of API patterns it contains.  The report is the record of its  *)
(* status fields and counts; the fixed text and the date are left out.    *)
(* Every print carries an emoji and stdout is taken to encode it.         *)
(***************************************************************************)
EXTENDS Naturals, FiniteSets

CONSTANTS
    Docs,             \* the .md files of the project other than the report
    DocName,          \* DocName[d]: the file name of d (doc_file.name)
    MentionsRedkit,   \* the documents whose lower-cased text contains "redkit"
    Sources,          \* the .ws, .cpp and .h files of the project
    PatternsIn,       \* PatternsIn[f]: the api_patterns that occur in f
    Undecodable,      \* the files whose read raises (skipped by `except:`)
    WsFiles,          \* the .ws files (globbed by search_witcherscript_...)
    MaxRuns,          \* bound on how often the tool is started
    MaxWriteFailures  \* bound on failed writes of the report

\* The name of the report, as search_local_documentation keys it.
ReportName == "API_RESEARCH_REPORT.md"

\* The api_patterns of search_mod_examples (lines 144-152).
Patterns == {"CallScriptFunction", "ExecuteREDkitFunction", "LoadAsset",
             "ParseBundle", "Vector4F", "PlayerData", "QuestData"}

ASSUME ToolAssumption ==
    /\ IsFiniteSet(Docs) /\ IsFiniteSet(WsFiles)
    /\ DocName \in [Docs -> STRING]
    /\ MentionsRedkit \subseteq Docs /\ WsFiles \subseteq Sources
    /\ Undecodable \subseteq Docs \cup Sources
    /\ PatternsIn \in [Sources -> SUBSET Patterns]
    /\ MaxRuns \in Nat /\ MaxWriteFailures \in Nat

Statuses == {"pending", "partial"}

\* What generate_research_report writes: the fields that vary.
Reports == [redkit : Statuses, ws : Statuses, wsCount : Nat,
            bundle : Statuses, tw3 : Statuses, localDocs : Nat]

VARIABLES
    reportFile,   \* docs/API_RESEARCH_REPORT.md: "none", "empty" or "written"
    report,       \* the report the file holds when it is "written"
    status,       \* "idle", "running", "done", "crashed"
    step,         \* the search generate_research_report is at
    redkit,       \* redkit_results["status"]
    ws,           \* witcherscript_results: status and number of examples
    tw3,          \* tw3_results["status"]
    runs,         \* processes started so far
    failures,     \* failed writes of the report so far
    docsDir       \* the docs/ directory exists

vars == <<reportFile, report, status, step, redkit, ws, tw3, runs, failures, docsDir>>

\* docs/API_RESEARCH_REPORT.md holds a complete report.
ReportWritten == reportFile = "written"

(***************************************************************************)
(* search_local_documentation(keyword) (lines 112-127): the keys           *)
(* found_in_<name> of the readable documents that mention the keyword.    *)
(* The report on disk is one of the documents; a complete report always  *)
(* mentions REDkit (its heading, line 180), an empty one does not.        *)
(***************************************************************************)
LocalDocs ==
    {DocName[d] : d \in MentionsRedkit \ Undecodable}
      \cup (IF ReportWritten THEN {ReportName} ELSE {})

\* search_mod_examples (lines 129-162): the keys <pattern>_examples.
ModExamples == UNION {PatternsIn[f] : f \in Sources \ Undecodable}

Init ==
    /\ reportFile = "none"
    /\ report = [redkit |-> "pending", ws |-> "pending", wsCount |-> 0,
                 bundle |-> "pending", tw3 |-> "pending", localDocs |-> 0]
    /\ status = "idle"
    /\ step = "redkit"
    /\ redkit = "pending"
    /\ ws = [status |-> "pending", count |-> 0]
    /\ tw3 = "pending"
    /\ runs = 0
    /\ failures = 0
    /\ docsDir \in BOOLEAN

\* A process starts: APIResearchTool() and the first prints (lines 243, 166).
Start ==
    /\ status \in {"idle", "done", "crashed"}
    /\ runs < MaxRuns
    /\ runs' = runs + 1
    /\ status' = "running"
    /\ step' = "redkit"
    /\ UNCHANGED <<reportFile, report, redkit, ws, tw3, failures, docsDir>>

\* search_redkit_documentation (lines 19-46).
SearchRedkit ==
    /\ status = "running" /\ step = "redkit"
    /\ redkit' = IF LocalDocs # {} THEN "partial" ELSE "pending"
    /\ step' = "ws"
    /\ UNCHANGED <<reportFile, report, status, ws, tw3, runs, failures, docsDir>>

\* Variant that marks the search "complete" when .ws files exist (mutation).
SearchWitcherScriptMarksComplete ==
    /\ status = "running" /\ step = "ws"
    /\ ws' = [status |-> IF WsFiles # {} THEN "complete" ELSE "pending",
              count |-> Cardinality(WsFiles)]
    /\ step' = "bundle"
    /\ UNCHANGED <<reportFile, report, status, redkit, tw3, runs, failures, docsDir>>

\* search_witcherscript_documentation (lines 48-66).
SearchWitcherScript ==
    /\ status = "running" /\ step = "ws"
    /\ ws' = [status |-> IF WsFiles # {} THEN "partial" ELSE "pending",
              count |-> Cardinality(WsFiles)]
    /\ step' = "bundle"
    /\ UNCHANGED <<reportFile, report, status, redkit, tw3, runs, failures, docsDir>>

\* search_bundle_format_documentation (lines 68-89): a fixed list of tools.
SearchBundle ==
    /\ status = "running" /\ step = "bundle"
    /\ step' = "tw3"
    /\ UNCHANGED <<reportFile, report, status, redkit, ws, tw3, runs, failures, docsDir>>

\* search_tw3_apis (lines 91-110).
SearchTw3 ==
    /\ status = "running" /\ step = "tw3"
    /\ tw3' = IF ModExamples # {} THEN "partial" ELSE "pending"
    /\ step' = "save"
    /\ UNCHANGED <<reportFile, report, status, redkit, ws, runs, failures, docsDir>>

\* The report text of lines 175-227; line 216 searches the documents again.
Report(localDocs) ==
    [redkit |-> redkit, ws |-> ws.status, wsCount |-> ws.count,
     bundle |-> "pending", tw3 |-> tw3, localDocs |-> localDocs]

\* Variant that truncates the report file before the second search of the
\* documents (mutation).
SaveTruncatesFirst ==
    /\ status = "running" /\ step = "save"
    /\ docsDir
    /\ reportFile' = "written"
    /\ report' = Report(Cardinality({DocName[d] : d \in MentionsRedkit \ Undecodable}))
    /\ status' = "done"
    /\ UNCHANGED <<step, redkit, ws, tw3, runs, failures, docsDir>>

(***************************************************************************)
(* The end of generate_research_report and save_research_results (lines   *)
(* 216-239): open(..., 'w') raises FileNotFoundError when docs/ is        *)
(* missing; a write that fails after open has truncated the file leaves   *)
(* it empty; either exception ends the process.                           *)
(***************************************************************************)
Save ==
    /\ status = "running" /\ step = "save"
    /\ \/ /\ docsDir
          /\ reportFile' = "written"
          /\ report' = Report(Cardinality(LocalDocs))
          /\ status' = "done"
          /\ UNCHANGED failures
       \/ /\ ~docsDir
          /\ status' = "crashed"
          /\ UNCHANGED <<reportFile, report, failures>>
       \/ /\ docsDir
          /\ failures < MaxWriteFailures
          /\ reportFile' = "empty"
          /\ UNCHANGED report
          /\ failures' = failures + 1
          /\ status' = "crashed"
    /\ UNCHANGED <<step, redkit, ws, tw3, runs, docsDir>>

\* Between two runs the user creates the missing docs/ directory.
CreateDocsDir ==
    /\ status # "running"
    /\ ~docsDir
    /\ docsDir' = TRUE
    /\ UNCHANGED <<reportFile, report, status, step, redkit, ws, tw3, runs, failures>>

Process == SearchRedkit \/ SearchWitcherScript \/ SearchBundle \/ SearchTw3 \/ Save

Next == Start \/ CreateDocsDir \/ Process

\* A started process runs on; starting it again is the user's choice.
Spec == Init /\ [][Next]_vars /\ WF_vars(Process)

-----------------------------------------------------------------------------
\* Type invariant.
TypeOK ==
    /\ reportFile \in {"none", "empty", "written"}
    /\ report \in Reports
    /\ status \in {"idle", "running", "done", "crashed"}
    /\ step \in {"redkit", "ws", "bundle", "tw3", "save"}
    /\ redkit \in Statuses /\ tw3 \in Statuses
    /\ ws \in [status : Statuses, count : Nat]
    /\ runs \in 0..MaxRuns
    /\ failures \in 0..MaxWriteFailures
    /\ docsDir \in BOOLEAN

(***************************************************************************)
(* The report agrees with itself: the REDkit status (first search of the  *)
(* documents, line 41) is "partial" exactly when the local documentation  *)
(* count (second search, line 216) is positive.  Both read the documents  *)
(* before the report file is opened for writing.                          *)
(***************************************************************************)
ReportSelfConsistent ==
    ReportWritten => (report.redkit = "partial" <=> report.localDocs > 0)

(***************************************************************************)
(* What the report states (lines 180-181): the REDkit status is "partial" *)
(* exactly when a document of the project mentions REDkit.  The tool's    *)
(* own earlier report is not such a document.                             *)
(***************************************************************************)
RedkitStatusReflectsDocs ==
    ReportWritten =>
        (report.redkit = "partial" <=> MentionsRedkit \ Undecodable # {})
====
