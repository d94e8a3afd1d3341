------------------------- MODULE ResearchToolProofs -------------------------
(***************************************************************************)
(* Proofs about ResearchTool: every complete report the tool writes agrees *)
(* with itself, whatever the project tree and however often the tool ran  *)
(* before.  Both searches of the documents happen before open() truncates *)
(* the old report, so they read the same files; the invariant carries the *)
(* first search's answer through the run to the save.                     *)
(***************************************************************************)
EXTENDS ResearchTool, FiniteSetTheorems, FunctionTheorems, TLAPS

(***************************************************************************)
(* The inductive invariant: the type, the property, and, once the REDkit  *)
(* search of a running process is behind it, its status says whether the  *)
(* documents (the report on disk among them) mention REDkit.              *)
(***************************************************************************)
IInv ==
    /\ TypeOK
    /\ ReportSelfConsistent
    /\ (status = "running" /\ step # "redkit") => (redkit = "partial" <=> LocalDocs # {})

-----------------------------------------------------------------------------
\* The documents that search_local_documentation finds form a finite set.
LEMMA LocalDocsFinite == IsFiniteSet(LocalDocs)
<1> DEFINE X == MentionsRedkit \ Undecodable
           T == {DocName[d] : d \in X}
           f == [d \in X |-> DocName[d]]
<1>1. IsFiniteSet(X)
  BY ToolAssumption, FS_Subset
<1>2. f \in Surjection(X, T)
  BY ToolAssumption DEF Surjection
<1>3. IsFiniteSet(T)
  BY <1>1, <1>2, FS_Surjection
<1>4. IsFiniteSet(IF ReportWritten THEN {ReportName} ELSE {})
  BY FS_Singleton, FS_EmptySet
<1>. QED
  BY <1>3, <1>4, FS_Union DEF LocalDocs

\* The count the report prints is positive exactly when a document was found.
LEMMA LocalDocsCount ==
    /\ Cardinality(LocalDocs) \in Nat
    /\ Cardinality(LocalDocs) > 0 <=> LocalDocs # {}
BY LocalDocsFinite, FS_CardinalityType, FS_EmptySet

\* The number of .ws files is a natural number.
LEMMA WsCount == Cardinality(WsFiles) \in Nat
BY ToolAssumption, FS_CardinalityType

LEMMA InitIInv == Init => IInv
BY ToolAssumption DEF Init, IInv, TypeOK, ReportSelfConsistent, Reports, Statuses,
                      ReportWritten

LEMMA StepIInv == IInv /\ [Next]_vars => IInv'
<1> SUFFICES ASSUME IInv, [Next]_vars PROVE IInv'
  OBVIOUS
<1> USE ToolAssumption DEF IInv, TypeOK, Statuses
<1>1. CASE Start
  BY <1>1 DEF Start, ReportSelfConsistent, ReportWritten
<1>2. CASE CreateDocsDir
  BY <1>2 DEF CreateDocsDir, ReportSelfConsistent, ReportWritten
<1>3. CASE SearchRedkit
  <2>1. LocalDocs' = LocalDocs
    BY <1>3 DEF SearchRedkit, LocalDocs, ReportWritten
  <2>. QED
    BY <1>3, <2>1 DEF SearchRedkit, ReportSelfConsistent, ReportWritten
<1>4. CASE SearchWitcherScript
  <2>1. LocalDocs' = LocalDocs
    BY <1>4 DEF SearchWitcherScript, LocalDocs, ReportWritten
  <2>. QED
    BY <1>4, <2>1, WsCount DEF SearchWitcherScript, ReportSelfConsistent, ReportWritten
<1>5. CASE SearchBundle
  <2>1. LocalDocs' = LocalDocs
    BY <1>5 DEF SearchBundle, LocalDocs, ReportWritten
  <2>. QED
    BY <1>5, <2>1 DEF SearchBundle, ReportSelfConsistent, ReportWritten
<1>6. CASE SearchTw3
  <2>1. LocalDocs' = LocalDocs
    BY <1>6 DEF SearchTw3, LocalDocs, ReportWritten
  <2>. QED
    BY <1>6, <2>1 DEF SearchTw3, ReportSelfConsistent, ReportWritten
<1>7. CASE Save
  <2>1. status = "running" /\ step = "save"
    BY <1>7 DEF Save
  <2>2. status' # "running"
    BY <1>7 DEF Save
  <2>3. CASE docsDir /\ reportFile' = "written" /\ report' = Report(Cardinality(LocalDocs))
                 /\ status' = "done" /\ UNCHANGED failures
    <3>1. report' \in Reports
      BY <2>3, LocalDocsCount DEF Report, Reports
    <3>2. report'.redkit = "partial" <=> report'.localDocs > 0
      BY <2>1, <2>3, LocalDocsCount DEF Report
    <3>. QED
      BY <1>7, <2>2, <2>3, <3>1, <3>2 DEF Save, ReportSelfConsistent, ReportWritten
  <2>4. CASE ~docsDir /\ status' = "crashed" /\ UNCHANGED <<reportFile, report, failures>>
    BY <1>7, <2>2, <2>4 DEF Save, ReportSelfConsistent, ReportWritten
  <2>5. CASE docsDir /\ failures < MaxWriteFailures /\ reportFile' = "empty"
                 /\ UNCHANGED report /\ failures' = failures + 1 /\ status' = "crashed"
    BY <1>7, <2>2, <2>5 DEF Save, ReportSelfConsistent, ReportWritten
  <2>. QED
    BY <1>7, <2>3, <2>4, <2>5 DEF Save
<1>8. CASE UNCHANGED vars
  <2>1. LocalDocs' = LocalDocs
    BY <1>8 DEF vars, LocalDocs, ReportWritten
  <2>. QED
    BY <1>8, <2>1 DEF vars, ReportSelfConsistent, ReportWritten
<1>. QED
  BY <1>1, <1>2, <1>3, <1>4, <1>5, <1>6, <1>7, <1>8 DEF Next, Process

(***************************************************************************)
(* For every project tree and every number of earlier runs, each complete *)
(* report research_apis.py writes gives REDkit the status "partial"       *)
(* exactly when it counts some local documentation.                       *)
(***************************************************************************)
THEOREM SelfConsistent == Spec => []ReportSelfConsistent
<1>1. Spec => []IInv
  BY InitIInv, StepIInv, PTL DEF Spec
<1>. QED
  BY <1>1, PTL DEF IInv

(***************************************************************************)
(* Every reachable state of research_apis.py's runs is well typed: the    *)
(* report on disk is a report record, the counters stay in their bounds.  *)
(***************************************************************************)
THEOREM TypeCorrect == Spec => []TypeOK
<1>1. IInv => TypeOK
  BY DEF IInv
<1>. QED
  BY InitIInv, StepIInv, <1>1, PTL DEF Spec
====
