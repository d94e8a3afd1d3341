------------------------ MODULE FileValidatorProofs ------------------------
(***************************************************************************)
(* Proofs about module FileValidator, for every tree of files and every   *)
(* bound on failed writes and on restarts.                                *)
(***************************************************************************)
EXTENDS FileValidator, SequenceTheorems, TLAPS

(***************************************************************************)
(* The shape of main()'s program: seven steps, globs from Patterns, at    *)
(* most two globs per walked root, and only the last step (the results   *)
(* write) is not followed by another.                                     *)
(***************************************************************************)
LEMMA MainStepsShape ==
    /\ Len(MainSteps) = 7
    /\ \A k \in 1..7 :
          /\ MainSteps[k].pats \in Seq(Patterns)
          /\ Len(MainSteps[k].pats) <= 2
          /\ MainSteps[k].op = "dir" => Len(MainSteps[k].pats) >= 1
          /\ MainSteps[k].op # "results" => k < 7
<1>1. /\ << >> \in Seq(Patterns) /\ Len(<< >>) = 0
      /\ <<"*.json">> \in Seq(Patterns) /\ Len(<<"*.json">>) = 1
      /\ <<"*.ws">> \in Seq(Patterns) /\ Len(<<"*.ws">>) = 1
      /\ <<"*.json", "*.xml">> \in Seq(Patterns) /\ Len(<<"*.json", "*.xml">>) = 2
    BY DEF Patterns
<1>2. Len(MainSteps) = 7
    BY DEF MainSteps
<1>3. ASSUME NEW k \in 1..7
      PROVE  /\ MainSteps[k].pats \in Seq(Patterns)
             /\ Len(MainSteps[k].pats) <= 2
             /\ MainSteps[k].op = "dir" => Len(MainSteps[k].pats) >= 1
             /\ MainSteps[k].op # "results" => k < 7
    <2>1. CASE k = 1
        <3>1. MainSteps[k].pats = << >> /\ MainSteps[k].op = "log"
            BY <2>1 DEF MainSteps
        <3>2. QED
            BY <2>1, <3>1, <1>1
    <2>2. CASE k = 2
        <3>1. MainSteps[k].pats = <<"*.json", "*.xml">> /\ MainSteps[k].op = "dir"
            BY <2>2 DEF MainSteps
        <3>2. QED
            BY <2>2, <3>1, <1>1
    <2>3. CASE k = 3
        <3>1. MainSteps[k].pats = <<"*.json">> /\ MainSteps[k].op = "dir"
            BY <2>3 DEF MainSteps
        <3>2. QED
            BY <2>3, <3>1, <1>1
    <2>4. CASE k = 4
        <3>1. MainSteps[k].pats = << >> /\ MainSteps[k].op = "log"
            BY <2>4 DEF MainSteps
        <3>2. QED
            BY <2>4, <3>1, <1>1
    <2>5. CASE k = 5
        <3>1. MainSteps[k].pats = <<"*.ws">> /\ MainSteps[k].op = "dir"
            BY <2>5 DEF MainSteps
        <3>2. QED
            BY <2>5, <3>1, <1>1
    <2>6. CASE k = 6
        <3>1. MainSteps[k].pats = << >> /\ MainSteps[k].op = "summary"
            BY <2>6 DEF MainSteps
        <3>2. QED
            BY <2>6, <3>1, <1>1
    <2>7. CASE k = 7
        <3>1. MainSteps[k].pats = << >> /\ MainSteps[k].op = "results"
            BY <2>7 DEF MainSteps
        <3>2. QED
            BY <2>7, <3>1, <1>1
    <2>8. QED
        BY <2>1, <2>2, <2>3, <2>4, <2>5, <2>6, <2>7
<1>4. QED
    BY <1>2, <1>3

\* Every verdict a checker can log is one of the four, with its level.
LEMMA VerdictType ==
    ASSUME NEW p, NEW e
    PROVE  /\ Verdict(p, e) \in Verdicts
           /\ Verdict(p, e) \in Msgs
           /\ LevelOf[Verdict(p, e)] \in {"INFO", "WARNING", "ERROR"}
BY DEF Verdict, JsonVerdict, XmlVerdict, ScriptVerdict, Verdicts, Msgs, LevelOf

\* A log line built from a level, a message and a file is a log entry.
LEMMA EntryType ==
    ASSUME NEW l \in {"INFO", "WARNING", "ERROR"}, NEW m \in Msgs,
           NEW f \in Entries \cup {NoFile}
    PROVE  Entry(l, m, f) \in LogEntries
BY DEF Entry, LogEntries

\* The messages main() logs outside the checkers.
LEMMA FixedMsgs ==
    /\ {"header", "phase", "scanning", "dir_missing", "read_error"} \subseteq Msgs
    /\ LevelOf["read_error"] = "ERROR"
BY DEF Msgs, Verdicts, LevelOf

LEMMA TypeInit == Init => TypeOK
BY MainStepsShape, BoundsAssumption DEF Init, TypeOK

\* The log file and the console after one more line.
LEMMA AppendLine ==
    ASSUME NEW s \in Seq(LogEntries), NEW en \in LogEntries
    PROVE  Append(s, en) \in Seq(LogEntries)
BY AppendProperties

LEMMA TypeStep == TypeOK /\ [Next]_vars => TypeOK'
<1> SUFFICES ASSUME TypeOK, [Next]_vars PROVE TypeOK'
    OBVIOUS
<1> USE BoundsAssumption, EntriesAssumption
<1>0. /\ step \in 1..7
      /\ Pats \in Seq(Patterns)
      /\ Len(Pats) <= 2
      /\ Op = "dir" => Len(Pats) >= 1
      /\ Op # "results" => step < 7
      /\ Len(MainSteps) = 7
    BY MainStepsShape DEF TypeOK, Op, Pats
<1>1. CASE Start
    <2>1. << Entry("INFO", "header", NoFile) >> \in Seq(LogEntries)
        BY FixedMsgs, EntryType
    <2>2. logFile' \in Seq(LogEntries)
        <3>1. logFile' \in {<< Entry("INFO", "header", NoFile) >>, << >>}
            BY <1>1 DEF Start
        <3>2. << >> \in Seq(LogEntries)
            OBVIOUS
        <3>3. QED
            BY <2>1, <3>1, <3>2, Zenon
    <2>3. console' \in Seq(LogEntries) /\ errors' \in Seq(Entries)
          /\ warnings' \in Seq(Entries)
        <3>1. << >> \in Seq(LogEntries) /\ << >> \in Seq(Entries)
            OBVIOUS
        <3>2. console' = << >> /\ errors' = << >> /\ warnings' = << >>
            BY <1>1 DEF Start
        <3>3. QED
            BY <3>1, <3>2, Zenon
    <2>4. QED
        BY <1>0, <1>1, <2>2, <2>3 DEF Start, Crash, TypeOK
<1>2. CASE LogStep
    <2> DEFINE en == Entry("INFO", "phase", NoFile)
    <2>1. Append(logFile, en) \in Seq(LogEntries)
          /\ Append(console, en) \in Seq(LogEntries)
        BY FixedMsgs, EntryType, AppendLine DEF TypeOK
    <2>2. CASE WriteOk(en) /\ step' = step + 1
               /\ UNCHANGED <<status, pat, pending, visited, validated, errors,
                              warnings, results, exitCode, runs>>
        BY <1>0, <1>2, <2>1, <2>2 DEF LogStep, WriteOk, TypeOK
    <2>3. CASE WriteFails(en)
        BY <2>1, <2>3 DEF WriteFails, Crash, runVars, TypeOK
    <2>4. QED
        BY <1>2, <2>2, <2>3 DEF LogStep
<1>3. CASE EnterDir
    <2> DEFINE root == MainSteps[step].root
               en == IF root \in ExistingRoots
                       THEN Entry("INFO", "scanning", NoFile)
                       ELSE Entry("ERROR", "dir_missing", NoFile)
    <2>1. Append(logFile, en) \in Seq(LogEntries)
          /\ Append(console, en) \in Seq(LogEntries)
        <3>1. en \in LogEntries
            BY FixedMsgs, EntryType
        <3>2. QED
            BY <3>1, AppendLine DEF TypeOK
    <2>2. CASE WriteOk(en) /\ root \in ExistingRoots /\ pat' = 1
               /\ pending' = Matching(root, Pats[1]) /\ UNCHANGED step
               /\ UNCHANGED <<status, visited, validated, errors, warnings,
                              results, exitCode, runs>>
        BY <1>0, <2>1, <2>2 DEF WriteOk, Matching, TypeOK
    <2>3. CASE WriteOk(en) /\ root \notin ExistingRoots /\ step' = step + 1
               /\ UNCHANGED <<pat, pending>>
               /\ UNCHANGED <<status, visited, validated, errors, warnings,
                              results, exitCode, runs>>
        BY <1>0, <1>3, <2>1, <2>3 DEF EnterDir, WriteOk, TypeOK
    <2>4. CASE WriteFails(en)
        BY <2>1, <2>4 DEF WriteFails, Crash, runVars, TypeOK
    <2>5. QED
        BY <1>3, <2>2, <2>3, <2>4 DEF EnterDir
<1>4. ASSUME NEW e \in Entries, CheckEntry(e)
      PROVE  TypeOK'
    <2> DEFINE v == Verdict(Pats[pat], e)
               first == Entry(LevelOf[v], v, e)
               caught == Entry("ERROR", "read_error", e)
    <2>1. first \in LogEntries /\ caught \in LogEntries
        <3>1. v \in Msgs /\ LevelOf[v] \in {"INFO", "WARNING", "ERROR"}
            BY VerdictType
        <3>2. QED
            BY <3>1, FixedMsgs, EntryType
    <2>2. /\ Append(logFile, first) \in Seq(LogEntries)
          /\ Append(logFile, caught) \in Seq(LogEntries)
          /\ Append(console, first) \in Seq(LogEntries)
          /\ console \o << first, caught >> \in Seq(LogEntries)
        <3>1. << first, caught >> \in Seq(LogEntries)
            BY <2>1
        <3>2. QED
            BY <2>1, <3>1, AppendLine, ConcatProperties DEF TypeOK
    <2>3. Append(errors, e) \in Seq(Entries) /\ Append(warnings, e) \in Seq(Entries)
        BY AppendProperties DEF TypeOK
    <2>4. /\ errors' \in {errors, Append(errors, e)}
          /\ warnings' \in {warnings, Append(warnings, e)}
          /\ logFile' \in {logFile, Append(logFile, first), Append(logFile, caught)}
          /\ console' \in {Append(console, first), console \o << first, caught >>}
        BY <1>4 DEF CheckEntry, WriteOk, Record
    <2>5. /\ errors' \in Seq(Entries) /\ warnings' \in Seq(Entries)
          /\ logFile' \in Seq(LogEntries) /\ console' \in Seq(LogEntries)
        BY <2>2, <2>3, <2>4, Zenon DEF TypeOK
    <2>6. /\ status' \in {"idle", "running", "exited", "crashed"}
          /\ exitCode' \in {0, 1}
        BY <1>4 DEF CheckEntry, Crash, TypeOK
    <2>8. failures' \in 0..MaxWriteFailures
        <3>1. \/ failures' = failures
              \/ failures < MaxWriteFailures /\ failures' = failures + 1
              \/ failures + 2 <= MaxWriteFailures /\ failures' = failures + 2
            BY <1>4 DEF CheckEntry, WriteOk
        <3>2. QED
            BY <3>1 DEF TypeOK
    <2>7. QED
        BY <1>4, <2>5, <2>6, <2>8 DEF CheckEntry, TypeOK
<1>5. CASE NextPattern
    BY <1>0, <1>5 DEF NextPattern, Matching, TypeOK
<1>6. CASE LeaveDir
    BY <1>0, <1>6 DEF LeaveDir, TypeOK
<1>7. CASE Summary
    <2> DEFINE en == Entry("INFO", SummaryMsg, NoFile)
    <2>1. Append(logFile, en) \in Seq(LogEntries)
          /\ Append(console, en) \in Seq(LogEntries)
        <3>1. SummaryMsg \in Msgs
            BY DEF SummaryMsg, Msgs
        <3>2. QED
            BY <3>1, EntryType, AppendLine DEF TypeOK
    <2>2. CASE WriteOk(en) /\ step' = step + 1
               /\ UNCHANGED <<status, pat, pending, visited, validated, errors,
                              warnings, results, exitCode, runs>>
        BY <1>0, <1>7, <2>1, <2>2 DEF Summary, WriteOk, TypeOK
    <2>3. CASE WriteFails(en)
        BY <2>1, <2>3 DEF WriteFails, Crash, runVars, TypeOK
    <2>4. QED
        BY <1>7, <2>2, <2>3 DEF Summary
<1>8. CASE Results
    <2> DEFINE block == [validated |-> validated, errors |-> Len(errors),
                         warnings |-> Len(warnings),
                         status |-> IF errors = << >> THEN "PASSED" ELSE "FAILED"]
    <2>1. Append(results, block) \in Seq(Blocks)
        <3>1. block \in Blocks
            BY DEF Blocks, TypeOK
        <3>2. QED
            BY <3>1, AppendProperties DEF TypeOK
    <2>2. results' \in {results, Append(results, block)}
        BY <1>8 DEF Results
    <2>3. results' \in Seq(Blocks)
        BY <2>1, <2>2, Zenon DEF TypeOK
    <2>4. QED
        BY <1>8, <2>3 DEF Results, Crash, TypeOK
<1>9. CASE UNCHANGED vars
    BY <1>9 DEF vars, TypeOK
<1>10. QED
    BY <1>1, <1>2, <1>3, <1>4, <1>5, <1>6, <1>7, <1>8, <1>9 DEF Next, Process

(***************************************************************************)
(* Type correctness: in every reachable state every variable of the run,  *)
(* the log file and the results file has the type TypeOK gives it.        *)
(***************************************************************************)
THEOREM TypeCorrect == Spec => []TypeOK
BY TypeInit, TypeStep, PTL DEF Spec
====
