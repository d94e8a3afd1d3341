----------------------- MODULE FileValidatorLogProofs -----------------------
(***************************************************************************)
(* Proofs that the validator's lists agree with its log file              *)
(* (ReportMatchesLog): self.errors and self.warnings are the files of the *)
(* ERROR and WARNING verdict lines of validation.log, in log order, and   *)
(* self.validated_files is the number of verdict lines.                   *)
(*                                                                         *)
(* The argument: every line main() writes is appended (lines 37-38), and  *)
(* the checkers append a file to self.errors or self.warnings right after *)
(* the log call that wrote its line, at the level of that line.  A line   *)
(* of level l about a file is the last of its level, so it gets the next  *)
(* rank and FilesIn grows by its file; any other line leaves FilesIn      *)
(* alone.  A write that fails inside a try is caught and its handler's    *)
(* ERROR line is appended with the "read_error" record; one that fails    *)
(* elsewhere ends the process.                                            *)
(***************************************************************************)
EXTENDS FileValidatorWalkProofs

\* Every rank 1..n among the verdict lines of level l is taken by a line.
RankOnto(s, l) ==
    \A k \in 1..Cardinality(LinesAt(s, l)) :
        \E i \in LinesAt(s, l) : RankAt(s, l, i) = k

\* The appended line is a line of level l about a file.
Counts(en, l) == en.lvl = l /\ en.file # NoFile

-----------------------------------------------------------------------------
\* The positions of the verdict lines of a log are a finite set of indices.
LEMMA LinesFinite ==
    ASSUME NEW s \in Seq(LogEntries), NEW l
    PROVE  /\ LinesAt(s, l) \subseteq 1..Len(s)
           /\ IsFiniteSet(LinesAt(s, l))
           /\ Cardinality(LinesAt(s, l)) \in Nat
<1>1. Len(s) \in Nat /\ DOMAIN s = 1..Len(s)
  BY LenProperties
<1>2. LinesAt(s, l) \subseteq 1..Len(s)
  BY <1>1 DEF LinesAt
<1>3. IsFiniteSet(1..Len(s))
  BY <1>1, FS_Interval
<1>. QED
  BY <1>2, <1>3, FS_Subset, FS_CardinalityType

\* The rank of a verdict line is between 1 and the number of such lines.
LEMMA RankRange ==
    ASSUME NEW s \in Seq(LogEntries), NEW l, NEW i \in LinesAt(s, l)
    PROVE  RankAt(s, l, i) \in 1..Cardinality(LinesAt(s, l))
<1>. DEFINE B == {j \in LinesAt(s, l) : j <= i}
<1>1. IsFiniteSet(LinesAt(s, l)) /\ Cardinality(LinesAt(s, l)) \in Nat
      /\ LinesAt(s, l) \subseteq 1..Len(s)
  BY LinesFinite
<1>2. IsFiniteSet(B) /\ Cardinality(B) <= Cardinality(LinesAt(s, l))
  BY <1>1, FS_Subset
<1>3. Cardinality(B) \in Nat /\ B # {}
  BY <1>1, <1>2, FS_CardinalityType
<1>4. Cardinality(B) # 0
  BY <1>2, <1>3, FS_EmptySet
<1>. QED
  BY <1>1, <1>2, <1>3, <1>4 DEF RankAt

\* Appending a line adds its position to the verdict lines of its level.
LEMMA AppendLines ==
    ASSUME NEW s \in Seq(LogEntries), NEW en, NEW l
    PROVE  LinesAt(Append(s, en), l) =
             IF Counts(en, l) THEN LinesAt(s, l) \cup {Len(s) + 1} ELSE LinesAt(s, l)
<1>1. /\ Len(s) \in Nat /\ DOMAIN s = 1..Len(s)
      /\ DOMAIN Append(s, en) = 1..Len(s) + 1
      /\ \A i \in 1..Len(s) : Append(s, en)[i] = s[i]
      /\ Append(s, en)[Len(s) + 1] = en
  BY LenProperties
<1>. QED
  BY <1>1 DEF LinesAt, Counts

\* Appending a line keeps the rank of every earlier verdict line.
LEMMA AppendRank ==
    ASSUME NEW s \in Seq(LogEntries), NEW en, NEW l, NEW i \in LinesAt(s, l)
    PROVE  RankAt(Append(s, en), l, i) = RankAt(s, l, i)
<1>1. LinesAt(s, l) \subseteq 1..Len(s) /\ Len(s) \in Nat
  BY LinesFinite, LenProperties
<1>2. {j \in LinesAt(Append(s, en), l) : j <= i} = {j \in LinesAt(s, l) : j <= i}
  BY <1>1, AppendLines
<1>. QED
  BY <1>2 DEF RankAt

\* An appended verdict line of level l is the last of its level.
LEMMA NewRank ==
    ASSUME NEW s \in Seq(LogEntries), NEW en, NEW l, Counts(en, l)
    PROVE  RankAt(Append(s, en), l, Len(s) + 1) = Cardinality(LinesAt(s, l)) + 1
<1>1. LinesAt(s, l) \subseteq 1..Len(s) /\ Len(s) \in Nat /\ IsFiniteSet(LinesAt(s, l))
  BY LinesFinite, LenProperties
<1>2. {j \in LinesAt(Append(s, en), l) : j <= Len(s) + 1} = LinesAt(s, l) \cup {Len(s) + 1}
  BY <1>1, AppendLines
<1>3. Len(s) + 1 \notin LinesAt(s, l)
  BY <1>1
<1>. QED
  BY <1>1, <1>2, <1>3, FS_AddElement DEF RankAt

\* Appending a line: the ranks still cover 1..n, and FilesIn grows by the
\* line's file exactly when it is a verdict line of level l.
LEMMA FilesAppend ==
    ASSUME NEW s \in Seq(LogEntries), NEW en, NEW l, RankOnto(s, l)
    PROVE  /\ RankOnto(Append(s, en), l)
           /\ FilesIn(Append(s, en), l) =
                IF Counts(en, l) THEN Append(FilesIn(s, l), en.file) ELSE FilesIn(s, l)
<1>. DEFINE t == Append(s, en)
            L == LinesAt(s, l)
            L2 == LinesAt(t, l)
            N == Cardinality(L)
            Cs(k) == CHOOSE i \in L : RankAt(s, l, i) = k
            Ct(k) == CHOOSE i \in L2 : RankAt(t, l, i) = k
<1>1. /\ L \subseteq 1..Len(s) /\ IsFiniteSet(L) /\ N \in Nat /\ Len(s) \in Nat
      /\ \A i \in 1..Len(s) : t[i] = s[i]
      /\ t[Len(s) + 1] = en
  BY LinesFinite, LenProperties
<1>2. \A i \in L : RankAt(t, l, i) = RankAt(s, l, i) /\ RankAt(s, l, i) \in 1..N
  BY AppendRank, RankRange
<1>3. \A k \in 1..N : Cs(k) \in L /\ RankAt(s, l, Cs(k)) = k
  BY DEF RankOnto
<1>4. L2 = IF Counts(en, l) THEN L \cup {Len(s) + 1} ELSE L
  BY AppendLines
<1>5. Counts(en, l) => RankAt(t, l, Len(s) + 1) = N + 1
  BY NewRank
<1>6. \A k \in 1..N : Ct(k) = Cs(k)
  <2> SUFFICES ASSUME NEW k \in 1..N PROVE Ct(k) = Cs(k)
    OBVIOUS
  <2>1. \A i : (i \in L2 /\ RankAt(t, l, i) = k) <=> (i \in L /\ RankAt(s, l, i) = k)
    BY <1>1, <1>2, <1>4, <1>5
  <2>. QED
    BY <2>1, Zenon
<1>7. \A k \in 1..N : t[Ct(k)].file = s[Cs(k)].file
  BY <1>1, <1>3, <1>6
<1>8. FilesIn(s, l) = [k \in 1..N |-> s[Cs(k)].file]
  BY DEF FilesIn
<1>9. CASE ~Counts(en, l)
  <2>1. L2 = L
    BY <1>4, <1>9
  <2>2. FilesIn(t, l) = [k \in 1..N |-> t[Ct(k)].file]
    BY <2>1 DEF FilesIn
  <2>3. RankOnto(t, l)
    BY <1>2, <1>3, <2>1 DEF RankOnto
  <2>. QED
    BY <1>7, <1>8, <1>9, <2>2, <2>3
<1>10. CASE Counts(en, l)
  <2>1. L2 = L \cup {Len(s) + 1} /\ Len(s) + 1 \notin L
    BY <1>1, <1>4, <1>10
  <2>2. Cardinality(L2) = N + 1
    BY <1>1, <2>1, FS_AddElement
  <2>3. Ct(N + 1) = Len(s) + 1
    <3>1. \A i : (i \in L2 /\ RankAt(t, l, i) = N + 1) <=> i = Len(s) + 1
      BY <1>1, <1>2, <1>5, <1>10, <2>1
    <3>. QED
      BY <3>1, Zenon
  <2>4. FilesIn(t, l) = [k \in 1..N + 1 |-> t[Ct(k)].file]
    BY <2>2 DEF FilesIn
  <2>5. Append(FilesIn(s, l), en.file) =
          [k \in 1..N + 1 |-> IF k <= N THEN s[Cs(k)].file ELSE en.file]
    BY <1>1, <1>8
  <2>6. RankOnto(t, l)
    <3> SUFFICES ASSUME NEW k \in 1..N + 1 PROVE \E i \in L2 : RankAt(t, l, i) = k
      BY <2>2 DEF RankOnto
    <3>1. CASE k <= N
      BY <1>1, <1>2, <1>3, <2>1, <3>1
    <3>2. CASE k = N + 1
      BY <1>5, <1>10, <2>1, <3>2
    <3>. QED
      BY <1>1, <3>1, <3>2
  <2>7. \A k \in 1..N + 1 : t[Ct(k)].file = IF k <= N THEN s[Cs(k)].file ELSE en.file
    <3> SUFFICES ASSUME NEW k \in 1..N + 1
                 PROVE  t[Ct(k)].file = IF k <= N THEN s[Cs(k)].file ELSE en.file
      OBVIOUS
    <3>1. CASE k <= N
      <4>1. k \in 1..N
        BY <1>1, <3>1
      <4>. QED
        BY <1>7, <3>1, <4>1
    <3>2. CASE k = N + 1
      <4>1. ~(k <= N)
        BY <1>1, <3>2
      <4>2. Ct(k) = Len(s) + 1
        BY <2>3, <3>2
      <4>3. t[Ct(k)] = en
        BY <1>1, <4>2
      <4>. QED
        BY <4>1, <4>3
    <3>. QED
      <4>1. k <= N \/ k = N + 1
        BY <1>1
      <4>. QED
        BY <3>1, <3>2, <4>1
  <2>. QED
    BY <1>10, <2>4, <2>5, <2>6, <2>7
<1>. QED
  BY <1>9, <1>10

-----------------------------------------------------------------------------
\* The list part of ReportMatchesLog, with the rank facts it rests on.
LPart ==
    /\ \A l \in {"ERROR", "WARNING"} : RankOnto(logFile, l)
    /\ Alive => /\ errors = FilesLoggedAt("ERROR")
                /\ warnings = FilesLoggedAt("WARNING")

\* The inductive invariant.
LInv == TypeOK /\ LPart

\* A log with no verdict line: its ranks are vacuous and FilesIn is empty.
LEMMA NoVerdictLines ==
    ASSUME NEW s \in Seq(LogEntries), NEW l, LinesAt(s, l) = {}
    PROVE  RankOnto(s, l) /\ FilesIn(s, l) = << >>
BY FS_EmptySet DEF RankOnto, FilesIn

\* A line written by a running process that stays alive: the lists grow by
\* the line's file exactly when it is a verdict line of their level.
LEMMA LineL ==
    ASSUME LInv, status = "running", status' = "running", NEW en,
           logFile' = Append(logFile, en),
           errors' = IF Counts(en, "ERROR") THEN Append(errors, en.file) ELSE errors,
           warnings' = IF Counts(en, "WARNING") THEN Append(warnings, en.file) ELSE warnings
    PROVE  LPart'
<1>1. logFile \in Seq(LogEntries)
  BY DEF LInv, TypeOK
<1>2. \A l \in {"ERROR", "WARNING"} :
        /\ RankOnto(logFile', l)
        /\ FilesIn(logFile', l) =
             IF Counts(en, l) THEN Append(FilesIn(logFile, l), en.file)
             ELSE FilesIn(logFile, l)
  BY <1>1, FilesAppend DEF LInv, LPart
<1>3. errors = FilesIn(logFile, "ERROR") /\ warnings = FilesIn(logFile, "WARNING")
  BY DEF LInv, LPart, Alive, FilesLoggedAt
<1>. QED
  BY <1>2, <1>3 DEF LPart, FilesLoggedAt

\* A step that writes no line and keeps the lists of a live process.
LEMMA SilentL ==
    ASSUME LInv, UNCHANGED logFile,
           Alive' => Alive /\ UNCHANGED <<errors, warnings>>
    PROVE  LPart'
BY DEF LInv, LPart, FilesLoggedAt

\* The lines main() writes outside the checkers are about no file.
LEMMA PlainLine ==
    ASSUME NEW m, NEW l PROVE ~Counts(Entry(l, m, NoFile), "ERROR")
                             /\ ~Counts(Entry(l, m, NoFile), "WARNING")
BY DEF Counts, Entry

\* A statement of main() that writes a line about no file: written, the
\* lists stay; failed, the process ends.
LEMMA PlainL ==
    ASSUME LInv, NEW l, NEW m,
           \/ /\ WriteOk(Entry(l, m, NoFile))
              /\ status = "running" /\ status' = "running"
              /\ UNCHANGED <<errors, warnings>>
           \/ WriteFails(Entry(l, m, NoFile))
    PROVE  LPart'
<1>1. CASE WriteFails(Entry(l, m, NoFile))
  BY <1>1, SilentL DEF WriteFails, Crash, Alive
<1>2. CASE WriteOk(Entry(l, m, NoFile)) /\ status = "running" /\ status' = "running"
           /\ UNCHANGED <<errors, warnings>>
  <2>1. ~Counts(Entry(l, m, NoFile), "ERROR") /\ ~Counts(Entry(l, m, NoFile), "WARNING")
    BY PlainLine
  <2>. QED
    BY <1>2, <2>1, LineL DEF WriteOk
<1>. QED
  BY <1>1, <1>2

\* Starting the program truncates the log: no verdict line, empty lists.
LEMMA StartL ==
    ASSUME LInv, Start, TypeOK' PROVE LPart'
<1>1. /\ logFile' \in Seq(LogEntries)
      /\ \A l \in {"ERROR", "WARNING"} : LinesAt(logFile', l) = {}
  <2>1. logFile' \in {<< Entry("INFO", "header", NoFile) >>, << >>}
    BY DEF Start
  <2>. QED
    BY <2>1 DEF TypeOK, LinesAt, Entry
<1>2. \A l \in {"ERROR", "WARNING"} : RankOnto(logFile', l) /\ FilesIn(logFile', l) = << >>
  BY <1>1, NoVerdictLines
<1>. QED
  BY <1>2 DEF Start, LPart, FilesLoggedAt

\* One iteration of the inner loop.  The verdict line is written and the
\* file recorded at its level; or the write fails inside the try and the
\* handler writes and records "read_error"; or the process ends.
LEMMA CheckEntryL ==
    ASSUME LInv, NEW e \in Entries, CheckEntry(e) PROVE LPart'
<1>. DEFINE v == Verdict(Pats[pat], e)
            first == Entry(LevelOf[v], v, e)
            caught == Entry("ERROR", "read_error", e)
<1>1. e # NoFile /\ v \in Verdicts /\ status = "running"
  BY EntriesAssumption, VerdictType DEF CheckEntry
<1>2. /\ Counts(first, "ERROR") <=> LevelOf[v] = "ERROR"
      /\ Counts(first, "WARNING") <=> v = "issues"
      /\ Counts(caught, "ERROR") /\ ~Counts(caught, "WARNING")
      /\ first.file = e /\ caught.file = e
  BY <1>1 DEF Counts, Entry, Verdicts, LevelOf
<1>3. CASE WriteOk(first) /\ Record(v, e) /\ UNCHANGED <<status, exitCode>>
  BY <1>1, <1>2, <1>3, LineL DEF WriteOk, Record
<1>4. CASE /\ logFile' = Append(logFile, caught)
           /\ Record("read_error", e) /\ UNCHANGED <<status, exitCode>>
  <2>1. LevelOf["read_error"] = "ERROR"
    BY FixedMsgs
  <2>. QED
    BY <1>1, <1>2, <1>4, <2>1, LineL DEF Record
<1>5. CASE UNCHANGED logFile /\ status' = "crashed"
  BY <1>5, SilentL DEF Alive
<1>. QED
  BY <1>3, <1>4, <1>5 DEF CheckEntry, Crash

LEMMA InitLInv == Init => LInv
<1> SUFFICES ASSUME Init PROVE LInv
  OBVIOUS
<1>1. \A l \in {"ERROR", "WARNING"} : LinesAt(logFile, l) = {} /\ logFile \in Seq(LogEntries)
  BY DEF Init, LinesAt
<1>. QED
  BY <1>1, TypeInit, NoVerdictLines DEF Init, LInv, LPart, Alive

LEMMA StepLInv == LInv /\ [Next]_vars => LInv'
<1> SUFFICES ASSUME LInv, [Next]_vars PROVE LInv'
  OBVIOUS
<1>1. TypeOK'
  BY TypeStep DEF LInv
<1> SUFFICES LPart'
  BY <1>1 DEF LInv
<1>2. CASE Start
  BY <1>1, <1>2, StartL
<1>3. CASE LogStep
  BY <1>3, PlainL DEF LogStep
<1>4. CASE Summary
  BY <1>4, PlainL DEF Summary
<1>5. CASE EnterDir
  <2>1. CASE MainSteps[step].root \in ExistingRoots
    BY <1>5, <2>1, PlainL DEF EnterDir
  <2>2. CASE MainSteps[step].root \notin ExistingRoots
    BY <1>5, <2>2, PlainL DEF EnterDir
  <2>. QED
    BY <2>1, <2>2
<1>6. CASE \E e \in Entries : CheckEntry(e)
  BY <1>6, CheckEntryL
<1>7. CASE NextPattern \/ LeaveDir \/ Results \/ UNCHANGED vars
  BY <1>7, SilentL DEF NextPattern, LeaveDir, Results, Crash, Alive, vars
<1>. QED
  BY <1>2, <1>3, <1>4, <1>5, <1>6, <1>7 DEF Next, Process

(***************************************************************************)
(* The summary agrees with the log file: while the validator runs and     *)
(* after it exits normally, self.errors and self.warnings (lines 50-122)  *)
(* list exactly the files of the ERROR and WARNING lines of               *)
(* validation.log, in log order, and self.validated_files is the number   *)
(* of lines about a file.  This holds for every tree, yield order and     *)
(* history of failed writes: a failed write inside a try leaves the       *)
(* handler's ERROR line and the "read_error" record together.             *)
(***************************************************************************)
THEOREM ReportLogCorrect == Spec => []ReportMatchesLog
<1>1. Spec => []LInv
  BY InitLInv, StepLInv, PTL DEF Spec
<1>2. LInv /\ (status \in {"running", "exited"} => validated = VerdictLines)
        => ReportMatchesLog
  BY DEF LInv, LPart, Alive, ReportMatchesLog
<1>. QED
  BY <1>1, <1>2, CountMatchesLog, PTL
-----------------------------------------------------------------------------
\* The list of files of level l has one entry per line of level l about a file.
LEMMA FilesLen ==
    ASSUME NEW s \in Seq(LogEntries), NEW l
    PROVE  /\ Len(FilesIn(s, l)) = Cardinality(LinesAt(s, l))
           /\ FilesIn(s, l) = << >> <=> LinesAt(s, l) = {}
<1>1. IsFiniteSet(LinesAt(s, l)) /\ Cardinality(LinesAt(s, l)) \in Nat
  BY LinesFinite
<1>2. Len(FilesIn(s, l)) = Cardinality(LinesAt(s, l))
  BY <1>1 DEF FilesIn
<1>3. Cardinality(LinesAt(s, l)) = 0 <=> LinesAt(s, l) = {}
  BY <1>1, FS_EmptySet
<1>4. FilesIn(s, l) = << >> <=> Cardinality(LinesAt(s, l)) = 0
  BY <1>1 DEF FilesIn
<1>. QED
  BY <1>2, <1>3, <1>4

\* Only the successful write of Results changes the results file.
LEMMA OnlyResultsWrites ==
    ASSUME [Next]_vars, results' # results
    PROVE  /\ status = "running"
           /\ results' = Append(results,
                [validated |-> validated, errors |-> Len(errors),
                 warnings |-> Len(warnings),
                 status |-> IF errors = << >> THEN "PASSED" ELSE "FAILED"])
           /\ exitCode' = IF errors = << >> THEN 0 ELSE 1
           /\ UNCHANGED logFile
<1>1. ~Start /\ ~LogStep /\ ~Summary /\ ~EnterDir /\ ~NextPattern /\ ~LeaveDir
  BY DEF Start, LogStep, Summary, EnterDir, NextPattern, LeaveDir,
         WriteOk, WriteFails
<1>2. ~\E e \in Entries : CheckEntry(e)
  BY DEF CheckEntry, WriteOk, WriteFails
<1>3. ~UNCHANGED vars
  BY DEF vars
<1>. QED
  BY <1>1, <1>2, <1>3 DEF Next, Process, Results

\* A step of a process whose lists agree with its log writes a block that
\* agrees with the log.
LEMMA StepBlock ==
    ASSUME LInv, status \in {"running", "exited"} => validated = VerdictLines,
           [Next]_vars
    PROVE  BlockMatchesLog
<1> SUFFICES ASSUME results' # results
             PROVE  BlockMatchesLog
  BY DEF BlockMatchesLog
<1>. DEFINE blk == [validated |-> validated, errors |-> Len(errors),
                    warnings |-> Len(warnings),
                    status |-> IF errors = << >> THEN "PASSED" ELSE "FAILED"]
<1>1. /\ status = "running"
      /\ results' = Append(results, blk)
      /\ exitCode' = IF errors = << >> THEN 0 ELSE 1
      /\ UNCHANGED logFile
  BY OnlyResultsWrites
<1>2. /\ errors = FilesLoggedAt("ERROR")
      /\ warnings = FilesLoggedAt("WARNING")
      /\ validated = VerdictLines
  BY <1>1 DEF LInv, LPart, Alive
<1>3. logFile \in Seq(LogEntries) /\ results \in Seq(Blocks)
  BY DEF LInv, TypeOK
<1>4. /\ Len(errors) = Cardinality(LinesAt(logFile, "ERROR"))
      /\ Len(warnings) = Cardinality(LinesAt(logFile, "WARNING"))
      /\ errors = << >> <=> LinesAt(logFile, "ERROR") = {}
  BY <1>2, <1>3, FilesLen DEF FilesLoggedAt
<1>5. /\ Len(results') = Len(results) + 1
      /\ results'[Len(results')] = blk
  BY <1>1, <1>3, AppendProperties
<1>. QED
  BY <1>1, <1>2, <1>4, <1>5 DEF BlockMatchesLog

(***************************************************************************)
(* Every block the validator appends to logs/test_results.log (lines      *)
(* 188-196) is appended after the earlier runs' blocks and summarises the *)
(* log file of its own run: the count of verdict lines, the counts of     *)
(* ERROR and WARNING verdict lines, PASSED exactly when there is no ERROR *)
(* line, and an exit status (line 198) that agrees with it.               *)
(***************************************************************************)
THEOREM ResultsBlockCorrect == Spec => ResultsBlockMatchesLog
<1>1. Spec => []LInv
  BY InitLInv, StepLInv, PTL DEF Spec
<1>2. LInv /\ (status \in {"running", "exited"} => validated = VerdictLines)
        /\ [Next]_vars => [BlockMatchesLog]_vars
  BY StepBlock
<1>. QED
  BY <1>1, <1>2, CountMatchesLog, PTL DEF Spec, ResultsBlockMatchesLog
====
