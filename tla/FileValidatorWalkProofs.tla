--------------------- MODULE FileValidatorWalkProofs ------------------------
(***************************************************************************)
(* Proofs about the walk of validate_directory: a run that exits normally *)
(* has checked every match of main()'s globs under every existing root    *)
(* exactly once, and each has a verdict line in the log file, for every   *)
(* tree of files, every order in which rglob yields the matches, and      *)
(* every history of failed writes and restarts.                           *)
(*                                                                         *)
(* The argument: the globs of main() are four (root, glob) slots, no two  *)
(* alike, so the matches of different slots are disjoint.  The matches   *)
(* yielded so far and those the current generator still holds are the    *)
(* matches of the slots before and at the loop position; the two sets are *)
(* disjoint, and self.validated_files counts the first.                   *)
(***************************************************************************)
EXTENDS FileValidatorProofs, FiniteSetTheorems

\* The process is alive or exited normally (not crashed, not before a start).
Alive == status \in {"running", "exited"}

\* The glob j of step k of main() is a walk of an existing root.
Slot(k, j) ==
    /\ MainSteps[k].op = "dir"
    /\ MainSteps[k].root \in ExistingRoots
    /\ j \in DOMAIN MainSteps[k].pats

\* The matches of glob j of step k.
SlotMatches(k, j) == Matching(MainSteps[k].root, MainSteps[k].pats[j])

\* The matches of the slots main() has reached at step s, glob q: the
\* earlier steps, and step s's globs up to q.
CoveredAt(s, q) ==
    {e \in Entries :
        \E k \in 1..7, j \in 1..2 :
            /\ Slot(k, j)
            /\ e \in SlotMatches(k, j)
            /\ k < s \/ (k = s /\ j <= q)}

Covered == CoveredAt(step, pat)

(***************************************************************************)
(* The invariant of a live walk: the generator of the current glob holds  *)
(* only its matches; the matches yielded so far and those still pending   *)
(* are disjoint and make up the reached slots; the counter counts the     *)
(* yielded ones, and each of them has a verdict line in the log file.     *)
(***************************************************************************)
WalkInv ==
    /\ pat >= 1 => /\ Op = "dir"
                   /\ MainSteps[step].root \in ExistingRoots
                   /\ pat <= Len(Pats)
                   /\ pending \subseteq Matching(MainSteps[step].root, Pats[pat])
    /\ pat = 0 => pending = {}
    /\ status = "exited" => Op = "results"
    /\ visited \cap pending = {}
    /\ visited \cup pending = Covered
    /\ validated = Cardinality(visited)
    /\ \A e \in visited : \E i \in DOMAIN logFile : logFile[i].file = e

\* The inductive invariant: the type, and the walk invariant while alive.
WInv == TypeOK /\ (Alive => WalkInv)

-----------------------------------------------------------------------------
\* The statements of main(), one by one.
LEMMA MainStepsTable ==
    /\ MainSteps[1].op = "log" /\ MainSteps[4].op = "log"
    /\ MainSteps[6].op = "summary" /\ MainSteps[7].op = "results"
    /\ MainSteps[2] = [op |-> "dir", root |-> "mod/config", pats |-> <<"*.json", "*.xml">>]
    /\ MainSteps[3] = [op |-> "dir", root |-> "config", pats |-> <<"*.json">>]
    /\ MainSteps[5] = [op |-> "dir", root |-> "mod/scripts", pats |-> <<"*.ws">>]
BY DEF MainSteps

\* The walked steps are 2, 3 and 5.
LEMMA DirSteps ==
    ASSUME NEW k \in 1..7, MainSteps[k].op = "dir"
    PROVE  k \in {2, 3, 5}
BY MainStepsTable

\* No two slots of main() walk the same glob under the same root.
LEMMA SlotsDistinct ==
    ASSUME NEW k \in 1..7, NEW j \in 1..2, NEW k2 \in 1..7, NEW j2 \in 1..2,
           Slot(k, j), Slot(k2, j2),
           MainSteps[k].root = MainSteps[k2].root,
           MainSteps[k].pats[j] = MainSteps[k2].pats[j2]
    PROVE  k = k2 /\ j = j2
<1>1. k \in {2, 3, 5} /\ k2 \in {2, 3, 5}
  BY DirSteps DEF Slot
<1>2. j \in DOMAIN MainSteps[k].pats /\ j2 \in DOMAIN MainSteps[k2].pats
  BY DEF Slot
<1>. QED
  BY <1>1, <1>2, MainStepsTable

\* A match belongs to one slot only.
LEMMA SlotUnique ==
    ASSUME NEW k \in 1..7, NEW j \in 1..2, NEW k2 \in 1..7, NEW j2 \in 1..2,
           Slot(k, j), Slot(k2, j2),
           NEW e, e \in SlotMatches(k, j), e \in SlotMatches(k2, j2)
    PROVE  k = k2 /\ j = j2
<1>1. MainSteps[k].root = MainSteps[k2].root
      /\ MainSteps[k].pats[j] = MainSteps[k2].pats[j2]
  BY DEF SlotMatches, Matching
<1>. QED
  BY <1>1, SlotsDistinct

\* Passing a step with no walk of an existing root reaches no new match.
LEMMA CoveredSkip ==
    ASSUME NEW s \in 1..6, \A j \in 1..2 : ~Slot(s, j)
    PROVE  CoveredAt(s + 1, 0) = CoveredAt(s, 0)
BY DEF CoveredAt

\* Leaving a walked step after its last glob reaches no new match.
LEMMA CoveredLeave ==
    ASSUME NEW s \in 1..6, NEW q \in Nat, MainSteps[s].pats \in Seq(Patterns),
           q = Len(MainSteps[s].pats)
    PROVE  CoveredAt(s + 1, 0) = CoveredAt(s, q)
<1>1. DOMAIN MainSteps[s].pats = 1..q
  BY LenProperties
<1>. QED
  BY <1>1 DEF CoveredAt, Slot

\* The next glob of a walk adds its matches, none of them reached before.
LEMMA CoveredNextGlob ==
    ASSUME NEW s \in 1..7, NEW q \in 0..1, Slot(s, q + 1)
    PROVE  /\ CoveredAt(s, q + 1) = CoveredAt(s, q) \cup SlotMatches(s, q + 1)
           /\ CoveredAt(s, q) \cap SlotMatches(s, q + 1) = {}
<1>1. SlotMatches(s, q + 1) \subseteq Entries
  BY DEF SlotMatches, Matching
<1>2. CoveredAt(s, q + 1) = CoveredAt(s, q) \cup SlotMatches(s, q + 1)
  BY <1>1 DEF CoveredAt
<1>3. ASSUME NEW e \in CoveredAt(s, q), e \in SlotMatches(s, q + 1) PROVE FALSE
  <2>1. PICK k \in 1..7, j \in 1..2 :
            Slot(k, j) /\ e \in SlotMatches(k, j) /\ (k < s \/ (k = s /\ j <= q))
    BY <1>3 DEF CoveredAt
  <2>2. k = s /\ j = q + 1
    BY <1>3, <2>1, SlotUnique
  <2>. QED
    BY <2>1, <2>2
<1>. QED
  BY <1>2, <1>3

\* At the results step every slot has been reached: the matches are the
\* ones EveryMatchChecked expects.
LEMMA CoveredAtEnd == CoveredAt(7, 0) = Expected
<1>1. DOMAIN MainSteps = 1..7
  BY DEF MainSteps
<1>2. \A k \in 1..7 : DOMAIN MainSteps[k].pats \subseteq 1..2
  <2> SUFFICES ASSUME NEW k \in 1..7 PROVE DOMAIN MainSteps[k].pats \subseteq 1..2
    OBVIOUS
  <2>1. MainSteps[k].pats \in Seq(Patterns) /\ Len(MainSteps[k].pats) <= 2
    BY MainStepsShape
  <2>. QED
    BY <2>1, LenProperties
<1>3. \A j \in 1..2 : ~Slot(7, j)
  BY MainStepsTable DEF Slot
<1>4. ASSUME NEW e \in CoveredAt(7, 0) PROVE e \in Expected
  <2>1. PICK k \in 1..7, j \in 1..2 : Slot(k, j) /\ e \in SlotMatches(k, j)
    BY <1>4 DEF CoveredAt
  <2>. QED
    BY <1>1, <2>1 DEF Expected, Slot, SlotMatches
<1>5. ASSUME NEW e \in Expected PROVE e \in CoveredAt(7, 0)
  <2>1. PICK k \in 1..7 : /\ MainSteps[k].op = "dir"
                          /\ MainSteps[k].root \in ExistingRoots
                          /\ \E j \in DOMAIN MainSteps[k].pats :
                                e \in Matching(MainSteps[k].root, MainSteps[k].pats[j])
    BY <1>1 DEF Expected
  <2>2. PICK j \in DOMAIN MainSteps[k].pats :
            e \in Matching(MainSteps[k].root, MainSteps[k].pats[j])
    BY <2>1
  <2>3. j \in 1..2 /\ Slot(k, j) /\ k # 7
    BY <1>2, <1>3, <2>1, <2>2 DEF Slot
  <2>. QED
    BY <2>2, <2>3 DEF CoveredAt, SlotMatches, Matching
<1>. QED
  BY <1>4, <1>5

\* Appending a line to the log keeps a verdict line for every file that had
\* one, and gives one to the file of the new line.
LEMMA LogKeepsLines ==
    ASSUME NEW s \in Seq(LogEntries), NEW en, NEW V,
           \A e \in V : \E i \in DOMAIN s : s[i].file = e
    PROVE  \A e \in V \cup {en.file} :
               \E i \in DOMAIN Append(s, en) : Append(s, en)[i].file = e
<1>1. /\ Len(s) \in Nat /\ DOMAIN s = 1..Len(s)
      /\ DOMAIN Append(s, en) = 1..Len(s) + 1
      /\ \A i \in 1..Len(s) : Append(s, en)[i] = s[i]
      /\ Append(s, en)[Len(s) + 1] = en
  BY LenProperties
<1>. QED
  BY <1>1

-----------------------------------------------------------------------------
\* What a running process's state gives the step proofs.
LEMMA RunningFacts ==
    ASSUME WInv, status = "running"
    PROVE  /\ step \in 1..7 /\ pat \in 0..2
           /\ Pats \in Seq(Patterns) /\ Len(Pats) <= 2
           /\ Op = "dir" => Len(Pats) >= 1
           /\ Op # "results" => step <= 6
           /\ Op # "dir" => pat = 0
           /\ IsFiniteSet(visited) /\ visited \subseteq Entries
           /\ logFile \in Seq(LogEntries)
           /\ WalkInv
<1>1. step \in 1..7 /\ pat \in 0..2 /\ visited \subseteq Entries
      /\ logFile \in Seq(LogEntries)
  BY MainStepsShape DEF WInv, TypeOK
<1>2. Pats \in Seq(Patterns) /\ Len(Pats) <= 2 /\ (Op = "dir" => Len(Pats) >= 1)
      /\ (Op # "results" => step < 7)
  BY <1>1, MainStepsShape DEF Pats, Op
<1>3. IsFiniteSet(visited)
  BY <1>1, EntriesAssumption, FS_Subset
<1>4. WalkInv
  BY DEF WInv, Alive
<1>5. Op # "dir" => pat = 0
  BY <1>1, <1>4 DEF WalkInv
<1>. QED
  BY <1>1, <1>2, <1>3, <1>4, <1>5

\* A started process has walked nothing yet.
LEMMA StartWalk ==
    ASSUME WInv, Start, Alive'
    PROVE  WalkInv'
<1>1. /\ status' = "running" /\ step' = 1 /\ pat' = 0
      /\ pending' = {} /\ visited' = {} /\ validated' = 0
  BY DEF Start, Crash, Alive
<1>2. CoveredAt(1, 0) = {}
  BY DEF CoveredAt
<1>. QED
  BY <1>1, <1>2, FS_EmptySet DEF WalkInv, Covered

\* A step of main() that walks no existing root (a log line, the summary,
\* the call on a missing root) moves past its slots, which hold no match.
LEMMA SkipWalk ==
    ASSUME WInv, status = "running", Op # "results", \A j \in 1..2 : ~Slot(step, j),
           pat = 0, step' = step + 1, pat' = 0, status' = "running",
           UNCHANGED <<pending, visited, validated>>,
           \E en : logFile' = Append(logFile, en)
    PROVE  WalkInv'
<1>1. step \in 1..6 /\ WalkInv /\ logFile \in Seq(LogEntries)
  BY RunningFacts
<1>2. Covered' = Covered
  BY <1>1, CoveredSkip DEF Covered
<1>3. \A e \in visited' : \E i \in DOMAIN logFile' : logFile'[i].file = e
  BY <1>1, LogKeepsLines DEF WalkInv
<1>. QED
  BY <1>1, <1>2, <1>3 DEF WalkInv

\* A glob's walk starts: the generator holds the matches of the next slot,
\* none of them yielded before.  Used by EnterDir (q = 0) and NextPattern.
LEMMA GlobWalk ==
    ASSUME WInv, status = "running", Op = "dir",
           MainSteps[step].root \in ExistingRoots,
           pending = {}, pat \in 0..1, pat + 1 <= Len(Pats),
           pat' = pat + 1, pending' = Matching(MainSteps[step].root, Pats[pat + 1]),
           UNCHANGED <<status, step, visited, validated>>,
           \/ logFile' = logFile
           \/ \E en : logFile' = Append(logFile, en)
    PROVE  WalkInv'
<1>1. step \in 1..7 /\ WalkInv /\ logFile \in Seq(LogEntries) /\ Pats \in Seq(Patterns)
  BY RunningFacts
<1>2. Slot(step, pat + 1)
  <2>1. pat + 1 \in DOMAIN Pats
    BY <1>1, LenProperties
  <2>. QED
    BY <2>1 DEF Slot, Op, Pats
<1>3. pending' = SlotMatches(step, pat + 1)
  BY DEF SlotMatches, Pats
<1>4. /\ Covered' = Covered \cup pending'
      /\ Covered \cap pending' = {}
  BY <1>1, <1>2, <1>3, CoveredNextGlob DEF Covered
<1>5. visited = Covered
  BY <1>1 DEF WalkInv
<1>6. \A e \in visited' : \E i \in DOMAIN logFile' : logFile'[i].file = e
  <2>1. \A x \in visited : \E i \in DOMAIN logFile : logFile[i].file = x
    BY <1>1 DEF WalkInv
  <2>2. CASE logFile' = logFile
    BY <2>1, <2>2
  <2>3. CASE \E en : logFile' = Append(logFile, en)
    <3>1. PICK en : logFile' = Append(logFile, en)
      BY <2>3
    <3>2. \A x \in visited \cup {en.file} :
              \E i \in DOMAIN Append(logFile, en) : Append(logFile, en)[i].file = x
      <4>1. logFile \in Seq(LogEntries)
        BY <1>1
      <4>2. /\ Len(logFile) \in Nat /\ DOMAIN logFile = 1..Len(logFile)
            /\ DOMAIN Append(logFile, en) = 1..Len(logFile) + 1
            /\ \A i \in 1..Len(logFile) : Append(logFile, en)[i] = logFile[i]
            /\ Append(logFile, en)[Len(logFile) + 1] = en
        BY <4>1, LenProperties
      <4>. QED
        BY <4>2, <2>1
    <3>. QED
      BY <3>1, <3>2
  <2>. QED
    BY <2>2, <2>3
<1>7. pat' >= 1 => /\ Op' = "dir"
                   /\ MainSteps[step'].root \in ExistingRoots
                   /\ pat' <= Len(Pats')
                   /\ pending' \subseteq Matching(MainSteps[step'].root, Pats'[pat'])
  BY DEF Op, Pats
<1>. QED
  BY <1>1, <1>4, <1>5, <1>6, <1>7 DEF WalkInv

\* One match is yielded and checked: it moves from the generator to the
\* yielded ones, the counter counts it, and its verdict line is logged.
LEMMA CheckWalk ==
    ASSUME WInv, status = "running", pat >= 1, NEW e \in pending,
           pending' = pending \ {e}, visited' = visited \cup {e},
           validated' = validated + 1,
           UNCHANGED <<step, pat>>, status' = "running",
           \E en : en.file = e /\ logFile' = Append(logFile, en)
    PROVE  WalkInv'
<1>1. WalkInv /\ IsFiniteSet(visited) /\ logFile \in Seq(LogEntries)
  BY RunningFacts
<1>2. e \notin visited
  BY <1>1 DEF WalkInv
<1>3. Cardinality(visited') = Cardinality(visited) + 1
  BY <1>1, <1>2, FS_AddElement
<1>4. Covered' = Covered
  BY DEF Covered
<1>5. \A x \in visited' : \E i \in DOMAIN logFile' : logFile'[i].file = x
  <2>1. PICK en : en.file = e /\ logFile' = Append(logFile, en)
    OBVIOUS
  <2>2. \A x \in visited : \E i \in DOMAIN logFile : logFile[i].file = x
    BY <1>1 DEF WalkInv
  <2>3. \A x \in visited \cup {en.file} :
            \E i \in DOMAIN Append(logFile, en) : Append(logFile, en)[i].file = x
    BY <1>1, <2>2, LogKeepsLines
  <2>. QED
    BY <2>1, <2>3
<1>. QED
  BY <1>1, <1>3, <1>4, <1>5 DEF WalkInv, Op, Pats

\* The last glob of a walk is exhausted: main() moves on, with every slot
\* of the step reached.
LEMMA LeaveWalk ==
    ASSUME WInv, status = "running", Op = "dir", pat >= 1, pending = {},
           pat = Len(Pats), pat' = 0, step' = step + 1,
           UNCHANGED <<status, pending, visited, validated, logFile>>
    PROVE  WalkInv'
<1>1. step \in 1..6 /\ WalkInv /\ Pats \in Seq(Patterns) /\ pat \in Nat
  BY RunningFacts
<1>2. Covered' = Covered
  BY <1>1, CoveredLeave DEF Covered, Pats
<1>. QED
  BY <1>1, <1>2 DEF WalkInv

\* A failed write of main() ends the process: it is no longer alive.
LEMMA FailsNotAlive ==
    ASSUME NEW en, WriteFails(en) PROVE ~Alive'
BY DEF WriteFails, Crash, Alive

\* A phase line of main() that is written moves past a step with no slot.
LEMMA LogStepWalk ==
    ASSUME WInv, LogStep, Alive' PROVE WalkInv'
<1>1. WriteOk(Entry("INFO", "phase", NoFile)) /\ step' = step + 1
      /\ UNCHANGED <<status, pat, pending, visited, validated>>
  BY FailsNotAlive DEF LogStep
<1>2. pat = 0 /\ \A j \in 1..2 : ~Slot(step, j)
  BY RunningFacts DEF LogStep, Slot, Op
<1>. QED
  BY <1>1, <1>2, SkipWalk DEF LogStep, WriteOk

\* The summary line, once written, moves past a step with no slot.
LEMMA SummaryWalk ==
    ASSUME WInv, Summary, Alive' PROVE WalkInv'
<1>1. WriteOk(Entry("INFO", SummaryMsg, NoFile)) /\ step' = step + 1
      /\ UNCHANGED <<status, pat, pending, visited, validated>>
  BY FailsNotAlive DEF Summary
<1>2. pat = 0 /\ \A j \in 1..2 : ~Slot(step, j)
  BY RunningFacts DEF Summary, Slot, Op
<1>. QED
  BY <1>1, <1>2, SkipWalk DEF Summary, WriteOk

\* validate_directory's entry: the walk of an existing root begins with its
\* first glob; a missing root is logged and passed over.
LEMMA EnterDirWalk ==
    ASSUME WInv, EnterDir, Alive' PROVE WalkInv'
<1>. DEFINE root == MainSteps[step].root
            en == IF root \in ExistingRoots THEN Entry("INFO", "scanning", NoFile)
                  ELSE Entry("ERROR", "dir_missing", NoFile)
<1>1. /\ WriteOk(en)
      /\ IF root \in ExistingRoots
           THEN /\ pat' = 1
                /\ pending' = Matching(root, Pats[1])
                /\ UNCHANGED step
           ELSE /\ step' = step + 1
                /\ UNCHANGED <<pat, pending>>
      /\ UNCHANGED <<status, visited, validated>>
  BY FailsNotAlive DEF EnterDir
<1>2. /\ status = "running" /\ Op = "dir" /\ pat = 0
      /\ Len(Pats) >= 1 /\ pending = {}
  BY RunningFacts DEF EnterDir, WalkInv
<1>3. logFile' = Append(logFile, en)
  BY <1>1 DEF WriteOk
<1>4. CASE root \in ExistingRoots
  BY <1>1, <1>2, <1>3, <1>4, GlobWalk
<1>5. CASE root \notin ExistingRoots
  <2>1. \A j \in 1..2 : ~Slot(step, j)
    BY <1>5 DEF Slot
  <2>. QED
    BY <1>1, <1>2, <1>3, <1>5, <2>1, SkipWalk
<1>. QED
  BY <1>4, <1>5

\* One match checked without an uncaught exception: its verdict line, or
\* the "Error reading file" line of the checker's handler, names it.
LEMMA CheckEntryWalk ==
    ASSUME WInv, NEW e \in Entries, CheckEntry(e), Alive' PROVE WalkInv'
<1>. DEFINE v == Verdict(Pats[pat], e)
            first == Entry(LevelOf[v], v, e)
            caught == Entry("ERROR", "read_error", e)
<1>1. \/ WriteOk(first) /\ UNCHANGED status
      \/ logFile' = Append(logFile, caught) /\ UNCHANGED status
  BY DEF CheckEntry, Crash, Alive
<1>2. \E en : en.file = e /\ logFile' = Append(logFile, en)
  <2>1. first.file = e /\ caught.file = e
    BY DEF Entry
  <2>. QED
    BY <1>1, <2>1 DEF WriteOk
<1>3. status = "running" /\ status' = "running"
  BY <1>1 DEF CheckEntry
<1>. QED
  BY <1>2, <1>3, CheckWalk DEF CheckEntry

\* The next glob of the same root: its generator starts.
LEMMA NextPatternWalk ==
    ASSUME WInv, NextPattern PROVE WalkInv'
<1>1. /\ status = "running" /\ pat \in 1..2 /\ pat < Len(Pats)
      /\ MainSteps[step].root \in ExistingRoots
  BY RunningFacts DEF NextPattern, WalkInv
<1>2. pat \in 0..1 /\ pat + 1 <= Len(Pats)
  BY <1>1, RunningFacts
<1>. QED
  BY <1>1, <1>2, GlobWalk DEF NextPattern

\* validate_directory returns after its last glob.
LEMMA LeaveDirWalk ==
    ASSUME WInv, LeaveDir PROVE WalkInv'
BY LeaveWalk DEF LeaveDir

\* The results block is written and the process exits: nothing of the
\* walk changes, and main() stands at its last statement.
LEMMA ResultsWalk ==
    ASSUME WInv, Results, Alive' PROVE WalkInv'
<1>1. status' = "exited"
      /\ UNCHANGED <<step, pat, pending, visited, validated, logFile>>
  BY DEF Results, Crash, Alive
<1>2. WalkInv /\ Op = "results"
  BY RunningFacts DEF Results
<1>. QED
  BY <1>1, <1>2 DEF WalkInv, Covered, Op, Pats

\* A stuttering step keeps the walk invariant.
LEMMA StutterWalk ==
    ASSUME WInv, UNCHANGED vars, Alive' PROVE WalkInv'
<1>1. WalkInv
  BY DEF WInv, Alive, vars
<1>. QED
  BY <1>1 DEF vars, WalkInv, Covered, Op, Pats

\* The walk invariant is inductive.
LEMMA InitWInv == Init => WInv
BY TypeInit DEF Init, WInv, Alive

LEMMA StepWInv == WInv /\ [Next]_vars => WInv'
<1> SUFFICES ASSUME WInv, [Next]_vars PROVE WInv'
  OBVIOUS
<1>1. TypeOK'
  BY TypeStep DEF WInv
<1> SUFFICES ASSUME Alive' PROVE WalkInv'
  BY <1>1 DEF WInv
<1>2. CASE Start
  BY <1>2, StartWalk
<1>3. CASE LogStep
  BY <1>3, LogStepWalk
<1>4. CASE EnterDir
  BY <1>4, EnterDirWalk
<1>5. CASE \E e \in Entries : CheckEntry(e)
  BY <1>5, CheckEntryWalk
<1>6. CASE NextPattern
  BY <1>6, NextPatternWalk
<1>7. CASE LeaveDir
  BY <1>7, LeaveDirWalk
<1>8. CASE Summary
  BY <1>8, SummaryWalk
<1>9. CASE Results
  BY <1>9, ResultsWalk
<1>10. CASE UNCHANGED vars
  BY <1>10, StutterWalk
<1>. QED
  BY <1>2, <1>3, <1>4, <1>5, <1>6, <1>7, <1>8, <1>9, <1>10 DEF Next, Process

\* At a normal exit main() stands at its last statement with no generator
\* open, so the matches yielded are those of every slot: all of Expected.
LEMMA WInvChecked == WInv => EveryMatchChecked
<1> SUFFICES ASSUME WInv, status = "exited"
             PROVE  /\ validated = Cardinality(Expected)
                    /\ \A e \in Expected : \E i \in DOMAIN logFile : logFile[i].file = e
  BY DEF EveryMatchChecked
<1>1. WalkInv /\ Op = "results" /\ step \in 1..7 /\ pat \in 0..2
  BY MainStepsShape DEF WInv, Alive, WalkInv, TypeOK
<1>2. step = 7
  BY <1>1, MainStepsTable DEF Op
<1>3. pat = 0 /\ pending = {}
  BY <1>1 DEF WalkInv
<1>4. visited = Expected
  BY <1>1, <1>2, <1>3, CoveredAtEnd DEF WalkInv, Covered
<1>. QED
  BY <1>1, <1>4 DEF WalkInv

(***************************************************************************)
(* Every run of the validator that exits normally has checked every match *)
(* of main()'s globs (lines 175-186) under every existing root exactly    *)
(* once: self.validated_files equals the number of matches, and each has  *)
(* a line in the log file, whatever the tree, the order rglob yields the  *)
(* matches in, and the failed writes and restarts before.                 *)
(***************************************************************************)
THEOREM WalkComplete == Spec => []EveryMatchChecked
<1>1. WInv => EveryMatchChecked
  BY WInvChecked
<1>. QED
  BY InitWInv, StepWInv, <1>1, PTL DEF Spec

-----------------------------------------------------------------------------
(***************************************************************************)
(* The count of ReportMatchesLog: self.validated_files is the number of   *)
(* verdict lines in the log file.  (That self.errors and self.warnings    *)
(* list the files of the ERROR and WARNING lines in log order is stated   *)
(* with SelectSeq, whose recursive definition is beyond the provers; TLC *)
(* checks that part.)                                                     *)
(***************************************************************************)
\* The positions of the verdict lines of a log.
VerdictPositions(s) == {i \in DOMAIN s : s[i].file # NoFile}

\* One more line adds one verdict line when it is about a file.
LEMMA VerdictLinesAppend ==
    ASSUME NEW s \in Seq(LogEntries), NEW en
    PROVE  Cardinality(VerdictPositions(Append(s, en))) =
             Cardinality(VerdictPositions(s)) + (IF en.file # NoFile THEN 1 ELSE 0)
<1>1. /\ Len(s) \in Nat /\ DOMAIN s = 1..Len(s)
      /\ DOMAIN Append(s, en) = 1..Len(s) + 1
      /\ \A i \in 1..Len(s) : Append(s, en)[i] = s[i]
      /\ Append(s, en)[Len(s) + 1] = en
  BY LenProperties
<1>2. VerdictPositions(Append(s, en)) =
        IF en.file # NoFile THEN VerdictPositions(s) \cup {Len(s) + 1}
        ELSE VerdictPositions(s)
  BY <1>1 DEF VerdictPositions
<1>3. IsFiniteSet(VerdictPositions(s)) /\ Len(s) + 1 \notin VerdictPositions(s)
  <2>1. IsFiniteSet(1..Len(s))
    BY <1>1, FS_Interval
  <2>. QED
    BY <1>1, <2>1, FS_Subset DEF VerdictPositions
<1>4. Cardinality(VerdictPositions(s)) \in Nat
      /\ Cardinality(VerdictPositions(s) \cup {Len(s) + 1}) =
           Cardinality(VerdictPositions(s)) + 1
  BY <1>3, FS_AddElement, FS_CardinalityType
<1>. QED
  BY <1>2, <1>4

\* The counting invariant; it is inductive as it stands with the type.
CInv == TypeOK /\ (Alive => validated = Cardinality(VerdictPositions(logFile)))

\* The counting part of CInv.
CountPart == Alive => validated = Cardinality(VerdictPositions(logFile))

\* A written line of a running process, counted when it is about a file.
LEMMA LineStep ==
    ASSUME CInv, status = "running", status' = "running", NEW en,
           logFile' = Append(logFile, en),
           validated' = validated + (IF en.file # NoFile THEN 1 ELSE 0)
    PROVE  CountPart'
BY VerdictLinesAppend DEF CInv, CountPart, Alive, TypeOK

\* A step that writes no line and leaves the counter and liveness alone.
LEMMA SilentStep ==
    ASSUME CInv, Alive' => Alive, UNCHANGED <<logFile, validated>>
    PROVE  CountPart'
BY DEF CInv, CountPart

LEMMA StepCInv == CInv /\ [Next]_vars => CInv'
<1> SUFFICES ASSUME CInv, [Next]_vars PROVE CInv'
  OBVIOUS
<1>1. TypeOK'
  BY TypeStep DEF CInv
<1> SUFFICES ASSUME Alive' PROVE CountPart'
  BY <1>1 DEF CInv, CountPart
<1>0. \A x \in Entries : x # NoFile
  BY EntriesAssumption
<1>2. CASE Start
  <2>1. status' = "running" /\ validated' = 0
        /\ logFile' = << Entry("INFO", "header", NoFile) >>
    BY <1>2 DEF Start, Crash, Alive
  <2>2. VerdictPositions(<< Entry("INFO", "header", NoFile) >>) = {}
    BY DEF VerdictPositions, Entry
  <2>. QED
    BY <2>1, <2>2, FS_EmptySet DEF CountPart
<1>3. CASE LogStep \/ Summary
  <2>1. status = "running" /\ status' = "running" /\ UNCHANGED validated
        /\ \E en \in {Entry("INFO", "phase", NoFile), Entry("INFO", SummaryMsg, NoFile)} :
               logFile' = Append(logFile, en)
    BY <1>3, FailsNotAlive DEF LogStep, Summary, WriteOk
  <2>2. PICK en \in {Entry("INFO", "phase", NoFile), Entry("INFO", SummaryMsg, NoFile)} :
               logFile' = Append(logFile, en)
    BY <2>1
  <2>3. en.file = NoFile
    BY DEF Entry
  <2>4. validated' = validated + (IF en.file # NoFile THEN 1 ELSE 0)
    BY <2>1, <2>3 DEF CInv, TypeOK
  <2>. QED
    BY <2>1, <2>2, <2>4, LineStep
<1>4. CASE EnterDir
  <2>1. status = "running" /\ status' = "running" /\ UNCHANGED validated
        /\ \E en \in {Entry("INFO", "scanning", NoFile), Entry("ERROR", "dir_missing", NoFile)} :
               logFile' = Append(logFile, en)
    BY <1>4, FailsNotAlive DEF EnterDir, WriteOk
  <2>2. PICK en \in {Entry("INFO", "scanning", NoFile), Entry("ERROR", "dir_missing", NoFile)} :
               logFile' = Append(logFile, en)
    BY <2>1
  <2>3. en.file = NoFile
    BY DEF Entry
  <2>4. validated' = validated + (IF en.file # NoFile THEN 1 ELSE 0)
    BY <2>1, <2>3 DEF CInv, TypeOK
  <2>. QED
    BY <2>1, <2>2, <2>4, LineStep
<1>5. CASE \E e \in Entries : CheckEntry(e)
  <2>1. PICK e \in Entries : CheckEntry(e)
    BY <1>5
  <2>2. status = "running" /\ status' = "running" /\ validated' = validated + 1
        /\ \E en \in {Entry(l, m, e) : l \in {"INFO", "WARNING", "ERROR"}, m \in Msgs} :
               logFile' = Append(logFile, en)
    BY <2>1 DEF CheckEntry, WriteOk, Crash, Alive, LevelOf, Verdict, Verdicts,
                JsonVerdict, XmlVerdict, ScriptVerdict, Msgs
  <2>. QED
    BY <1>0, <2>2, LineStep DEF Entry
<1>6. CASE NextPattern \/ LeaveDir
  BY <1>6, SilentStep DEF NextPattern, LeaveDir, Alive
<1>7. CASE Results
  <2>1. status = "running" /\ UNCHANGED <<logFile, validated>>
    BY <1>7 DEF Results
  <2>. QED
    BY <2>1, SilentStep DEF Alive
<1>8. CASE UNCHANGED vars
  BY <1>8, SilentStep DEF vars, Alive
<1>. QED
  BY <1>2, <1>3, <1>4, <1>5, <1>6, <1>7, <1>8 DEF Next, Process

(***************************************************************************)
(* While the validator runs and after it exits normally, the count it     *)
(* reports (self.validated_files, lines 135 and 146) equals the number of *)
(* lines about a file in validation.log: a failed write that the checker *)
(* catches still leaves its "Error reading file" line, and one it does   *)
(* not catch ends the process.                                            *)
(***************************************************************************)
THEOREM CountMatchesLog ==
    Spec => [](status \in {"running", "exited"} => validated = VerdictLines)
<1>1. Init => CInv
  <2>1. VerdictPositions(<< >>) = {}
    BY DEF VerdictPositions
  <2>. QED
    BY TypeInit, <2>1, FS_EmptySet DEF Init, CInv, Alive
<1>2. CInv => (status \in {"running", "exited"} => validated = VerdictLines)
  BY DEF CInv, Alive, VerdictLines, VerdictPositions
<1>. QED
  BY <1>1, <1>2, StepCInv, PTL DEF Spec
====
