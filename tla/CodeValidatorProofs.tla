------------------------ MODULE CodeValidatorProofs ------------------------
(***************************************************************************)
(* Proofs about CodeValidator: on a console that encodes every symbol the *)
(* script prints, the exit status of main() says whether every required   *)
(* path exists.  The argument needs nothing of the path lists but their   *)
(* shape: section by section, the checks already made split into those     *)
(* before the loop position and those after it, and self.errors is empty  *)
(* exactly when no check made so far found a required path missing.      *)
(***************************************************************************)
EXTENDS CodeValidator, SequenceTheorems, TLAPS

\* The checks of the lists that run_validation has finished so far.
Done(c) == c[1] < sec \/ (c[1] = sec /\ c[2] < idx)

\* A finished check of an error list found its path missing.
MissedRequired == \E c \in Checks : Done(c) /\ Sections[c[1]].missing = "error"
                                            /\ PathOf(c) \notin present

(***************************************************************************)
(* The inductive invariant: the loop position is in range, self.errors is *)
(* empty exactly when no finished check missed a required path, and a run *)
(* that returned has finished every list with the matching exit status.   *)
(***************************************************************************)
IInv ==
    /\ status \in {"running", "done"}
    /\ sec \in 1..Len(Sections) + 1
    /\ idx \in Nat \ {0}
    /\ sec <= Len(Sections) => idx <= Len(Sections[sec].paths) + 1
    /\ errors \in Seq(Messages)
    /\ (errors = << >> <=> ~MissedRequired)
    /\ status = "done" => /\ sec = Len(Sections) + 1
                          /\ (exitCode = 0 <=> errors = << >>)

-----------------------------------------------------------------------------
\* One section record has the shape the argument uses.
SectionShape(s) ==
    /\ Sections[s].missing \in {"error", "warning"}
    /\ Len(Sections[s].paths) \in Nat
    /\ DOMAIN Sections[s].paths = 1..Len(Sections[s].paths)

\* The six path lists are sections of that shape.
LEMMA SectionsShape ==
    /\ DOMAIN Sections = 1..6
    /\ Len(Sections) = 6
    /\ \A s \in 1..6 : SectionShape(s)
<1>0. DOMAIN Sections = 1..6 /\ Len(Sections) = 6
  BY DEF Sections
<1>1. SectionShape(1)
  BY DEF SectionShape, Sections
<1>2. SectionShape(2)
  BY DEF SectionShape, Sections
<1>3. SectionShape(3)
  BY DEF SectionShape, Sections
<1>4. SectionShape(4)
  BY DEF SectionShape, Sections
<1>5. SectionShape(5)
  BY DEF SectionShape, Sections
<1>6. SectionShape(6)
  BY DEF SectionShape, Sections
<1>. QED
  BY <1>0, <1>1, <1>2, <1>3, <1>4, <1>5, <1>6

\* What membership of Checks means.
LEMMA ChecksDef ==
    ASSUME NEW c
    PROVE  c \in Checks <=>
             \E s \in 1..6 : \E i \in 1..Len(Sections[s].paths) : c = <<s, i>>
<1>1. c \in Checks <=>
        \E s \in DOMAIN Sections : \E i \in DOMAIN Sections[s].paths : c = <<s, i>>
  BY DEF Checks
<1>2. \A s \in DOMAIN Sections : s \in 1..6 /\ DOMAIN Sections[s].paths = 1..Len(Sections[s].paths)
  BY SectionsShape DEF SectionShape
<1>3. DOMAIN Sections = 1..6
  BY SectionsShape
<1>. QED
  BY <1>1, <1>2, <1>3

\* A check is a pair of a section and a position in its list.
LEMMA CheckPair ==
    ASSUME NEW c \in Checks
    PROVE  /\ c = <<c[1], c[2]>>
           /\ c[1] \in 1..6
           /\ c[2] \in 1..Len(Sections[c[1]].paths)
BY ChecksDef

-----------------------------------------------------------------------------
\* The first state: no list is finished and self.errors is empty.
LEMMA InitIInv == Init => IInv
<1> SUFFICES ASSUME Init PROVE IInv
  OBVIOUS
<1>1. ~MissedRequired
  BY CheckPair DEF Init, MissedRequired, Done
<1>2. << >> \in Seq(Messages)
  BY EmptySeq
<1>. QED
  BY <1>1, <1>2, SectionsShape DEF Init, IInv

\* One iteration of a section's loop keeps the invariant.
LEMMA CheckPathIInv ==
    ASSUME UnicodeConsole = TRUE, IInv, CheckPath
    PROVE  IInv'
<1> DEFINE S == Sections[sec]
           p == S.paths[idx]
           miss == S.missing = "error" /\ p \notin present
<1>1. /\ sec \in 1..6
      /\ idx \in 1..Len(S.paths)
      /\ sec' = sec /\ idx' = idx + 1 /\ present' = present
      /\ status' = status
  BY SectionsShape DEF IInv, CheckPath
<1>2. <<sec, idx>> \in Checks /\ PathOf(<<sec, idx>>) = p
  BY <1>1, SectionsShape, ChecksDef DEF PathOf
<1>3. \A c \in Checks : Done(c)' <=> (Done(c) \/ c = <<sec, idx>>)
  BY <1>1, CheckPair DEF Done
<1>4. MissedRequired' <=> (MissedRequired \/ miss)
  BY <1>1, <1>2, <1>3 DEF MissedRequired
<1>5. [section |-> S.name, path |-> p] \in Messages
  BY <1>1, <1>2, SectionsShape DEF Messages, AllPaths
<1>6. errors' \in Seq(Messages) /\ (errors' = << >> <=> errors = << >> /\ ~miss)
  <2>1. CASE miss
    <3>1. errors' = Append(errors, [section |-> S.name, path |-> p])
      BY <2>1 DEF CheckPath
    <3>2. errors' \in Seq(Messages) /\ Len(errors') = Len(errors) + 1
      BY <3>1, <1>5, AppendProperties DEF IInv
    <3>3. errors' # << >> /\ Len(errors) \in Nat
      BY <3>2, EmptySeq, LenProperties DEF IInv
    <3>. QED
      BY <3>2, <3>3, <2>1
  <2>2. CASE ~miss
    <3>1. errors' = errors
      BY <2>2 DEF CheckPath
    <3>. QED
      BY <3>1, <2>2 DEF IInv
  <2>. QED
    BY <2>1, <2>2
<1>. QED
  BY <1>1, <1>4, <1>6, SectionsShape DEF IInv

\* Leaving a finished list finishes no check and unfinishes none.
LEMMA NextSectionDone ==
    ASSUME sec \in 1..Len(Sections) + 1, idx \in Nat,
           sec <= Len(Sections) => idx <= Len(Sections[sec].paths) + 1,
           NextSection
    PROVE  \A c \in Checks : Done(c)' <=> Done(c)
<1>1. /\ sec \in 1..6
      /\ idx > Len(Sections[sec].paths)
      /\ sec' = sec + 1 /\ idx' = 1
  BY SectionsShape DEF NextSection
<1> SUFFICES ASSUME NEW c \in Checks PROVE Done(c)' <=> Done(c)
  OBVIOUS
<1>2. c[1] \in 1..6 /\ c[2] \in 1..Len(Sections[c[1]].paths)
  BY CheckPair
<1>3. Done(c)' <=> (c[1] < sec + 1 \/ (c[1] = sec + 1 /\ c[2] < 1))
  BY <1>1 DEF Done
<1>4. Len(Sections[sec].paths) \in Nat
  BY <1>1, SectionsShape DEF SectionShape
<1>5. c[1] = sec => c[2] < idx
  BY <1>1, <1>2, <1>4
<1>6. sec \in Int /\ c[1] \in Int
  BY <1>1, <1>2
<1>. QED
  BY <1>2, <1>3, <1>5, <1>6 DEF Done

\* Leaving a finished list keeps the invariant.
LEMMA NextSectionIInv ==
    ASSUME IInv, NextSection
    PROVE  IInv'
<1>1. UNCHANGED <<present, status, errors, exitCode>> /\ sec' = sec + 1 /\ idx' = 1
      /\ sec \in 1..6
  BY SectionsShape DEF IInv, NextSection
<1>2. \A c \in Checks : Done(c)' <=> Done(c)
  BY NextSectionDone DEF IInv
<1>3. MissedRequired' <=> MissedRequired
  BY <1>1, <1>2 DEF MissedRequired
<1>. QED
  BY <1>1, <1>3, SectionsShape DEF IInv

\* The report and the return of main() keep the invariant.
LEMMA ReportIInv ==
    ASSUME UnicodeConsole = TRUE, IInv, Report
    PROVE  IInv'
<1>1. /\ status' = "done"
      /\ exitCode' = IF errors = << >> THEN 0 ELSE 1
      /\ sec = Len(Sections) + 1
      /\ UNCHANGED <<present, sec, idx, errors>>
  BY DEF Report
<1>2. MissedRequired' <=> MissedRequired
  BY <1>1 DEF MissedRequired, Done
<1>. QED
  BY <1>1, <1>2 DEF IInv

\* A stuttering step keeps the invariant.
LEMMA StutterIInv ==
    ASSUME IInv, UNCHANGED vars
    PROVE  IInv'
<1>1. MissedRequired' <=> MissedRequired
  BY DEF vars, MissedRequired, Done
<1>. QED
  BY <1>1 DEF vars, IInv

\* The invariant is inductive on a console that encodes every symbol.
LEMMA StepIInv ==
    ASSUME UnicodeConsole = TRUE, IInv, [Next]_vars
    PROVE  IInv'
BY CheckPathIInv, NextSectionIInv, ReportIInv, StutterIInv DEF Next

\* Once every list is finished, a required path was missed exactly when
\* one is absent.
LEMMA FinishedMissed ==
    ASSUME IInv, sec = Len(Sections) + 1
    PROVE  MissedRequired <=> ~(RequiredPaths \subseteq present)
<1>1. \A c \in Checks : Done(c)
  BY SectionsShape, CheckPair DEF Done
<1>. QED
  BY <1>1 DEF MissedRequired, RequiredPaths

\* The invariant implies the property.
LEMMA IInvExitCode == IInv => ExitCodeMatchesRequired
<1> SUFFICES ASSUME IInv, status \in {"done", "crashed"}
             PROVE  exitCode = 0 <=> RequiredPaths \subseteq present
  BY DEF ExitCodeMatchesRequired
<1>1. status = "done" /\ sec = Len(Sections) + 1 /\ (exitCode = 0 <=> errors = << >>)
  BY DEF IInv
<1>. QED
  BY <1>1, FinishedMissed DEF IInv

(***************************************************************************)
(* On a console that encodes the symbols the script prints (the setting of *)
(* run cv_main), the exit status of validate_code.py is 0 exactly when    *)
(* every path of the structure, combat and integration lists exists, for  *)
(* every project tree.                                                    *)
(***************************************************************************)
THEOREM ExitCodeCorrect ==
    UnicodeConsole = TRUE => (Spec => []ExitCodeMatchesRequired)
<1> SUFFICES ASSUME UnicodeConsole = TRUE PROVE Spec => []ExitCodeMatchesRequired
  OBVIOUS
<1>1. Init => IInv
  BY InitIInv
<1>2. IInv /\ [Next]_vars => IInv'
  BY StepIInv
<1>3. IInv => ExitCodeMatchesRequired
  BY IInvExitCode
<1>. QED
  BY <1>1, <1>2, <1>3, PTL DEF Spec

-----------------------------------------------------------------------------
\* Every step of the detailed run is a verdict step of ProjectCheck or
\* leaves present, status and exitCode alone.
LEMMA StepRefines ==
    ASSUME UnicodeConsole = TRUE, IInv, [Next]_vars
    PROVE  [PC!Decide]_PC!vars
<1>1. CASE CheckPath
  BY <1>1 DEF CheckPath, PrintCrash, PC!vars
<1>2. CASE NextSection
  BY <1>2 DEF NextSection, PC!vars
<1>3. CASE Report
  <2>1. /\ status = "running" /\ status' = "done"
        /\ exitCode' = IF errors = << >> THEN 0 ELSE 1
        /\ sec = Len(Sections) + 1
        /\ UNCHANGED present
    BY <1>3 DEF Report
  <2>2. errors = << >> <=> RequiredPaths \subseteq present
    BY <2>1, FinishedMissed DEF IInv
  <2>. QED
    BY <2>1, <2>2 DEF PC!Decide, PC!vars
<1>4. CASE UNCHANGED vars
  BY <1>4 DEF vars, PC!vars
<1>. QED
  BY <1>1, <1>2, <1>3, <1>4 DEF Next

(***************************************************************************)
(* Refinement: on a console that encodes the printed symbols,             *)
(* run_validation and main() implement the one-step check of module       *)
(* ProjectCheck (its safety part SafeSpec):                                *)
(* the first state is a first state of the check, and every step of the   *)
(* six loops and of the report is a verdict step or a stutter.            *)
(***************************************************************************)
THEOREM Refinement ==
    UnicodeConsole = TRUE => (Spec => PC!SafeSpec)
<1> SUFFICES ASSUME UnicodeConsole = TRUE PROVE Spec => PC!SafeSpec
  OBVIOUS
<1>1. Spec => []IInv
  BY InitIInv, StepIInv, PTL DEF Spec
<1>2. Init => PC!Init
  BY DEF Init, PC!Init
<1>3. IInv /\ [Next]_vars => [PC!Decide]_PC!vars
  BY StepRefines
<1>. QED
  BY <1>1, <1>2, <1>3, PTL DEF Spec, PC!SafeSpec
====
