--------------------- MODULE CodeValidatorTallyProofs -----------------------
(***************************************************************************)
(* Proofs about the tally of run_validation, for every console: every     *)
(* list entry visited so far has been counted exactly once, as a success, *)
(* an error or a warning, and the messages name exactly the visited paths *)
(* that are absent.  When the report has been printed every entry has     *)
(* been visited, which gives ReportAccountsForEveryCheck; the counts also *)
(* bound success_count, which gives the type invariant.                   *)
(***************************************************************************)
EXTENDS CodeValidatorProofs, FiniteSetTheorems

\* The checks finished so far (see Done).
DoneSet == {c \in Checks : Done(c)}

\* The paths named by a list of messages.
MsgPaths(s) == {s[i].path : i \in DOMAIN s}

(***************************************************************************)
(* The inductive invariant: the type, the loop position in range, a      *)
(* returned run past the last list, and the tally of the finished checks. *)
(***************************************************************************)
TInv ==
    /\ TypeOK
    /\ sec <= Len(Sections) => idx <= Len(Sections[sec].paths) + 1
    /\ status = "done" => sec = Len(Sections) + 1
    /\ successCount + Len(errors) + Len(warnings) = Cardinality(DoneSet)
    /\ MsgPaths(errors) \cup MsgPaths(warnings) = {PathOf(c) : c \in DoneSet} \ present

-----------------------------------------------------------------------------
\* No path list is longer than seven entries.
LEMMA SectionLengths == \A s \in 1..6 : Len(Sections[s].paths) \in 1..7
BY DEF Sections

\* The checks form a finite set.
LEMMA ChecksFinite == IsFiniteSet(Checks)
<1>1. Checks \subseteq (1..6) \X (1..7)
  <2> SUFFICES ASSUME NEW c \in Checks PROVE c \in (1..6) \X (1..7)
    OBVIOUS
  <2>1. c = <<c[1], c[2]>> /\ c[1] \in 1..6 /\ c[2] \in 1..Len(Sections[c[1]].paths)
    BY CheckPair
  <2>2. Len(Sections[c[1]].paths) \in 1..7
    BY <2>1, SectionLengths
  <2>3. \A n \in 1..7 : 1..n \subseteq 1..7
    OBVIOUS
  <2>4. c[2] \in 1..7
    BY <2>1, <2>2, <2>3
  <2>. QED
    BY <2>1, <2>4
<1>2. IsFiniteSet((1..6) \X (1..7))
  <2>1. IsFiniteSet(1..6)
    BY 1 \in Int /\ 6 \in Int, FS_Interval
  <2>2. IsFiniteSet(1..7)
    BY 1 \in Int /\ 7 \in Int, FS_Interval
  <2>. QED
    BY <2>1, <2>2, FS_Product
<1>. QED
  BY <1>1, <1>2, FS_Subset

\* A set of checks is finite and no larger than the set of all checks.
LEMMA CheckSubsetCount ==
    ASSUME NEW D \in SUBSET Checks
    PROVE  /\ IsFiniteSet(D)
           /\ Cardinality(D) \in Nat
           /\ Cardinality(D) <= Cardinality(Checks)
BY ChecksFinite, FS_Subset, FS_CardinalityType

\* A tally of a set of checks bounds the success count by the number of checks.
LEMMA CountBound ==
    ASSUME NEW n \in Nat, NEW e \in Seq(Messages), NEW w \in Seq(Messages),
           NEW D \in SUBSET Checks,
           n + Len(e) + Len(w) = Cardinality(D)
    PROVE  n \in 0..Cardinality(Checks)
<1>1. Len(e) \in Nat /\ Len(w) \in Nat
  BY LenProperties
<1>2. Cardinality(D) \in Nat /\ Cardinality(D) <= Cardinality(Checks)
      /\ Cardinality(Checks) \in Nat
  BY CheckSubsetCount, ChecksFinite, FS_CardinalityType
<1>. QED
  BY <1>1, <1>2

\* Appending a message adds its path to the paths of the list.
LEMMA AppendPaths ==
    ASSUME NEW S, NEW s \in Seq(S), NEW m \in S
    PROVE  MsgPaths(Append(s, m)) = MsgPaths(s) \cup {m.path}
<1>1. /\ DOMAIN Append(s, m) = 1..Len(s) + 1
      /\ DOMAIN s = 1..Len(s)
      /\ Len(s) \in Nat
      /\ \A i \in 1..Len(s) : Append(s, m)[i] = s[i]
      /\ Append(s, m)[Len(s) + 1] = m
  BY AppendProperties, LenProperties
<1>. QED
  BY <1>1 DEF MsgPaths

\* Once past the last list, every check is finished.
LEMMA AllDone ==
    ASSUME sec = Len(Sections) + 1
    PROVE  DoneSet = Checks
BY SectionsShape, CheckPair DEF DoneSet, Done

-----------------------------------------------------------------------------
\* The first state: nothing is finished, nothing is counted.
LEMMA InitTInv == Init => TInv
<1> SUFFICES ASSUME Init PROVE TInv
  OBVIOUS
<1>1. DoneSet = {}
  BY CheckPair DEF Init, DoneSet, Done
<1>2. << >> \in Seq(Messages) /\ Len(<< >>) = 0
  BY EmptySeq
<1>3. Cardinality(Checks) \in Nat
  BY ChecksFinite, FS_CardinalityType
<1>4. MsgPaths(<< >>) = {}
  BY DEF MsgPaths
<1>. QED
  BY <1>1, <1>2, <1>3, <1>4, FS_EmptySet, SectionsShape
  DEF Init, TInv, TypeOK

\* One iteration of a section's loop finishes one more check and counts it
\* once, whether or not the "found" print then ends the process.
LEMMA CheckPathTInv ==
    ASSUME TInv, CheckPath
    PROVE  TInv'
<1> DEFINE S == Sections[sec]
           p == S.paths[idx]
           msg == [section |-> S.name, path |-> p]
           c0 == <<sec, idx>>
<1>1. /\ sec \in 1..6
      /\ idx \in 1..Len(S.paths)
      /\ Len(S.paths) \in 1..7
      /\ S.missing \in {"error", "warning"}
      /\ sec' = sec /\ idx' = idx + 1 /\ present' = present
      /\ status = "running"
  <2>1. sec \in 1..6 /\ idx \in 1..8
    BY SectionsShape DEF TInv, TypeOK, CheckPath
  <2>2. Len(S.paths) \in 1..7 /\ S.missing \in {"error", "warning"}
    BY <2>1, SectionsShape, SectionLengths DEF SectionShape
  <2>3. idx <= Len(S.paths)
    BY DEF CheckPath
  <2>4. sec' = sec /\ idx' = idx + 1 /\ present' = present /\ status = "running"
    BY DEF CheckPath
  <2>. QED
    BY <2>1, <2>2, <2>3, <2>4
<1>2. c0 \in Checks /\ PathOf(c0) = p
  BY <1>1, SectionsShape, ChecksDef DEF PathOf
<1>3. \A c \in Checks : Done(c)' <=> (Done(c) \/ c = c0)
  BY <1>1, CheckPair DEF Done
<1>4. DoneSet' = DoneSet \cup {c0} /\ c0 \notin DoneSet
  BY <1>1, <1>2, <1>3 DEF DoneSet, Done
<1>5. Cardinality(DoneSet') = Cardinality(DoneSet) + 1 /\ DoneSet' \subseteq Checks
  BY <1>2, <1>4, CheckSubsetCount, FS_AddElement DEF DoneSet
<1>6. {PathOf(c) : c \in DoneSet'} \ present' =
        ({PathOf(c) : c \in DoneSet} \ present) \cup ({p} \ present)
  BY <1>1, <1>2, <1>4
<1>7. msg \in Messages
  BY <1>1, <1>2, SectionsShape DEF Messages, AllPaths
<1>8. /\ successCount' \in Nat
      /\ errors' \in Seq(Messages) /\ warnings' \in Seq(Messages)
      /\ successCount' + Len(errors') + Len(warnings') =
           successCount + Len(errors) + Len(warnings) + 1
      /\ MsgPaths(errors') \cup MsgPaths(warnings') =
           MsgPaths(errors) \cup MsgPaths(warnings) \cup ({p} \ present)
  <2>0. successCount \in Nat /\ errors \in Seq(Messages) /\ warnings \in Seq(Messages)
    BY DEF TInv, TypeOK
  <2>1. CASE p \in present
    <3>1. successCount' = successCount + 1 /\ UNCHANGED <<errors, warnings>>
      BY <2>1 DEF CheckPath
    <3>. QED
      BY <2>0, <2>1, <3>1, LenProperties
  <2>2. CASE p \notin present /\ S.missing = "error"
    <3>1. errors' = Append(errors, msg) /\ UNCHANGED <<successCount, warnings>>
      BY <2>2 DEF CheckPath
    <3>2. errors' \in Seq(Messages) /\ Len(errors') = Len(errors) + 1
      BY <2>0, <3>1, <1>7, AppendProperties
    <3>3. MsgPaths(errors') = MsgPaths(errors) \cup {p}
      BY <2>0, <3>1, <1>7, AppendPaths
    <3>. QED
      BY <2>0, <2>2, <3>1, <3>2, <3>3, LenProperties
  <2>3. CASE p \notin present /\ S.missing = "warning"
    <3>1. warnings' = Append(warnings, msg) /\ UNCHANGED <<successCount, errors>>
      BY <2>3 DEF CheckPath
    <3>2. warnings' \in Seq(Messages) /\ Len(warnings') = Len(warnings) + 1
      BY <2>0, <3>1, <1>7, AppendProperties
    <3>3. MsgPaths(warnings') = MsgPaths(warnings) \cup {p}
      BY <2>0, <3>1, <1>7, AppendPaths
    <3>. QED
      BY <2>0, <2>3, <3>1, <3>2, <3>3, LenProperties
  <2>. QED
    BY <1>1, <2>1, <2>2, <2>3
<1>9. status' \in {"running", "crashed"} /\ exitCode' \in {0, 1} /\ sec' = sec
  BY <1>1 DEF CheckPath, PrintCrash, TInv, TypeOK
<1>10. successCount' \in 0..Cardinality(Checks)
  BY <1>5, <1>8, CountBound DEF TInv
<1>11. idx' \in 1..8 /\ idx' <= Len(Sections[sec'].paths) + 1
  <2>0. \A n \in 1..7 : \A k \in 1..n : k + 1 \in 1..8 /\ k + 1 <= n + 1
    OBVIOUS
  <2>1. idx + 1 \in 1..8 /\ idx + 1 <= Len(S.paths) + 1
    BY <1>1, <2>0
  <2>. QED
    BY <1>1, <2>1
<1>. QED
  BY <1>1, <1>5, <1>6, <1>8, <1>9, <1>10, <1>11 DEF TInv, TypeOK

\* Leaving a finished list changes no count and finishes no check.
LEMMA NextSectionTInv ==
    ASSUME TInv, NextSection
    PROVE  TInv'
<1>1. /\ sec \in 1..6 /\ sec' = sec + 1 /\ idx' = 1 /\ status = "running"
      /\ UNCHANGED <<present, status, errors, warnings, successCount, exitCode>>
  BY SectionsShape DEF TInv, TypeOK, NextSection
<1>2. DoneSet' = DoneSet
  <2>1. \A c \in Checks : Done(c)' <=> Done(c)
    BY NextSectionDone, SectionsShape DEF TInv, TypeOK
  <2>. QED
    BY <2>1 DEF DoneSet
<1>3. sec' \in 1..Len(Sections) + 1 /\ idx' \in 1..8
  BY <1>1, SectionsShape
<1>4. sec' <= Len(Sections) => idx' <= Len(Sections[sec'].paths) + 1
  BY <1>1, <1>3, SectionsShape DEF SectionShape
<1>. QED
  BY <1>1, <1>2, <1>3, <1>4 DEF TInv, TypeOK

\* The report changes no count; main() returns only past the last list.
LEMMA ReportTInv ==
    ASSUME TInv, Report
    PROVE  TInv'
<1>1. UNCHANGED <<present, sec, idx, errors, warnings, successCount>>
      /\ sec = Len(Sections) + 1
  BY DEF Report
<1>2. status' \in {"done", "crashed"} /\ exitCode' \in {0, 1}
  BY DEF Report, PrintCrash
<1>3. DoneSet' = DoneSet
  BY <1>1 DEF DoneSet, Done
<1>. QED
  BY <1>1, <1>2, <1>3 DEF TInv, TypeOK

\* A stuttering step keeps the invariant.
LEMMA StutterTInv ==
    ASSUME TInv, UNCHANGED vars
    PROVE  TInv'
<1>1. DoneSet' = DoneSet
  BY DEF vars, DoneSet, Done
<1>. QED
  BY <1>1 DEF vars, TInv, TypeOK

\* The tally invariant is inductive, whatever stdout can encode.
LEMMA StepTInv ==
    ASSUME TInv, [Next]_vars
    PROVE  TInv'
BY CheckPathTInv, NextSectionTInv, ReportTInv, StutterTInv DEF Next

\* The invariant implies the property.
LEMMA TInvAccounts == TInv => ReportAccountsForEveryCheck
<1> SUFFICES ASSUME TInv, status = "done"
             PROVE  /\ successCount + Len(errors) + Len(warnings) = Cardinality(Checks)
                    /\ {errors[i].path : i \in DOMAIN errors}
                         \cup {warnings[i].path : i \in DOMAIN warnings} = AllPaths \ present
  BY DEF ReportAccountsForEveryCheck
<1>1. DoneSet = Checks
  BY AllDone DEF TInv
<1>. QED
  BY <1>1 DEF TInv, MsgPaths, AllPaths

(***************************************************************************)
(* Whatever stdout can encode, once main() has returned every entry of    *)
(* the six lists of run_validation was counted exactly once, as a success, *)
(* an error or a warning, and the messages name exactly the absent paths  *)
(* (a path listed twice, like tests/test_combat_system.cpp, is named by   *)
(* both of its messages).                                                 *)
(***************************************************************************)
THEOREM TallyCorrect == Spec => []ReportAccountsForEveryCheck
<1>1. Init => TInv
  BY InitTInv
<1>2. TInv /\ [Next]_vars => TInv'
  BY StepTInv
<1>3. TInv => ReportAccountsForEveryCheck
  BY TInvAccounts
<1>. QED
  BY <1>1, <1>2, <1>3, PTL DEF Spec

(***************************************************************************)
(* Every reachable state of validate_code.py is well typed; in particular *)
(* the loop position never leaves the lists and success_count never       *)
(* exceeds the number of list entries.                                    *)
(***************************************************************************)
THEOREM TypeCorrect == Spec => []TypeOK
<1>1. TInv => TypeOK
  BY DEF TInv
<1>. QED
  BY InitTInv, StepTInv, <1>1, PTL DEF Spec
====
