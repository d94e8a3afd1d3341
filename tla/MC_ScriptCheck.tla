-------------------------- MODULE MC_ScriptCheck ---------------------------
(***************************************************************************)
(* Every short script text over a few tokens, checked by the heuristics of *)
(* module ScriptCheck.  The text is fixed in the initial state: the       *)
(* checker reads a file once and never changes it.                        *)
(***************************************************************************)
EXTENDS ScriptCheck

CONSTANTS Tokens, MaxTokens

VARIABLE text

SE == INSTANCE SequencesExt

\* Token set for the run: declarations with identifiers that do or do not
\* contain a keyword, over several lines.
KeywordTestTokens == {"let ", "diff", "x", NL, ";"}

Init == text \in SE!BoundedSeq(Tokens, MaxTokens)
Next == UNCHANGED text
Spec == Init /\ [][Next]_text

(***************************************************************************)
(* Spec section 4.3, check 4, and section 8: a declaration line that ends *)
(* with neither ';' nor '{' and holds none of the control-flow keywords   *)
(* if, while, for, switch is reported with its line number.  The code     *)
(* tests the keywords as substrings, so an identifier like `diff` hides  *)
(* the line.                                                              *)
(***************************************************************************)
UnterminatedDeclarationReported ==
    LET ls == Lines(text)
        reported == {Issues(text)[k].a : k \in {k \in DOMAIN Issues(text) :
                                                 Issues(text)[k].kind = "semicolon"}}
    IN  \A i \in DOMAIN ls :
            (/\ DeclLine(ls[i])
             /\ ~Terminated(ls[i])
             /\ \A j \in DOMAIN ls[i] : ls[i][j] \notin KeywordTokens)
            => i \in reported
====
