---------------------------- MODULE ScriptCheck ----------------------------
(***************************************************************************)
(* The heuristic WitcherScript checks of validate_witcherscript            *)
(* (src/scripts/validate_files.py, lines 82-113) as operators on a file's  *)
(* text.  A text is a sequence of tokens; a token stands for a run of      *)
(* characters the checks tell apart:                                       *)
(*   NL            the newline content.split('\n') cuts at,                *)
(*   Space         blanks that str.strip() removes,                        *)
(*   "let ", "var " the declaration prefixes (with their blank),           *)
(*   "func ", "function " the two declaration keywords (with their blank), *)
(*   "{", "}", "(", ")", ";" the counted and tested characters,            *)
(*   "if"          the control keyword as a word,                          *)
(*   "diff"        an identifier whose letters contain "if",               *)
(*   "x"           any other run of characters.                            *)
(* No keyword substring spans two tokens, so "does the line contain 'if'" *)
(* is "does one of its tokens contain it".                                 *)
(***************************************************************************)
EXTENDS Naturals, Sequences, FiniteSets

NL == "\n"
Space == " "
DeclPrefixes == {"let ", "var "}
\* The tokens whose text contains one of 'if', 'while', 'for', 'switch'.
KeywordSubstringTokens == {"if", "diff"}
\* The tokens that are one of those keywords as a word.
KeywordTokens == {"if"}

\* content.count(t) for a one-character token t.
Count(c, t) == Cardinality({i \in DOMAIN c : c[i] = t})

\* The positions of the newlines of c, in ascending order.
NewlinePositions(c) ==
    LET IsNL(i) == c[i] = NL
    IN  SelectSeq([i \in 1..Len(c) |-> i], IsNL)

\* content.split('\n'): one more line than there are newlines.
Lines(c) ==
    LET nl == NewlinePositions(c)
        cut == << 0 >> \o nl \o << Len(c) + 1 >>
    IN  [k \in 1..Len(nl) + 1 |-> SubSeq(c, cut[k] + 1, cut[k + 1] - 1)]

(***************************************************************************)
(* line.strip(): drop the blanks at both ends.  A declaration prefix left *)
(* last loses its blank too, which only matters to startswith('let '):    *)
(* Stripped keeps the tokens and DeclLine accounts for that blank.        *)
(***************************************************************************)
Stripped(l) ==
    LET ink == {i \in DOMAIN l : l[i] # Space}
        lo == IF ink = {} THEN 1 ELSE CHOOSE i \in ink : \A j \in ink : i <= j
        hi == IF ink = {} THEN 0 ELSE CHOOSE i \in ink : \A j \in ink : j <= i
    IN  SubSeq(l, lo, hi)

\* line.startswith('let ') or line.startswith('var ') after strip().
DeclLine(l) ==
    LET s == Stripped(l) IN Len(s) >= 2 /\ s[1] \in DeclPrefixes

\* line.endswith(';') or line.endswith('{') after strip().
Terminated(l) ==
    LET s == Stripped(l) IN Len(s) >= 1 /\ s[Len(s)] \in {";", "{"}

\* any(keyword in line for keyword in ['if', 'while', 'for', 'switch']).
HasControlKeyword(l) == \E i \in DOMAIN l : l[i] \in KeywordSubstringTokens

\* The per-line test of lines 103-107.
MissingSemicolon(l) ==
    DeclLine(l) /\ ~Terminated(l) /\ ~HasControlKeyword(l)

\* The 1-based numbers of the flagged lines, ascending (enumerate(lines, 1)).
FlaggedLines(c) ==
    LET ls == Lines(c)
        Flag(i) == MissingSemicolon(ls[i])
    IN  SelectSeq([i \in 1..Len(ls) |-> i], Flag)

(***************************************************************************)
(* The issues list of lines 83-107, in the order the code appends them.   *)
(* An issue is [kind, a, b]: the two counts of an unbalanced pair, or the *)
(* line number of a missing semicolon.                                    *)
(***************************************************************************)
Issue(k, a, b) == [kind |-> k, a |-> a, b |-> b]

Issues(c) ==
    LET fl == FlaggedLines(c)
    IN  (IF Count(c, "{") # Count(c, "}")
           THEN << Issue("braces", Count(c, "{"), Count(c, "}")) >> ELSE << >>)
     \o (IF Count(c, "(") # Count(c, ")")
           THEN << Issue("parens", Count(c, "("), Count(c, ")")) >> ELSE << >>)
     \o (IF (\E i \in DOMAIN c : c[i] = "function ")
            /\ (\E i \in DOMAIN c : c[i] = "func ")
           THEN << Issue("mixed", 0, 0) >> ELSE << >>)
     \o [k \in 1..Len(fl) |-> Issue("semicolon", fl[k], 0)]

\* `if issues:` of line 109: the file is reported with a WARNING.
HasIssues(c) == Issues(c) # << >>
====
