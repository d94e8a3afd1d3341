-------------------------- MODULE MC_ResearchTool ---------------------------
(***************************************************************************)
(* The project tree for ResearchTool.  Two READMEs in different          *)
(* directories share a name; the only note that mentions REDkit is not    *)
(* UTF-8; one C++ file uses two API patterns, one script none.            *)
(***************************************************************************)
EXTENDS ResearchTool

CONSTANTS readme, guideReadme, notes, mpScript, bridgeCpp

TreeDocs == {readme, guideReadme, notes}
TreeDocName == [d \in TreeDocs |-> IF d = notes THEN "NOTES.md" ELSE "README.md"]
\* Only the notes mention REDkit, and they cannot be read.
TreeMentions == {notes}
TreeSources == {mpScript, bridgeCpp}
TreePatternsIn == [f \in TreeSources |->
                     IF f = bridgeCpp THEN {"LoadAsset", "Vector4F"} ELSE {}]
TreeUndecodable == {notes}
TreeWs == {mpScript}
====
