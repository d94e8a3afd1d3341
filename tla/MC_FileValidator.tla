------------------------- MODULE MC_FileValidator --------------------------
(***************************************************************************)
(* Trees of files for TLC.  A tree is a set of records, one per path, with *)
(* the root it lies below, the glob its name matches, its kind, and the    *)
(* class of its content and, for a .ws file, its text, which module       *)
(* ScriptCheck turns into the verdict of the heuristics.                   *)
(***************************************************************************)
EXTENDS FileValidator

SC == INSTANCE ScriptCheck

\* Script texts for the .ws files, as ScriptCheck tokens.
CleanScript == << "func ", "x", "(", ")", "{", SC!NL, "let ", "x", ";", SC!NL, "}" >>
UnbalancedScript == << "func ", "x", "(", SC!NL, "let ", "x", "{" >>

F(path, root, glob, kind, content, script) ==
    [path |-> path, root |-> root, glob |-> glob, kind |-> kind,
     content |-> content, script |-> script]

\* Every checker verdict occurs once: valid and malformed JSON, non-UTF-8
\* XML, an unreadable JSON file, a flagged and a clean script, and a file
\* that matches no glob of its root.
TreeMain ==
    { F("mod/config/a.json", "mod/config", "*.json", "file", "wellformed", << >>),
      F("mod/config/b.json", "mod/config", "*.json", "file", "malformed", << >>),
      F("mod/config/c.xml", "mod/config", "*.xml", "file", "undecodable", << >>),
      F("config/d.json", "config", "*.json", "file", "unreadable", << >>),
      F("mod/scripts/e.ws", "mod/scripts", "*.ws", "file", "wellformed", UnbalancedScript),
      F("mod/scripts/f.ws", "mod/scripts", "*.ws", "file", "wellformed", CleanScript),
      F("mod/scripts/notes.txt", "mod/scripts", "none", "file", "wellformed", << >>) }

\* Only well-formed files, and all roots present.
TreeClean ==
    { F("mod/config/a.json", "mod/config", "*.json", "file", "wellformed", << >>),
      F("mod/config/c.xml", "mod/config", "*.xml", "file", "wellformed", << >>),
      F("mod/scripts/f.ws", "mod/scripts", "*.ws", "file", "wellformed", CleanScript) }

\* A directory whose name ends in .json below mod/config.
TreeDirEntry ==
    { F("mod/config/a.json", "mod/config", "*.json", "file", "wellformed", << >>),
      F("mod/config/old.json", "mod/config", "*.json", "dir", "wellformed", << >>),
      F("mod/scripts/f.ws", "mod/scripts", "*.ws", "file", "wellformed", CleanScript) }

\* The tree of TreeMain in a checkout without the top-level config/.
TreeNoConfig == {t \in TreeMain : t.root # "config"}

Paths(T) == {t.path : t \in T}
Field(T, fld) == [e \in Paths(T) |-> (CHOOSE t \in T : t.path = e)[fld]]

MainEntries == Paths(TreeMain)
MainRootOf == Field(TreeMain, "root")
MainPatternOf == Field(TreeMain, "glob")
MainKindOf == Field(TreeMain, "kind")
MainContentOf == Field(TreeMain, "content")
MainScriptIssues ==
    [e \in MainEntries |-> SC!HasIssues(Field(TreeMain, "script")[e])]

CleanEntries == Paths(TreeClean)
CleanRootOf == Field(TreeClean, "root")
CleanPatternOf == Field(TreeClean, "glob")
CleanKindOf == Field(TreeClean, "kind")
CleanContentOf == Field(TreeClean, "content")
CleanScriptIssues ==
    [e \in CleanEntries |-> SC!HasIssues(Field(TreeClean, "script")[e])]

DirEntries == Paths(TreeDirEntry)
DirRootOf == Field(TreeDirEntry, "root")
DirPatternOf == Field(TreeDirEntry, "glob")
DirKindOf == Field(TreeDirEntry, "kind")
DirContentOf == Field(TreeDirEntry, "content")
DirScriptIssues ==
    [e \in DirEntries |-> SC!HasIssues(Field(TreeDirEntry, "script")[e])]

NoConfigEntries == Paths(TreeNoConfig)
NoConfigRootOf == Field(TreeNoConfig, "root")
NoConfigPatternOf == Field(TreeNoConfig, "glob")
NoConfigKindOf == Field(TreeNoConfig, "kind")
NoConfigContentOf == Field(TreeNoConfig, "content")
NoConfigScriptIssues ==
    [e \in NoConfigEntries |-> SC!HasIssues(Field(TreeNoConfig, "script")[e])]

AllRoots == Roots
\* The checkout has no top-level config/ directory.
RootsWithoutConfig == {"mod/config", "mod/scripts"}
====
