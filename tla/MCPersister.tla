----------------------------- MODULE MCPersister -----------------------------
(* Small instances of Persister for TLC.                                   *)
EXTENDS PersisterRefinement

CONSTANTS a, b, refused, noName, noFile, p, q

MCNames == {a, b}
MCRaw == {"a", "./a", "b", "../a"}
MCCleanName == ("a" :> a) @@ ("./a" :> a) @@ ("b" :> b) @@ ("../a" :> refused)
MCPaths == {p, q}
MCNoPaths == {}

\* gofmt-like on Go files, then one on everything but injections.
MCMatches == << {"GeneratorFile", "GeneratorTemplateAppend", "CustomFile"},
                Kinds \ InjectKinds >>

Gen(kinds, names) == [kind : kinds, name : names, overwrite : {FALSE}]

\* Everything that goes into the response.
SpliceArtifacts ==
    Gen({"GeneratorFile", "GeneratorAppend", "GeneratorInjection"}, {"a", "b"})
      \cup [kind : {"GeneratorFile"}, name : {"a", "b"}, overwrite : {TRUE}]

\* All kinds, with and without a template, and every failure, on few names.
AllArtifacts ==
    Gen({"GeneratorFile", "GeneratorTemplateAppend"}, {"a", "b"})
      \cup Gen({"GeneratorAppend"}, {"./a"})
      \cup Gen({"GeneratorTemplateInjection"}, {"../a", "./a"})
      \cup [kind : {"GeneratorTemplateFile"}, name : {"./a"}, overwrite : {TRUE}]
      \cup [kind : {"CustomFile"}, name : {p}, overwrite : BOOLEAN]
      \cup [kind : {"CustomTemplateFile"}, name : {q}, overwrite : {FALSE}]
      \cup [kind : {"GeneratorError", "unrecognized"}]
=============================================================================
