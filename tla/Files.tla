-------------------------------- MODULE Files --------------------------------
(***************************************************************************)
(* file.go: what a file imports, directly and transitively, which imports  *)
(* it does not use, and which files depend on it.  A file is hydrated      *)
(* after what it imports, so that imports have no cycles.  Dependents()    *)
(* keeps its answers in a cache of each file it comes through;             *)
(* UnusedImports() goes through AllMessages(), whose slices callers keep   *)
(* and append to (Lists).                                                  *)
(***************************************************************************)
EXTENDS Lists

CONSTANTS
  MaxFile,   \* files are numbered in the order in which they are hydrated
  FileOf,    \* the file of each holder of Lists
  Graphs,    \* the sets of files there may be: [imports, public, fields, methods]
             \* and two bounds: the files whose dependents are asked for, and the
             \* number of slices that are kept
  Nil        \* a cache that is not made

FileIds == 1..MaxFile

ASSUME FilesAssumption ==
    /\ MaxFile \in Nat
    /\ FileOf \in [Holders -> FileIds]
    \* a file is one holder, and has all that is nested in it
    /\ \A p, q \in Roots : FileOf[p] = FileOf[q] => p = q
    /\ \A p \in Holders : \A m \in ToSet(Own["msgs"][p]) : FileOf[m] = FileOf[p]
    /\ \A m \in Holders \ Roots : \E p \in Holders : m \in ToSet(Own["msgs"][p])
\* The types of fields, by the files that declare what they name: a field that is
\* neither repeated nor a map has a type of its own, the others have one in their
\* element or value.  (A scalar is as a type of the own file; a map's key is one.)
FieldTypes == [what : {"single"}, of : FileIds] \cup [what : {"list", "map"}, el : FileIds]

ASSUME GraphsAssumption ==
    \A g \in Graphs :
       /\ \A f \in FileIds : g.imports[f] \subseteq 1..(f - 1)
       /\ \A f \in FileIds : g.public[f] \subseteq g.imports[f]
       /\ g.fields \in [Holders -> SUBSET FieldTypes]
       /\ g.methods \in [Holders -> SUBSET [in : FileIds, out : FileIds]]
       /\ \A p \in Holders : IF p \in Roots THEN g.fields[p] = {} ELSE g.methods[p] = {}
       /\ g.asked \subseteq FileIds /\ g.kept \in Nat

VARIABLES
  graph,     \* imports and public: sets of files, for each file; the types of the
             \* fields of each message; and the methods of each file's services, by
             \* the files of the messages they take and return
  cache,     \* file.dependentsCache
  unused     \* what UnusedImports() last returned: [file, answer]

vars == <<heap, held, graph, cache, unused>>

-----------------------------------------------------------------------------
Imports(f) == graph.imports[f]

\* file.dependents: hydration adds a file to those it imports.
DirectDependents(f) == {g \in FileIds : f \in Imports(g)}

\* TransitiveImports of each file.
Transitive ==
    LET imports[f \in FileIds] ==
           Imports(f) \cup UNION {imports[g] : g \in Imports(f)}
    IN imports

\* A mistake: what a repeated field or a map repeats is not looked at.
FieldImportsItself(p, t) == IF t.what = "single" THEN {t.of} \ {FileOf[p]} ELSE {}

\* The Imports of the type of a field of p: of an enum or message itself, or those
\* of the element or the value.
FieldImports(p, t) ==
    (IF t.what = "single" THEN {t.of} ELSE {t.el}) \ {FileOf[p]}

\* The Imports of a method: the second file is left out when it is the first.
MethodImports(p, m) ==
    {g \in {m.in} : g # FileOf[p]} \cup {g \in {m.out} : g # FileOf[p] /\ g # m.in}

\* The Imports of message p, from its fields; or of the services of file p, from
\* their methods.
ImportsOf(p) ==
    (UNION {FieldImports(p, t) : t \in graph.fields[p]})
      \cup (UNION {MethodImports(p, m) : m \in graph.methods[p]})

\* The files that UnusedImports finds used: those that all messages and the
\* services of f import.
Used(f, messages) ==
    UNION {ImportsOf(p) : p \in messages \cup {q \in Roots : FileOf[q] = f}}

\* Dependents of f calls Dependents of what depends on it directly, and so on up
\* to where a cache is made; each call makes the cache of its file.
Filled(c, f) ==
    LET called[g \in FileIds] == g = f \/ \E h \in Imports(g) : called[h] /\ c[h] = Nil
        filled[g \in FileIds] ==
          IF ~called[g] \/ c[g] # Nil THEN c[g]
          ELSE DirectDependents(g) \cup UNION {filled[d] : d \in DirectDependents(g)}
    IN filled

-----------------------------------------------------------------------------
Init ==
    /\ graph \in Graphs
    /\ ListsInit
    \* A bound: there is room in arrays only where callers keep slices.
    /\ graph.kept = 0 => \A a \in DOMAIN heap : Unset \notin ToSet(heap[a])
    /\ cache = [f \in FileIds |-> Nil]
    /\ unused = [file |-> Nil, answer |-> {}]

\* A mistake: a cache is made of what the caches of the direct dependents hold.
DependentsAsCached(f) ==
    /\ cache' = [cache EXCEPT ![f] =
          IF @ # Nil THEN @
          ELSE DirectDependents(f)
                 \cup UNION {cache[g] : g \in {d \in DirectDependents(f) : cache[d] # Nil}}]
    /\ UNCHANGED <<heap, held, graph, unused>>

Dependents(f) ==
    /\ cache' = Filled(cache, f)
    /\ UNCHANGED <<heap, held, graph, unused>>

\* AllMessages may write behind the own slices of messages.
UnusedImports(f) ==
    \E room \in 0..MaxRoom : \E root \in Roots :
       LET all == All(heap, root, "msgs", room)
       IN /\ FileOf[root] = f
          /\ heap' = Collect(all.heap, held)
          /\ unused' = [file   |-> f,
                        answer |-> (Imports(f) \ graph.public[f])
                                      \ Used(f, ToSet(Contents(all.heap, all.slice)))]
          /\ UNCHANGED <<held, graph, cache>>

\* Callers keep as many lists as the graph allows.
Lists == /\ ListsNext
         /\ Len(held') <= graph.kept
         /\ UNCHANGED <<graph, cache, unused>>

Next == \/ \E f \in graph.asked : Dependents(f)
        \/ \E f \in FileIds : UnusedImports(f)
        \/ Lists

Spec == Init /\ [][Next]_vars

-----------------------------------------------------------------------------
\* g is in every set that has the imports of f and the imports of its members.
Reaches(f, g) ==
    \A S \in SUBSET FileIds :
       Imports(f) \subseteq S /\ (\A h \in S : Imports(h) \subseteq S) => g \in S

\* file.go:19-21, 27-29: TransitiveImports are the files that chains of imports
\* lead to, and what Dependents has cached, for whichever files and in whichever
\* order it was asked, are the files that such chains come from.
DependentsImport ==
    \A f, g \in FileIds :
       /\ g \in Transitive[f] <=> Reaches(f, g)
       /\ cache[g] # Nil => (f \in cache[g] <=> Reaches(f, g))

\* file.go:23-25: an import is reported as unused when it is not public and no
\* type of it is that of a field, an element or a value in any message, however
\* deep, or is what a method takes or returns.  (One whose types are named through
\* its own public import is reported too, and extensions and options are not
\* looked at.)
UnusedIsUnused ==
    unused.file # Nil =>
       LET inFile == {p \in Holders : FileOf[p] = unused.file}
       IN \A g \in FileIds :
             g \in unused.answer <=>
                /\ g \in Imports(unused.file) \ graph.public[unused.file]
                /\ \A p \in inFile :
                      /\ \A t \in graph.fields[p] :
                            /\ t.what = "single" => t.of # g
                            /\ t.what \in {"list", "map"} => t.el # g
                      /\ \A m \in graph.methods[p] : g # m.in /\ g # m.out
=============================================================================
