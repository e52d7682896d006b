------------------------------ MODULE FilesProofs ------------------------------
(***************************************************************************)
(* Theorems about Files and the lists of its files and messages (Lists),   *)
(* for any files, imports and nesting, and any callers.                    *)
(***************************************************************************)
EXTENDS Files, SequenceLemmas

-----------------------------------------------------------------------------
(* Imports have no cycles.                                                 *)

\* A file imports files that come before it.
LEMMA ImportsAreBefore ==
  ASSUME graph \in Graphs
  PROVE  /\ MaxFile \in Nat
         /\ \A f \in FileIds : Imports(f) \in SUBSET FileIds /\ \A g \in Imports(f) : g < f
<1>1. MaxFile \in Nat /\ \A f \in FileIds : Imports(f) \subseteq 1..(f - 1)
  BY FilesAssumption, GraphsAssumption DEF Imports
<1> QED BY <1>1 DEF FileIds

\* Of some files one imports none of the others, and one is imported by none.
LEMMA FirstAndLast ==
  ASSUME graph \in Graphs, NEW S \in (SUBSET FileIds) \ {{}}
  PROVE  /\ \E f \in S : Imports(f) \cap S = {}
         /\ \E f \in S : DirectDependents(f) \cap S = {}
<1>1. MaxFile \in Nat /\ S \in SUBSET (1..MaxFile) /\ S # {}
  BY ImportsAreBefore DEF FileIds
<1> DEFINE N == {k \in Nat : (\E i \in S : i <= k) => \E m \in S : \A i \in S : m <= i}
<1>2. 0 \in N
  BY <1>1
<1>3. ASSUME NEW k \in Nat, k \in N PROVE k + 1 \in N
  <2>1. CASE \E i \in S : i <= k
    BY <1>3, <2>1
  <2>2. CASE ~\E i \in S : i <= k
    <3>1. \A i \in S : i >= k + 1
      BY <1>1, <2>2
    <3> QED BY <1>1, <3>1
  <2> QED BY <2>1, <2>2
<1>4. MaxFile \in N
  <2> HIDE DEF N
  <2> QED BY <1>1, <1>2, <1>3, NatInduct
<1>5. PICK m \in S : \A i \in S : m <= i
  BY <1>1, <1>4
<1>6. Imports(m) \cap S = {}
  <2>1. \A g \in Imports(m) : g \in FileIds /\ g < m
    BY <1>1, ImportsAreBefore
  <2> QED BY <1>1, <1>5, <2>1 DEF FileIds
<1>7. PICK l \in S : \A i \in S : i <= l
  BY <1>1, MaxPosition
<1>8. DirectDependents(l) \cap S = {}
  <2>1. \A g \in DirectDependents(l) : g \in FileIds /\ l < g
    BY <1>1, ImportsAreBefore DEF DirectDependents
  <2> QED BY <1>1, <1>7, <2>1 DEF FileIds
<1> QED BY <1>5, <1>6, <1>7, <1>8

\* TransitiveImports is what its equation says.
LEMMA TransitiveIs ==
  ASSUME graph \in Graphs
  PROVE  /\ Transitive \in [FileIds -> SUBSET FileIds]
         /\ \A f \in FileIds : Transitive[f] = Imports(f) \cup UNION {Transitive[g] : g \in Imports(f)}
<1> DEFINE X == SUBSET FileIds
           Body(f, h) == Imports(f) \cup UNION {h[g] : g \in Imports(f)}
           needs == [f \in FileIds |-> Imports(f)]
           step  == [f \in FileIds |-> [h \in [FileIds -> X] |-> Body(f, h)]]
           F(h)  == h = [f \in FileIds |-> Body(f, h)]
           chosen == CHOOSE h : F(h)
<1>1. \A f \in FileIds : Imports(f) \in SUBSET FileIds
  BY ImportsAreBefore
<1>2. \A f \in FileIds : \A h \in [FileIds -> X] : Body(f, h) \in X
  BY <1>1
<1>3. ASSUME NEW f \in FileIds, NEW h \in [FileIds -> X], NEW j \in [FileIds -> X],
             \A k \in needs[f] : h[k] = j[k]
      PROVE  step[f][h] = step[f][j]
  <2>1. {h[g] : g \in Imports(f)} = {j[g] : g \in Imports(f)}
    BY <1>3
  <2> QED BY <2>1
<1>4. NoCycle(FileIds, needs)
  <2>1. IsFiniteSet(FileIds)
    BY ImportsAreBefore, FS_Interval DEF FileIds
  <2>2. \A S \in (SUBSET FileIds) \ {{}} : \E d \in S : needs[d] \cap S = {}
    BY FirstAndLast
  <2> QED BY <1>1, <2>1, <2>2 DEF NoCycle
<1>5. MadeOfNeeds(FileIds, needs, X, step)
  <2>1. step \in [FileIds -> [[FileIds -> X] -> X]]
    <3> HIDE DEF Body, X
    <3> QED BY <1>2
  <2> HIDE DEF X, needs, step
  <2> QED BY <2>1, <1>3 DEF MadeOfNeeds
<1>6. Solutions(FileIds, X, step) # {}
  <2>1. X # {}
    OBVIOUS
  <2> HIDE DEF X, needs, step
  <2> QED BY <2>1, <1>4, <1>5, Recursive
<1>7. PICK h \in [FileIds -> X] : F(h)
  <2>1. PICK h \in [FileIds -> X] : \A f \in FileIds : h[f] = step[f][h]
    <3> HIDE DEF X, step
    <3> QED BY <1>6 DEF Solutions
  <2>2. F(h)
    BY <2>1
  <2> QED BY <2>2
<1>8. F(chosen)
  BY <1>7
<1>9. Transitive = chosen
  BY DEF Transitive
<1> HIDE DEF chosen
<1>10. \A f \in FileIds : chosen[f] = Body(f, chosen)
  BY <1>8
<1> DEFINE Bad == {f \in FileIds : chosen[f] \notin X}
<1>11. Bad = {}
  <2> SUFFICES ASSUME Bad # {} PROVE FALSE
    OBVIOUS
  <2>1. PICK f \in Bad : Imports(f) \cap Bad = {}
    BY FirstAndLast
  <2>2. \A g \in Imports(f) : chosen[g] \in X
    BY <1>1, <2>1
  <2>3. Body(f, chosen) \in X
    BY <1>1, <2>2
  <2>4. chosen[f] = Body(f, chosen) /\ chosen[f] \notin X
    BY <1>10, <2>1
  <2> QED BY <2>3, <2>4
<1>12. chosen \in [FileIds -> X]
  <2>1. chosen = [f \in FileIds |-> chosen[f]]
    BY <1>8
  <2> QED BY <1>11, <2>1
<1> QED BY <1>9, <1>10, <1>12

-----------------------------------------------------------------------------
(* Chains of imports.                                                      *)

\* TransitiveImports are the files that chains of imports lead to.
LEMMA TransitiveReaches ==
  ASSUME graph \in Graphs, NEW f \in FileIds, NEW g \in FileIds
  PROVE  g \in Transitive[f] <=> Reaches(f, g)
<1> DEFINE T == Transitive
<1>1. /\ T \in [FileIds -> SUBSET FileIds]
      /\ \A h \in FileIds : T[h] = Imports(h) \cup UNION {T[k] : k \in Imports(h)}
      /\ \A h \in FileIds : Imports(h) \in SUBSET FileIds
  BY TransitiveIs, ImportsAreBefore
<1> HIDE DEF T
<1>2. ASSUME Reaches(f, g) PROVE g \in T[f]
  <2> DEFINE Bad == {h \in FileIds : \E k \in T[h] : ~(Imports(k) \subseteq T[h])}
  <2>1. Bad = {}
    <3> SUFFICES ASSUME Bad # {} PROVE FALSE
      OBVIOUS
    <3>1. PICK h \in Bad : Imports(h) \cap Bad = {}
      BY FirstAndLast
    <3>2. PICK k \in T[h] : ~(Imports(k) \subseteq T[h])
      OBVIOUS
    <3>3. h \in FileIds /\ T[h] = Imports(h) \cup UNION {T[m] : m \in Imports(h)}
      BY <1>1
    <3>4. CASE k \in Imports(h)
      <4>1. k \in FileIds
        BY <1>1, <3>3, <3>4
      <4>2. Imports(k) \subseteq T[k]
        BY <1>1, <4>1
      <4> QED BY <3>2, <3>3, <3>4, <4>2
    <3>5. CASE \E m \in Imports(h) : k \in T[m]
      <4>1. PICK m \in Imports(h) : k \in T[m]
        BY <3>5
      <4>2. m \in FileIds /\ m \notin Bad
        BY <1>1, <3>1, <3>3
      <4>3. Imports(k) \subseteq T[m]
        BY <4>1, <4>2
      <4> QED BY <3>2, <3>3, <4>3
    <3> QED BY <3>2, <3>3, <3>4, <3>5
  <2>2. T[f] \in SUBSET FileIds /\ Imports(f) \subseteq T[f]
    BY <1>1
  <2>3. \A h \in T[f] : Imports(h) \subseteq T[f]
    BY <2>1
  <2> QED BY <1>2, <2>2, <2>3 DEF Reaches
<1>3. ASSUME g \in T[f] PROVE Reaches(f, g)
  <2> SUFFICES ASSUME NEW S \in SUBSET FileIds, Imports(f) \subseteq S,
                      \A h \in S : Imports(h) \subseteq S
               PROVE  g \in S
    BY DEF Reaches
  <2> DEFINE Bad == {h \in FileIds : Imports(h) \subseteq S /\ ~(T[h] \subseteq S)}
  <2>1. Bad = {}
    <3> SUFFICES ASSUME Bad # {} PROVE FALSE
      OBVIOUS
    <3>1. PICK h \in Bad : Imports(h) \cap Bad = {}
      BY FirstAndLast
    <3>2. h \in FileIds /\ Imports(h) \subseteq S /\ T[h] = Imports(h) \cup UNION {T[m] : m \in Imports(h)}
      BY <1>1
    <3>3. \A m \in Imports(h) : T[m] \subseteq S
      BY <1>1, <3>1, <3>2
    <3> QED BY <3>2, <3>3
  <2> QED BY <1>3, <2>1
<1> QED BY <1>2, <1>3 DEF T

\* The files from which chains of imports lead to g.
Sources(g) == {f \in FileIds : Reaches(f, g)}

\* They are those that import it, and those from which chains lead to one of these.
LEMMA SourcesAre ==
  ASSUME graph \in Graphs, NEW g \in FileIds
  PROVE  Sources(g) = DirectDependents(g) \cup UNION {Sources(d) : d \in DirectDependents(g)}
<1>0. \A h \in FileIds : Imports(h) \in SUBSET FileIds
  BY ImportsAreBefore
<1>1. ASSUME NEW f \in DirectDependents(g) PROVE f \in Sources(g)
  BY DEF DirectDependents, Sources, Reaches
<1>2. ASSUME NEW d \in DirectDependents(g), NEW f \in Sources(d) PROVE f \in Sources(g)
  <2> SUFFICES ASSUME NEW S \in SUBSET FileIds, Imports(f) \subseteq S,
                      \A h \in S : Imports(h) \subseteq S
               PROVE  g \in S
    BY DEF Sources, Reaches
  <2>1. d \in S
    BY <1>2 DEF Sources, Reaches
  <2>2. g \in Imports(d)
    BY DEF DirectDependents
  <2> QED BY <2>1, <2>2
<1>3. ASSUME NEW f \in Sources(g), f \notin DirectDependents(g)
      PROVE  \E d \in DirectDependents(g) : f \in Sources(d)
  <2> SUFFICES ASSUME \A d \in DirectDependents(g) : ~Reaches(f, d) PROVE FALSE
    BY <1>3 DEF Sources
  <2> DEFINE S == {h \in FileIds : Reaches(f, h)} \ {g}
  <2>1. f \in FileIds /\ Reaches(f, g) /\ g \notin Imports(f)
    BY <1>3 DEF Sources, DirectDependents
  <2>2. Imports(f) \subseteq S
    BY <1>0, <2>1 DEF Reaches
  <2>3. ASSUME NEW h \in S, NEW k \in Imports(h) PROVE k \in S
    <3>1. h \in FileIds /\ Reaches(f, h)
      OBVIOUS
    <3>2. k \in FileIds /\ Reaches(f, k)
      BY <1>0, <3>1 DEF Reaches
    <3>3. h \notin DirectDependents(g)
      BY <3>1
    <3>4. k # g
      BY <3>1, <3>3 DEF DirectDependents
    <3> QED BY <3>2, <3>4
  <2> QED BY <2>1, <2>2, <2>3 DEF Reaches
<1>4. \A d \in DirectDependents(g) : Sources(d) \subseteq Sources(g)
  BY <1>2
<1> HIDE DEF Sources
<1>5. DirectDependents(g) \subseteq Sources(g)
  BY <1>1
<1>6. Sources(g) \subseteq DirectDependents(g) \cup UNION {Sources(d) : d \in DirectDependents(g)}
  BY <1>3
<1> QED BY <1>4, <1>5, <1>6

-----------------------------------------------------------------------------
(* The caches of Dependents.                                               *)

\* The calls that Dependents of f comes to.
IsCalled(c, f, called) ==
    \A g \in FileIds : called[g] <=> g = f \/ \E h \in Imports(g) : called[h] /\ c[h] = Nil

\* What they leave in the caches.
IsFilled(c, called, filled) ==
    \A g \in FileIds :
       filled[g] = IF ~called[g] \/ c[g] # Nil THEN c[g]
                   ELSE DirectDependents(g) \cup UNION {filled[d] : d \in DirectDependents(g)}

\* Filled is what its two equations say.
LEMMA FilledIs ==
  ASSUME graph \in Graphs, NEW c \in [FileIds -> (SUBSET FileIds) \cup {Nil}], NEW f \in FileIds
  PROVE  \E called : /\ IsCalled(c, f, called) /\ IsFilled(c, called, Filled(c, f))
                     /\ Filled(c, f) = [g \in FileIds |-> Filled(c, f)[g]]
<1>0. IsFiniteSet(FileIds)
  BY ImportsAreBefore, FS_Interval DEF FileIds
<1> DEFINE Call(g, h) == g = f \/ \E k \in Imports(g) : h[k] /\ c[k] = Nil
           C(h) == h = [g \in FileIds |-> Call(g, h)]
           called == CHOOSE h : C(h)
<1>1. C(called)
  <2> DEFINE needs == [g \in FileIds |-> Imports(g)]
             step  == [g \in FileIds |-> [h \in [FileIds -> BOOLEAN] |-> Call(g, h)]]
  <2>1. NoCycle(FileIds, needs)
    <3>1. \A g \in FileIds : Imports(g) \in SUBSET FileIds
      BY ImportsAreBefore
    <3>2. \A S \in (SUBSET FileIds) \ {{}} : \E d \in S : needs[d] \cap S = {}
      BY FirstAndLast
    <3> QED BY <1>0, <3>1, <3>2 DEF NoCycle
  <2>2. MadeOfNeeds(FileIds, needs, BOOLEAN, step)
    <3>1. step \in [FileIds -> [[FileIds -> BOOLEAN] -> BOOLEAN]]
      <4>1. \A g \in FileIds : \A h \in [FileIds -> BOOLEAN] : Call(g, h) \in BOOLEAN
        OBVIOUS
      <4> HIDE DEF Call
      <4> QED BY <4>1
    <3>2. ASSUME NEW g \in FileIds, NEW h \in [FileIds -> BOOLEAN], NEW j \in [FileIds -> BOOLEAN],
                 \A k \in needs[g] : h[k] = j[k]
          PROVE  step[g][h] = step[g][j]
      BY <3>2
    <3> HIDE DEF step, needs
    <3> QED BY <3>1, <3>2 DEF MadeOfNeeds
  <2>3. Solutions(FileIds, BOOLEAN, step) # {}
    <3> HIDE DEF step, needs
    <3> QED BY <2>1, <2>2, Recursive
  <2>4. PICK h \in [FileIds -> BOOLEAN] : \A g \in FileIds : h[g] = step[g][h]
    <3> HIDE DEF step
    <3> QED BY <2>3 DEF Solutions
  <2>5. h = [g \in FileIds |-> h[g]]
    OBVIOUS
  <2>6. \A g \in FileIds : h[g] = Call(g, h)
    BY <2>4
  <2>7. C(h)
    <3> HIDE DEF Call
    <3> QED BY <2>5, <2>6
  <2> HIDE DEF C
  <2> QED BY <2>7
<1>2. IsCalled(c, f, called)
  <2> HIDE DEF called
  <2> QED BY <1>1 DEF IsCalled
<1> DEFINE X == SUBSET (FileIds \cup Nil)
           Fill(g, h) == IF ~called[g] \/ c[g] # Nil THEN c[g]
                         ELSE DirectDependents(g) \cup UNION {h[d] : d \in DirectDependents(g)}
           F(h) == h = [g \in FileIds |-> Fill(g, h)]
           filled == CHOOSE h : F(h)
<1>3. Filled(c, f) = filled
  BY DEF Filled
<1> HIDE DEF called
<1>4. F(filled)
  <2> DEFINE needs == [g \in FileIds |-> DirectDependents(g)]
             step  == [g \in FileIds |-> [h \in [FileIds -> X] |-> Fill(g, h)]]
  <2>0. \A g \in FileIds : DirectDependents(g) \in SUBSET FileIds
    BY DEF DirectDependents
  <2>1. NoCycle(FileIds, needs)
    <3>1. \A S \in (SUBSET FileIds) \ {{}} : \E d \in S : needs[d] \cap S = {}
      BY FirstAndLast
    <3> QED BY <1>0, <2>0, <3>1 DEF NoCycle
  <2>2. MadeOfNeeds(FileIds, needs, X, step)
    <3>1. step \in [FileIds -> [[FileIds -> X] -> X]]
      <4>1. \A g \in FileIds : \A h \in [FileIds -> X] : Fill(g, h) \in X
        <5> SUFFICES ASSUME NEW g \in FileIds, NEW h \in [FileIds -> X] PROVE Fill(g, h) \in X
          OBVIOUS
        <5>1. c[g] \in X
          <6>1. c[g] \in SUBSET FileIds \/ c[g] = Nil
            OBVIOUS
          <6> QED BY <6>1
        <5>2. DirectDependents(g) \cup UNION {h[d] : d \in DirectDependents(g)} \in X
          <6>1. \A d \in DirectDependents(g) : h[d] \in X
            BY <2>0
          <6> QED BY <2>0, <6>1
        <5> QED BY <5>1, <5>2
      <4> HIDE DEF Fill, X
      <4> QED BY <4>1
    <3>2. ASSUME NEW g \in FileIds, NEW h \in [FileIds -> X], NEW j \in [FileIds -> X],
                 \A k \in needs[g] : h[k] = j[k]
          PROVE  step[g][h] = step[g][j]
      <4>1. {h[d] : d \in DirectDependents(g)} = {j[d] : d \in DirectDependents(g)}
        BY <3>2
      <4>2. Fill(g, h) = Fill(g, j)
        BY <4>1
      <4> HIDE DEF Fill, X
      <4> QED BY <4>2
    <3> HIDE DEF step, needs, X
    <3> QED BY <3>1, <3>2 DEF MadeOfNeeds
  <2>3. Solutions(FileIds, X, step) # {}
    <3>1. X # {}
      OBVIOUS
    <3> HIDE DEF step, needs, X
    <3> QED BY <2>1, <2>2, <3>1, Recursive
  <2>4. PICK h \in [FileIds -> X] : \A g \in FileIds : h[g] = step[g][h]
    <3> HIDE DEF step, X
    <3> QED BY <2>3 DEF Solutions
  <2>5. h = [g \in FileIds |-> h[g]]
    OBVIOUS
  <2>6. \A g \in FileIds : h[g] = Fill(g, h)
    <3> HIDE DEF Fill
    <3> QED BY <2>4
  <2>7. F(h)
    <3> HIDE DEF Fill
    <3> QED BY <2>5, <2>6
  <2> HIDE DEF F
  <2> QED BY <2>7
<1>5. IsFilled(c, called, filled) /\ filled = [g \in FileIds |-> filled[g]]
  <2> HIDE DEF filled
  <2> QED BY <1>4 DEF IsFilled
<1> QED BY <1>2, <1>3, <1>5

\* Every cache that is made is right.
CachesRight(c) ==
    /\ c \in [FileIds -> (SUBSET FileIds) \cup {Nil}]
    /\ \A g \in FileIds : c[g] # Nil => c[g] = Sources(g)

\* Dependents makes right caches of right ones.
LEMMA FilledRight ==
  ASSUME graph \in Graphs, NEW c, CachesRight(c), NEW f \in FileIds
  PROVE  CachesRight(Filled(c, f))
<1> DEFINE d == Filled(c, f)
<1>1. PICK called : IsCalled(c, f, called) /\ IsFilled(c, called, d) /\ d = [g \in FileIds |-> d[g]]
  BY FilledIs DEF CachesRight
<1> HIDE DEF d
<1> DEFINE Bad == {g \in FileIds : called[g] /\ c[g] = Nil /\ d[g] # Sources(g)}
<1>2. Bad = {}
  <2> SUFFICES ASSUME Bad # {} PROVE FALSE
    OBVIOUS
  <2>1. PICK g \in Bad : DirectDependents(g) \cap Bad = {}
    BY FirstAndLast
  <2>2. ASSUME NEW e \in DirectDependents(g) PROVE d[e] = Sources(e)
    <3>1. e \in FileIds /\ called[e] /\ e \notin Bad
      <4>1. e \in FileIds /\ g \in Imports(e) /\ called[g] /\ c[g] = Nil
        BY DEF DirectDependents
      <4> QED BY <1>1, <2>1, <4>1 DEF IsCalled
    <3>2. CASE c[e] = Nil
      BY <3>1, <3>2
    <3>3. CASE c[e] # Nil
      BY <1>1, <3>1, <3>3 DEF IsFilled, CachesRight
    <3> QED BY <3>2, <3>3
  <2>3. d[g] = DirectDependents(g) \cup UNION {d[e] : e \in DirectDependents(g)}
    BY <1>1 DEF IsFilled
  <2>4. {d[e] : e \in DirectDependents(g)} = {Sources(e) : e \in DirectDependents(g)}
    BY <2>2
  <2>5. d[g] = Sources(g)
    BY <2>3, <2>4, SourcesAre
  <2> QED BY <2>5
<1>3. \A g \in FileIds : d[g] = c[g] \/ d[g] = Sources(g)
  BY <1>1, <1>2 DEF IsFilled
<1>4. \A g \in FileIds : Sources(g) \in SUBSET FileIds
  BY DEF Sources
<1> HIDE DEF Sources
<1>6. CachesRight(d)
  <2>1. \A g \in FileIds : d[g] \in (SUBSET FileIds) \cup {Nil}
    BY <1>3, <1>4 DEF CachesRight
  <2>2. d \in [FileIds -> (SUBSET FileIds) \cup {Nil}]
    BY <1>1, <2>1
  <2>3. \A g \in FileIds : d[g] # Nil => d[g] = Sources(g)
    BY <1>3 DEF CachesRight
  <2> QED BY <2>2, <2>3 DEF CachesRight
<1> QED BY <1>6 DEF d

CacheInv == graph \in Graphs /\ CachesRight(cache)

\* No step takes a wrong file into a cache, or leaves one out.
LEMMA CacheStep == CacheInv /\ [Next]_vars => CacheInv'
<1> SUFFICES ASSUME CacheInv, [Next]_vars PROVE CacheInv'
  OBVIOUS
<1> USE DEF CacheInv
<1>1. graph' = graph /\ \A g \in FileIds : Sources(g)' = Sources(g)
  <2>1. graph' = graph
    BY DEF Next, Dependents, UnusedImports, Lists, vars
  <2> QED BY <2>1 DEF Sources, Reaches, Imports
<1>2. CASE \E f \in graph.asked : Dependents(f)
  <2>1. PICK f \in graph.asked : cache' = Filled(cache, f)
    BY <1>2 DEF Dependents
  <2>2. f \in FileIds
    BY GraphsAssumption
  <2>3. CachesRight(Filled(cache, f))
    BY <2>2, FilledRight
  <2> HIDE DEF Sources
  <2> QED BY <1>1, <2>1, <2>3 DEF CachesRight
<1>3. CASE UNCHANGED cache
  BY <1>1, <1>3 DEF CachesRight
<1> QED BY <1>2, <1>3 DEF Next, UnusedImports, Lists, vars

\* file.go:19-21, 27-29: for any imports without cycles, TransitiveImports are the
\* files that chains of imports lead to, and what Dependents has cached for any
\* files, asked for in any order and any number of times, are the files that such
\* chains come from.
THEOREM DependentsCorrect == Spec => []DependentsImport
<1>1. Init => CacheInv
  <2> SUFFICES ASSUME Init PROVE CacheInv
    OBVIOUS
  <2>1. graph \in Graphs /\ cache = [f \in FileIds |-> Nil]
    BY DEF Init
  <2> QED BY <2>1 DEF CacheInv, CachesRight
<1>2. CacheInv => DependentsImport
  BY TransitiveReaches DEF CacheInv, CachesRight, Sources, DependentsImport
<1> QED BY <1>1, <1>2, CacheStep, PTL DEF Spec

-----------------------------------------------------------------------------
(* The arrays of Lists.                                                    *)

\* The beginnings of a sequence are those of what it is followed by something in.
LEMMA BeginningOfConcat ==
  ASSUME NEW X, NEW s \in Seq(X), NEW t \in Seq(X), NEW m \in 0..Len(s)
  PROVE  SubSeq(s \o t, 1, m) = SubSeq(s, 1, m)
<1>0. m \in Nat /\ Len(s) \in Nat /\ Len(t) \in Nat /\ m <= Len(s)
  BY LenProperties
<1>1. s \o t \in Seq(X) /\ Len(s \o t) = Len(s) + Len(t)
  BY ConcatProperties
<1>2. \A i \in 1..m : (s \o t)[i] = s[i]
  <2>1. \A i \in 1..m : i \in 1..(Len(s) + Len(t)) /\ i <= Len(s)
    BY <1>0
  <2> QED BY <2>1, ConcatProperties
<1> DEFINE c == s \o t
<1> HIDE DEF c
<1>3. /\ FirstOf(c, m) \in Seq(X) /\ Len(FirstOf(c, m)) = m
      /\ \A j \in 1..m : FirstOf(c, m)[j] = c[j]
  <2>1. c \in Seq(X) /\ m \in 0..Len(c)
    BY <1>0, <1>1 DEF c
  <2> QED BY <2>1, FirstOfIs
<1>4. /\ FirstOf(s, m) \in Seq(X) /\ Len(FirstOf(s, m)) = m
      /\ \A j \in 1..m : FirstOf(s, m)[j] = s[j]
  BY FirstOfIs
<1>5. FirstOf(c, m) = FirstOf(s, m)
  BY <1>2, <1>3, <1>4, SeqEqual DEF c
<1> QED BY <1>5 DEF FirstOf, c

\* w is a sequence of n elements of t, those of e and others: it begins as they do.
BeginsWith(X, w, t, n, e, b) ==
    /\ w \in Seq(X) /\ Len(w) = n + Len(e) + Len(b)
    /\ SubSeq(w, 1, n + Len(e)) = SubSeq(t, 1, n) \o e
    /\ \A m \in 0..n : SubSeq(w, 1, m) = SubSeq(t, 1, m)

\* Something written behind the first n elements, with something behind it.
LEMMA WrittenBehind ==
  ASSUME NEW X, NEW t \in Seq(X), NEW n \in 0..Len(t), NEW e \in Seq(X), NEW b \in Seq(X)
  PROVE  BeginsWith(X, SubSeq(t, 1, n) \o e \o b, t, n, e, b)
<1> SUFFICES ASSUME NEW w, w = SubSeq(t, 1, n) \o e \o b PROVE BeginsWith(X, w, t, n, e, b)
  OBVIOUS
<1> DEFINE a == SubSeq(t, 1, n)
           c == a \o e
<1>0. n \in Nat /\ Len(e) \in Nat /\ Len(b) \in Nat
  BY LenProperties
<1>1. a \in Seq(X) /\ Len(a) = n
  BY FirstOfIs DEF FirstOf
<1>2. \A m \in 0..n : SubSeq(a, 1, m) = SubSeq(t, 1, m)
  BY BeginningTwice
<1> HIDE DEF a
<1>3. c \in Seq(X) /\ Len(c) = n + Len(e)
  BY <1>1, ConcatProperties
<1>4. \A m \in 0..n : SubSeq(c, 1, m) = SubSeq(a, 1, m)
  BY <1>1, BeginningOfConcat
<1>5. w = c \o b
  BY DEF a, c
<1> HIDE DEF c
<1>6. w \in Seq(X) /\ Len(w) = n + Len(e) + Len(b)
  BY <1>3, <1>5, ConcatProperties
<1>7. SubSeq(w, 1, n + Len(e)) = c
  <2> DEFINE k == Len(c)
  <2>1. k \in 0..Len(c) /\ n + Len(e) = k
    BY <1>0, <1>3
  <2> HIDE DEF k
  <2>2. SubSeq(w, 1, k) = SubSeq(c, 1, k)
    BY <1>3, <1>5, <2>1, BeginningOfConcat
  <2>3. SubSeq(c, 1, k) = c
    BY <1>3, SubSeqFull DEF k
  <2> QED BY <2>1, <2>2, <2>3
<1>8. ASSUME NEW m \in 0..n PROVE SubSeq(w, 1, m) = SubSeq(t, 1, m)
  <2>1. m \in 0..Len(c)
    BY <1>0, <1>3
  <2>2. SubSeq(w, 1, m) = SubSeq(c, 1, m)
    BY <1>3, <1>5, <2>1, BeginningOfConcat
  <2> QED BY <1>2, <1>4, <2>2
<1> QED BY <1>6, <1>7, <1>8 DEF a, c, BeginsWith

\* The arrays that entities hold, and those that appends may make.
OwnNames == Sorts \X Holders
NewNames == {"new"} \X Nat

\* What the holder of an array holds in it.
OwnList(k) == Own[k[1]][k[2]]

\* What there may be in arrays.
Elements == Holders \cup Enums \cup {Extra[i] : i \in 1..MaxHeld} \cup {Unset}

\* In the arrays of entities is what the entities hold, and behind it is room only in
\* those of messages.
IsHeap(h) ==
    /\ OwnNames \subseteq DOMAIN h /\ DOMAIN h \subseteq OwnNames \cup NewNames
    /\ IsFiniteSet(DOMAIN h)
    /\ h \in [DOMAIN h -> Seq(Elements)]
    /\ \A k \in OwnNames :
          /\ Len(OwnList(k)) <= Len(h[k])
          /\ SubSeq(h[k], 1, Len(OwnList(k))) = OwnList(k)
          /\ k[2] \in Roots => Len(h[k]) = Len(OwnList(k))

\* A slice is of an array, and does not end before what an entity holds in it.
IsSlice(h, s) ==
    /\ s \in [arr : DOMAIN h, len : Nat]
    /\ s.len <= Len(h[s.arr])
    /\ s.arr \in OwnNames => Len(OwnList(s.arr)) <= s.len

\* What holders hold, by the assumptions on the constants.
LEMMA OwnType ==
  /\ \A sort \in Sorts : \A p \in Holders : Own[sort][p] \in Seq(Holders \cup Enums)
  /\ \A p \in Holders : Own["msgs"][p] \in Seq(Holders)
  /\ Holders \cup Enums \subseteq Elements
  /\ \A k \in OwnNames : /\ OwnList(k) \in Seq(Elements) /\ Len(OwnList(k)) \in Nat
                         /\ OwnList(k) = SubSeq(OwnList(k), 1, Len(OwnList(k)))
<1>1. Own["msgs"] \in [Holders -> Seq(Holders)] /\ Own["enums"] \in [Holders -> Seq(Enums)]
  BY OwnAssumption
<1>2. \A p \in Holders : Own["msgs"][p] \in Seq(Holders) /\ Own["enums"][p] \in Seq(Enums)
  BY <1>1
<1>3. \A p \in Holders : Own["msgs"][p] \in Seq(Holders \cup Enums) /\ Own["enums"][p] \in Seq(Holders \cup Enums)
  BY <1>2, SeqMonotonic
<1>4. Holders \cup Enums \subseteq Elements
  BY DEF Elements
<1>5. \A sort \in Sorts : \A p \in Holders : Own[sort][p] \in Seq(Holders \cup Enums)
  BY <1>3 DEF Sorts
<1>6. ASSUME NEW k \in OwnNames
      PROVE  /\ OwnList(k) \in Seq(Elements) /\ Len(OwnList(k)) \in Nat
             /\ OwnList(k) = SubSeq(OwnList(k), 1, Len(OwnList(k)))
  <2>1. OwnList(k) \in Seq(Holders \cup Enums)
    BY <1>5 DEF OwnNames, OwnList
  <2> HIDE DEF OwnList
  <2>2. OwnList(k) \in Seq(Elements)
    BY <1>4, <2>1, SeqMonotonic
  <2> QED BY <2>2, SubSeqFull, LenProperties
<1> QED BY <1>2, <1>4, <1>5, <1>6

\* There is always a name for a new array.
LEMMA FreshIsNew ==
  ASSUME NEW h, IsFiniteSet(DOMAIN h)
  PROVE  Fresh(h) \in NewNames /\ Fresh(h) \notin DOMAIN h
<1> DEFINE n == Cardinality(DOMAIN h)
           S == 1..(n + 1)
           name == [k \in S |-> <<"new", k>>]
<1>1. n \in Nat
  BY FS_CardinalityType
<1>2. \E k \in S : <<"new", k>> \notin DOMAIN h
  <2> SUFFICES ASSUME \A k \in S : <<"new", k>> \in DOMAIN h PROVE FALSE
    OBVIOUS
  <2>1. IsFiniteSet(S) /\ Cardinality(S) > Cardinality(DOMAIN h)
    <3>1. IsFiniteSet(S) /\ Cardinality(S) = n + 1
      <4>1. 1 \in Int /\ n + 1 \in Int /\ ~(1 > n + 1) /\ (n + 1) - 1 + 1 = n + 1
        BY <1>1
      <4> HIDE DEF n
      <4> QED BY <4>1, FS_Interval
    <3> QED BY <1>1, <3>1
  <2>2. name \in [S -> DOMAIN h]
    OBVIOUS
  <2> HIDE DEF S, name
  <2>3. \E x, y \in S : x # y /\ name[x] = name[y]
    BY <2>1, <2>2, FS_PigeonHole
  <2> QED BY <2>3 DEF name
<1>3. PICK k \in S : Fresh(h) = <<"new", k>> /\ <<"new", k>> \notin DOMAIN h
  <2> DEFINE c == CHOOSE k \in S : <<"new", k>> \notin DOMAIN h
  <2>1. c \in S /\ <<"new", c>> \notin DOMAIN h
    BY <1>2
  <2>2. Fresh(h) = <<"new", c>>
    BY DEF Fresh
  <2> HIDE DEF c, S
  <2> QED BY <2>1, <2>2
<1>4. k \in Nat
  BY <1>1
<1> QED BY <1>3, <1>4 DEF NewNames

\* What an append makes of a heap and a slice: the slice is longer, and no other
\* array changes.
IsAppended(h, s, e, r) ==
    /\ r = [heap |-> r.heap, slice |-> r.slice]
    /\ IsHeap(r.heap) /\ IsSlice(r.heap, r.slice)
    /\ DOMAIN r.heap = DOMAIN h \cup {r.slice.arr}
    /\ \A a \in DOMAIN h : a # r.slice.arr => r.heap[a] = h[a]
    /\ \A a \in DOMAIN h : Len(h[a]) <= Len(r.heap[a])
    /\ r.slice.arr = s.arr \/ r.slice.arr \in NewNames \ DOMAIN h
    /\ Contents(r.heap, r.slice) = Contents(h, s) \o e

\* No array that an append makes is an entity's.
LEMMA NamesDiffer == OwnNames \cap NewNames = {}
BY DEF OwnNames, NewNames, Sorts

\* Room that appends leave is of places.
LEMMA RoomType ==
  ASSUME NEW n \in Nat
  PROVE  Room(n) \in Seq(Elements)
<1>1. Unset \in Elements
  BY DEF Elements
<1> HIDE DEF Elements
<1> QED BY <1>1 DEF Room

\* An array with elements, and then b, written behind the beginning that a slice is of.
WrittenTo(h, s, e, b, a) ==
    [slice |-> [arr |-> a, len |-> s.len + Len(e)],
     heap  |-> [c \in DOMAIN h \cup {a} |-> IF c = a THEN Contents(h, s) \o e \o b ELSE h[c]]]

CanWrite(h, s, e, b, a) ==
    \/ a = s.arr /\ s.len + Len(e) + Len(b) = Len(h[s.arr])
    \/ a \in NewNames \ DOMAIN h

LEMMA HeapWritten ==
  ASSUME NEW h, IsHeap(h), NEW s, IsSlice(h, s), NEW e \in Seq(Elements),
         NEW b \in Seq(Elements), NEW a, CanWrite(h, s, e, b, a)
  PROVE  IsAppended(h, s, e, WrittenTo(h, s, e, b, a))
<1> SUFFICES ASSUME NEW w, w = Contents(h, s) \o e \o b,
                    \/ a = s.arr /\ s.len + Len(e) + Len(b) = Len(h[s.arr])
                    \/ a \in NewNames \ DOMAIN h,
                    NEW r, r = [slice |-> [arr |-> a, len |-> s.len + Len(e)],
                                heap  |-> [c \in DOMAIN h \cup {a} |->
                                             IF c = a THEN w ELSE h[c]]]
             PROVE  IsAppended(h, s, e, r)
  BY DEF CanWrite, WrittenTo
<1> DEFINE t == h[s.arr]
           n == s.len
           g == [c \in DOMAIN h \cup {a} |-> IF c = a THEN w ELSE h[c]]
<1> USE DEF IsHeap
<1>1. /\ s.arr \in DOMAIN h /\ t \in Seq(Elements) /\ n \in Nat /\ Len(e) \in Nat
      /\ Len(t) \in Nat /\ Len(b) \in Nat /\ n \in 0..Len(t)
  <2>1. s.arr \in DOMAIN h /\ n \in Nat /\ n <= Len(t)
    BY DEF IsSlice
  <2>2. t \in Seq(Elements)
    BY <2>1
  <2> HIDE DEF t
  <2> QED BY <2>1, <2>2, LenProperties
<1>2. /\ w \in Seq(Elements) /\ Len(w) = n + Len(e) + Len(b)
      /\ SubSeq(w, 1, n + Len(e)) = SubSeq(t, 1, n) \o e
      /\ \A m \in 0..n : SubSeq(w, 1, m) = SubSeq(t, 1, m)
  <2>1. w = SubSeq(t, 1, n) \o e \o b
    BY DEF Contents
  <2> HIDE DEF t, n, g, IsHeap
  <2>2. BeginsWith(Elements, w, t, n, e, b)
    BY <1>1, <2>1, WrittenBehind
  <2> QED BY <2>2 DEF BeginsWith
<1>3. /\ r.heap = g /\ r.slice = [arr |-> a, len |-> n + Len(e)]
      /\ r = [heap |-> r.heap, slice |-> r.slice]
  OBVIOUS
<1>4. g[a] = w /\ DOMAIN g = DOMAIN h \cup {a} /\ \A c \in DOMAIN h : c # a => g[c] = h[c]
  OBVIOUS
<1> HIDE DEF g, t, n
<1>5. \A k \in OwnNames : a = k => a = s.arr /\ n + Len(e) + Len(b) = Len(t)
  BY NamesDiffer DEF n, t
<1>6. IsHeap(g)
  <2>1. OwnNames \subseteq DOMAIN g /\ DOMAIN g \subseteq OwnNames \cup NewNames
    BY <1>1, <1>4
  <2>2. IsFiniteSet(DOMAIN g)
    BY <1>4, FS_AddElement
  <2>3. g \in [DOMAIN g -> Seq(Elements)]
    <3>1. g = [c \in DOMAIN g |-> g[c]]
      BY DEF g
    <3>2. \A c \in DOMAIN g : g[c] \in Seq(Elements)
      BY <1>2, <1>4
    <3> HIDE DEF Elements
    <3> QED BY <3>1, <3>2
  <2>4. ASSUME NEW k \in OwnNames
        PROVE  /\ Len(OwnList(k)) <= Len(g[k])
               /\ SubSeq(g[k], 1, Len(OwnList(k))) = OwnList(k)
               /\ k[2] \in Roots => Len(g[k]) = Len(OwnList(k))
    <3>1. /\ Len(OwnList(k)) <= Len(h[k])
          /\ SubSeq(h[k], 1, Len(OwnList(k))) = OwnList(k)
          /\ k[2] \in Roots => Len(h[k]) = Len(OwnList(k))
      OBVIOUS
    <3>2. CASE k # a
      BY <1>4, <3>1, <3>2
    <3>3. CASE k = a
      <4>1. k = s.arr /\ n + Len(e) + Len(b) = Len(t) /\ t = h[k]
        BY <1>5, <3>3 DEF t
      <4>2. Len(OwnList(k)) \in Nat /\ Len(OwnList(k)) <= n
        BY <4>1, OwnType DEF IsSlice, n
      <4>3. Len(w) = Len(t) /\ Len(OwnList(k)) \in 0..n
        BY <1>1, <1>2, <4>1, <4>2
      <4>4. SubSeq(w, 1, Len(OwnList(k))) = SubSeq(t, 1, Len(OwnList(k)))
        BY <1>2, <4>3
      <4> QED BY <1>4, <3>1, <3>3, <4>1, <4>3, <4>4
    <3> QED BY <3>2, <3>3
  <2> QED BY <2>1, <2>2, <2>3, <2>4
<1>7. IsSlice(g, r.slice)
  <2>1. r.slice \in [arr : DOMAIN g, len : Nat]
    BY <1>1, <1>3, <1>4
  <2>2. r.slice.len <= Len(g[r.slice.arr])
    BY <1>1, <1>2, <1>3, <1>4
  <2>3. r.slice.arr \in OwnNames => Len(OwnList(r.slice.arr)) <= r.slice.len
    <3> SUFFICES ASSUME a \in OwnNames PROVE Len(OwnList(a)) <= n + Len(e)
      BY <1>3
    <3>1. a = s.arr
      BY <1>5
    <3>2. Len(OwnList(a)) \in Nat /\ Len(OwnList(a)) <= n
      BY <3>1, OwnType DEF IsSlice, n
    <3> QED BY <1>1, <3>2
  <2> QED BY <2>1, <2>2, <2>3 DEF IsSlice
<1>8. Contents(g, r.slice) = Contents(h, s) \o e
  BY <1>2, <1>3, <1>4 DEF Contents, t, n
<1>9. r.slice.arr = s.arr \/ r.slice.arr \in NewNames \ DOMAIN h
  BY <1>3
<1>10. \A c \in DOMAIN h : Len(h[c]) <= Len(g[c])
  <2> SUFFICES ASSUME NEW c \in DOMAIN h PROVE Len(h[c]) <= Len(g[c])
    OBVIOUS
  <2>1. CASE c = a
    <3>1. h[c] = t /\ Len(w) = Len(t)
      BY <1>1, <1>2, <2>1 DEF t, n
    <3> QED BY <1>1, <1>4, <2>1, <3>1
  <2>2. CASE c # a
    <3>1. g[c] = h[c] /\ h[c] \in Seq(Elements)
      BY <1>4, <2>2
    <3>2. Len(h[c]) \in Nat
      BY <3>1, LenProperties
    <3> QED BY <3>1, <3>2
  <2> QED BY <2>1, <2>2
<1> HIDE DEF IsHeap
<1> QED BY <1>3, <1>4, <1>6, <1>7, <1>8, <1>9, <1>10 DEF IsAppended

\* An append has what the slice had, and then what was appended to it.
LEMMA Appended ==
  ASSUME NEW h, IsHeap(h), NEW s, IsSlice(h, s), NEW e \in Seq(Elements), NEW room \in Nat
  PROVE  IsAppended(h, s, e, AppendAll(h, s, e, room))
<1> SUFFICES ASSUME NEW r, r = AppendAll(h, s, e, room) PROVE IsAppended(h, s, e, r)
  OBVIOUS
<1> DEFINE t == h[s.arr]
           n == s.len + Len(e)
<1>1. /\ s.arr \in DOMAIN h /\ t \in Seq(Elements) /\ s.len \in Nat /\ Len(e) \in Nat
      /\ Len(t) \in Nat /\ s.len \in 0..Len(t) /\ s = [arr |-> s.arr, len |-> s.len]
  <2>1. s.arr \in DOMAIN h /\ s.len \in Nat /\ s.len <= Len(t) /\ s = [arr |-> s.arr, len |-> s.len]
    BY DEF IsSlice
  <2>2. t \in Seq(Elements)
    BY <2>1 DEF IsHeap
  <2> HIDE DEF t
  <2> QED BY <2>1, <2>2, LenProperties
<1>2. CASE e = <<>>
  <2>1. r = [heap |-> h, slice |-> s]
    BY <1>2 DEF AppendAll
  <2>2. Contents(h, s) \in Seq(Elements)
    BY <1>1, FirstOfIs DEF Contents, FirstOf
  <2>3. Contents(h, s) \o e = Contents(h, s)
    BY <1>2, <2>2, ConcatEmptySeq
  <2>4. DOMAIN h = DOMAIN h \cup {s.arr}
    BY <1>1
  <2>5. r.heap = h /\ r.slice = s
    BY <2>1
  <2>6. \A a \in DOMAIN h : Len(h[a]) <= Len(h[a])
    <3>1. \A a \in DOMAIN h : Len(h[a]) \in Nat
      BY LenProperties DEF IsHeap
    <3> QED BY <3>1
  <2> HIDE DEF t, n
  <2> QED BY <2>1, <2>3, <2>4, <2>5, <2>6 DEF IsAppended
<1>3. CASE e # <<>> /\ n <= Len(t)
  <2> DEFINE b == SubSeq(t, n + 1, Len(t))
  <2>1. b \in Seq(Elements) /\ Len(b) = Len(t) - n
    <3>1. n \in 0..Len(t)
      BY <1>1, <1>3
    <3> HIDE DEF t, n
    <3> QED BY <1>1, <3>1, RestOfIs DEF RestOf
  <2>2. s.len + Len(e) + Len(b) = Len(h[s.arr])
    <3> HIDE DEF b
    <3> QED BY <1>1, <2>1
  <2>3. r = WrittenTo(h, s, e, b, s.arr)
    BY <1>3 DEF AppendAll, WrittenTo
  <2> HIDE DEF b
  <2>4. CanWrite(h, s, e, b, s.arr)
    BY <2>2 DEF CanWrite
  <2> QED BY <2>1, <2>3, <2>4, HeapWritten
<1>4. CASE e # <<>> /\ ~(n <= Len(t))
  <2> DEFINE b == Room(room)
             a == Fresh(h)
  <2>1. b \in Seq(Elements)
    BY RoomType
  <2>2. a \in NewNames \ DOMAIN h
    BY FreshIsNew DEF IsHeap
  <2>3. r = WrittenTo(h, s, e, b, a)
    BY <1>4 DEF AppendAll, WrittenTo
  <2> HIDE DEF b, a
  <2>4. CanWrite(h, s, e, b, a)
    BY <2>2 DEF CanWrite
  <2> QED BY <2>1, <2>3, <2>4, HeapWritten
<1> QED BY <1>2, <1>3, <1>4

-----------------------------------------------------------------------------
(* The appends of AllEnums and AllMessages.                                *)

Slices == [arr : OwnNames \cup NewNames, len : Nat]

Heaps == {h \in UNION {[D -> Seq(Elements)] : D \in SUBSET (OwnNames \cup NewNames)} : IsHeap(h)}

Calls == [to : Holders, from : Holders]

\* Where a call may put what it makes of a holder's slice when it finds the heap h.
MayBeIn(h, sort, q, a) == a = <<sort, q>> \/ a \in NewNames \ DOMAIN h

\* What there is of the heap h in g, which a call comes to that finds h: the arrays that
\* are not entities' have not changed, and none is shorter.
Keeps(h, g) ==
    /\ IsHeap(h)
    /\ \A a \in DOMAIN h : /\ a \in DOMAIN g /\ Len(h[a]) <= Len(g[a])
                           /\ a \in NewNames => g[a] = h[a]

\* Where a call that finds the heap h may be: it has an array for each holder's slice.
States(h, sort) ==
    {o \in [heap : Heaps, slices : [Holders -> Slices]] :
       /\ Keeps(h, o.heap)
       /\ \A q \in Holders : /\ IsSlice(o.heap, o.slices[q])
                             /\ MayBeIn(h, sort, q, o.slices[q].arr)
       /\ \A q, r \in Holders : q # r => o.slices[q].arr # o.slices[r].arr}

\* What is in the slices.
Got(o) == [q \in Holders |-> Contents(o.heap, o.slices[q])]

After(w, o, room) == FoldLeft(LAMBDA p, c : AppendOne(p, c, room), o, w)

Start(h, sort) == [heap |-> h, slices |-> [q \in Holders |-> OwnSlice(q, sort)]]

\* A heap is one of Heaps.
LEMMA HeapType ==
  ASSUME NEW h, IsHeap(h)
  PROVE  h \in Heaps
<1>1. DOMAIN h \in SUBSET (OwnNames \cup NewNames) /\ h \in [DOMAIN h -> Seq(Elements)]
  BY DEF IsHeap
<1> HIDE DEF OwnNames, NewNames, Elements, IsHeap
<1> QED BY <1>1 DEF Heaps

\* What a slice has are elements.
LEMMA ContentsType ==
  ASSUME NEW h, IsHeap(h), NEW s, IsSlice(h, s)
  PROVE  /\ s \in Slices /\ h[s.arr] \in Seq(Elements) /\ s.len \in 0..Len(h[s.arr])
         /\ Contents(h, s) \in Seq(Elements)
<1>1. s \in [arr : DOMAIN h, len : Nat] /\ s.len <= Len(h[s.arr])
      /\ DOMAIN h \subseteq OwnNames \cup NewNames
  BY DEF IsSlice, IsHeap
<1>2. h[s.arr] \in Seq(Elements)
  BY <1>1 DEF IsHeap
<1>3. s.len \in 0..Len(h[s.arr])
  BY <1>1, <1>2, LenProperties
<1>4. s \in Slices
  BY <1>1 DEF Slices
<1>5. Contents(h, s) \in Seq(Elements)
  BY <1>2, <1>3, FirstOfIs DEF Contents, FirstOf
<1> QED BY <1>2, <1>3, <1>4, <1>5

\* An entity's own slice has what the entity holds.
LEMMA OwnSliceIs ==
  ASSUME NEW h, IsHeap(h), NEW p \in Holders, NEW sort \in Sorts
  PROVE  /\ IsSlice(h, OwnSlice(p, sort))
         /\ Contents(h, OwnSlice(p, sort)) = Own[sort][p]
         /\ OwnSlice(p, sort).arr = <<sort, p>>
<1> DEFINE k == <<sort, p>>
<1>1. k \in OwnNames /\ OwnList(k) = Own[sort][p]
  BY DEF OwnNames, OwnList
<1>2. OwnSlice(p, sort) = [arr |-> k, len |-> Len(OwnList(k))]
  BY <1>1 DEF OwnSlice
<1> HIDE DEF k
<1>3. Len(OwnList(k)) \in Nat /\ Len(OwnList(k)) <= Len(h[k]) /\ k \in DOMAIN h
      /\ SubSeq(h[k], 1, Len(OwnList(k))) = OwnList(k)
  BY <1>1, OwnType DEF IsHeap
<1> HIDE DEF OwnList
<1>4. IsSlice(h, OwnSlice(p, sort))
  BY <1>2, <1>3 DEF IsSlice
<1>5. Contents(h, OwnSlice(p, sort)) = OwnList(k)
  BY <1>2, <1>3 DEF Contents
<1>6. OwnSlice(p, sort).arr = <<sort, p>>
  BY <1>2 DEF k
<1> QED BY <1>1, <1>4, <1>5, <1>6

\* A call starts with the holders' own slices.
LEMMA StartIs ==
  ASSUME NEW h, IsHeap(h), NEW sort \in Sorts
  PROVE  /\ Start(h, sort) \in States(h, sort)
         /\ Got(Start(h, sort)) = [q \in Holders |-> Own[sort][q]]
<1> DEFINE o == Start(h, sort)
<1>1. /\ o.heap = h /\ o.slices = [q \in Holders |-> OwnSlice(q, sort)]
      /\ o = [heap |-> o.heap, slices |-> o.slices]
  BY DEF Start
<1> HIDE DEF o
<1>2. ASSUME NEW q \in Holders
      PROVE  /\ o.slices[q] \in Slices /\ IsSlice(o.heap, o.slices[q])
             /\ o.slices[q].arr = <<sort, q>>
             /\ Contents(o.heap, o.slices[q]) = Own[sort][q]
  BY <1>1, OwnSliceIs, ContentsType
<1>3. o \in [heap : Heaps, slices : [Holders -> Slices]]
  <2>1. o.heap \in Heaps
    BY <1>1, HeapType
  <2>2. o.slices \in [Holders -> Slices]
    BY <1>1, <1>2
  <2> QED BY <1>1, <2>1, <2>2
<1>4. Keeps(h, o.heap)
  <2>1. \A a \in DOMAIN h : Len(h[a]) \in Nat
    BY LenProperties DEF IsHeap
  <2> QED BY <1>1, <2>1 DEF Keeps
<1> QED BY <1>2, <1>3, <1>4 DEF o, States, MayBeIn, Got

\* What a state of a call has.
LEMMA StateIs ==
  ASSUME NEW h, NEW sort, NEW o \in States(h, sort)
  PROVE  /\ o.heap \in Heaps /\ o.slices \in [Holders -> Slices]
         /\ o = [heap |-> o.heap, slices |-> o.slices]
         /\ IsHeap(o.heap) /\ Keeps(h, o.heap)
         /\ \A q \in Holders : /\ IsSlice(o.heap, o.slices[q])
                               /\ MayBeIn(h, sort, q, o.slices[q].arr)
         /\ \A q, r \in Holders : q # r => o.slices[q].arr # o.slices[r].arr
<1>1. /\ o \in [heap : Heaps, slices : [Holders -> Slices]]
      /\ Keeps(h, o.heap)
      /\ \A q \in Holders : IsSlice(o.heap, o.slices[q]) /\ MayBeIn(h, sort, q, o.slices[q].arr)
      /\ \A q, r \in Holders : q # r => o.slices[q].arr # o.slices[r].arr
  BY DEF States
<1>2. IsHeap(o.heap)
  BY <1>1 DEF Heaps
<1> QED BY <1>1, <1>2

\* The lists got, with one appended to another.
Joined(got, c) == [got EXCEPT ![c.to] = @ \o got[c.from]]

\* An append of the result of a call, to the result of the call it is made in.
LEMMA OneAppended ==
  ASSUME NEW h, NEW sort \in Sorts, NEW o \in States(h, sort), NEW c \in Calls, NEW room \in Nat
  PROVE  /\ AppendOne(o, c, room) \in States(h, sort)
         /\ Got(AppendOne(o, c, room)) = Joined(Got(o), c)
<1> DEFINE s == o.slices[c.to]
           e == Contents(o.heap, o.slices[c.from])
           r == AppendAll(o.heap, s, e, room)
           t == AppendOne(o, c, room)
<1>0. c.to \in Holders /\ c.from \in Holders
  BY DEF Calls
<1>1. /\ o.heap \in Heaps /\ o.slices \in [Holders -> Slices]
      /\ IsHeap(o.heap) /\ Keeps(h, o.heap)
      /\ \A q \in Holders : IsSlice(o.heap, o.slices[q]) /\ MayBeIn(h, sort, q, o.slices[q].arr)
      /\ \A q, p \in Holders : q # p => o.slices[q].arr # o.slices[p].arr
  BY StateIs
<1>2. e \in Seq(Elements) /\ IsSlice(o.heap, s) /\ MayBeIn(h, sort, c.to, s.arr)
  BY <1>0, <1>1, ContentsType
<1>3. t.heap = r.heap /\ t.slices = [o.slices EXCEPT ![c.to] = r.slice]
      /\ t = [heap |-> t.heap, slices |-> t.slices]
  BY DEF AppendOne
<1>4. IsAppended(o.heap, s, e, r)
  <2> HIDE DEF s, e
  <2> QED BY <1>1, <1>2, Appended
<1>5. \A q \in Holders : o.slices[q].arr \in DOMAIN o.heap
  BY <1>1 DEF IsSlice
<1>6. /\ t.slices[c.to] = r.slice
      /\ \A q \in Holders : q # c.to => t.slices[q] = o.slices[q]
      /\ t.slices = [q \in Holders |-> t.slices[q]]
  <2> HIDE DEF r, t
  <2> QED BY <1>0, <1>1, <1>3
<1> HIDE DEF t, r, e
<1>7. /\ IsHeap(t.heap) /\ IsSlice(t.heap, r.slice)
      /\ DOMAIN t.heap = DOMAIN o.heap \cup {r.slice.arr}
      /\ \A a \in DOMAIN o.heap : a # r.slice.arr => t.heap[a] = o.heap[a]
      /\ \A a \in DOMAIN o.heap : Len(o.heap[a]) <= Len(t.heap[a])
      /\ r.slice.arr = s.arr \/ r.slice.arr \in NewNames \ DOMAIN o.heap
      /\ Contents(t.heap, r.slice) = Contents(o.heap, s) \o e
  BY <1>3, <1>4 DEF IsAppended
<1>8. \A q \in Holders : q # c.to => o.slices[q].arr # r.slice.arr
  BY <1>0, <1>1, <1>5, <1>7
<1>9. Keeps(h, t.heap) /\ MayBeIn(h, sort, c.to, r.slice.arr)
  <2>1. MayBeIn(h, sort, c.to, r.slice.arr)
    BY <1>1, <1>2, <1>7 DEF MayBeIn, Keeps
  <2>2. ASSUME NEW a \in DOMAIN h
        PROVE  /\ a \in DOMAIN t.heap /\ Len(h[a]) <= Len(t.heap[a])
               /\ a \in NewNames => t.heap[a] = h[a]
    <3>1. /\ a \in DOMAIN o.heap /\ Len(h[a]) <= Len(o.heap[a])
          /\ a \in NewNames => o.heap[a] = h[a]
      BY <1>1 DEF Keeps
    <3>2. a \in NewNames => a # r.slice.arr
      <4>1. CASE r.slice.arr \in NewNames \ DOMAIN h
        BY <4>1
      <4>2. CASE r.slice.arr = <<sort, c.to>>
        <5>1. <<sort, c.to>> \in OwnNames
          BY <1>0 DEF OwnNames
        <5> QED BY <4>2, <5>1, NamesDiffer
      <4> QED BY <2>1, <4>1, <4>2 DEF MayBeIn
    <3>3. Len(h[a]) \in Nat /\ Len(o.heap[a]) \in Nat /\ Len(t.heap[a]) \in Nat
      <4>1. IsHeap(h) /\ IsHeap(o.heap) /\ IsHeap(t.heap) /\ a \in DOMAIN t.heap
        BY <1>1, <1>7, <3>1 DEF Keeps
      <4>2. h[a] \in Seq(Elements) /\ o.heap[a] \in Seq(Elements) /\ t.heap[a] \in Seq(Elements)
        BY <3>1, <4>1 DEF IsHeap
      <4> QED BY <4>2, LenProperties
    <3>4. Len(o.heap[a]) <= Len(t.heap[a])
      BY <1>7, <3>1
    <3> QED BY <1>7, <3>1, <3>2, <3>3, <3>4
  <2>3. IsHeap(h)
    BY <1>1 DEF Keeps
  <2> QED BY <2>1, <2>2, <2>3 DEF Keeps
<1>10. ASSUME NEW q \in Holders, q # c.to
       PROVE  /\ IsSlice(t.heap, t.slices[q])
              /\ Contents(t.heap, t.slices[q]) = Contents(o.heap, o.slices[q])
  <2>1. t.heap[o.slices[q].arr] = o.heap[o.slices[q].arr] /\ o.slices[q].arr \in DOMAIN t.heap
    BY <1>5, <1>7, <1>8, <1>10
  <2>2. t.slices[q] = o.slices[q] /\ IsSlice(o.heap, o.slices[q])
    BY <1>1, <1>6, <1>10
  <2> QED BY <2>1, <2>2 DEF IsSlice, Contents
<1>11. \A q \in Holders : t.slices[q] \in Slices /\ IsSlice(t.heap, t.slices[q])
  BY <1>6, <1>7, <1>10, ContentsType
<1>12. t \in States(h, sort)
  <2>1. t \in [heap : Heaps, slices : [Holders -> Slices]]
    <3>1. t.heap \in Heaps
      BY <1>7, HeapType
    <3>2. t.slices \in [Holders -> Slices]
      BY <1>6, <1>11
    <3> QED BY <1>3, <3>1, <3>2
  <2>2. \A q \in Holders : MayBeIn(h, sort, q, t.slices[q].arr)
    BY <1>1, <1>6, <1>9
  <2>3. \A q, p \in Holders : q # p => t.slices[q].arr # t.slices[p].arr
    BY <1>1, <1>6, <1>8
  <2> QED BY <1>9, <1>11, <2>1, <2>2, <2>3 DEF States
<1>13. Got(t) = [Got(o) EXCEPT ![c.to] = @ \o Got(o)[c.from]]
  <2>1. Got(o)[c.to] = Contents(o.heap, s) /\ Got(o)[c.from] = e
    BY <1>0 DEF Got, e
  <2>2. Contents(t.heap, t.slices[c.to]) = Contents(o.heap, s) \o e
    BY <1>6, <1>7
  <2>3. \A q \in Holders : q # c.to => Contents(t.heap, t.slices[q]) = Contents(o.heap, o.slices[q])
    BY <1>10
  <2> HIDE DEF s
  <2> QED BY <1>0, <2>1, <2>2, <2>3 DEF Got
<1> QED BY <1>12, <1>13 DEF t, Joined

AppendSteps(h, sort, w, room) ==
    [i \in 1..Len(w) |-> [o \in States(h, sort) |-> AppendOne(o, w[i], room)]]

\* The appends of a call go from state to state.
LEMMA AppendStepsType ==
  ASSUME NEW h, NEW sort \in Sorts, NEW w \in Seq(Calls), NEW room \in Nat
  PROVE  AppendSteps(h, sort, w, room) \in Steps(Len(w), States(h, sort))
<1>1. \A i \in 1..Len(w) : w[i] \in Calls
  OBVIOUS
<1>2. \A i \in 1..Len(w) : \A o \in States(h, sort) : AppendOne(o, w[i], room) \in States(h, sort)
  BY <1>1, OneAppended
<1> QED BY <1>2 DEF AppendSteps, Steps

\* A call makes its appends one by one.
LEMMA AfterIterated ==
  ASSUME NEW h, NEW sort \in Sorts, NEW w \in Seq(Calls), NEW room \in Nat,
         NEW o \in States(h, sort)
  PROVE  After(w, o, room) = Iterated(Len(w), States(h, sort), AppendSteps(h, sort, w, room), o)
<1> DEFINE V == States(h, sort)
           n == Len(w)
           g == AppendSteps(h, sort, w, room)
           F(it) == it = [T \in SUBSET (DOMAIN w) |->
                      IF T = {} THEN o ELSE AppendOne(it[T \ {Max(T)}], w[Max(T)], room)]
           chosen == CHOOSE it : F(it)
<1>1. n \in Nat /\ DOMAIN w = 1..n /\ o \in V /\ g \in Steps(n, V)
  BY AppendStepsType
<1>2. \A v \in V, i \in 1..n : g[i][v] = AppendOne(v, w[i], room)
  BY DEF AppendSteps
<1>3. After(w, o, room) = chosen[DOMAIN w]
  BY DEF After, FoldLeft, MapThenFoldSet
<1> HIDE DEF V, n, g
<1>4. \E it : F(it)
  <2>1. PICK it \in FoldsUpTo(n, n, V, g, o) : TRUE
    BY <1>1, FoldsExist
  <2>2. it \in [SUBSET (1..n) -> V] /\ it[{}] = o
    BY <2>1 DEF FoldsUpTo
  <2>3. ASSUME NEW T \in SUBSET (1..n), T # {}
        PROVE  it[T] = AppendOne(it[T \ {Max(T)}], w[Max(T)], room)
    <3>1. Max(T) \in 1..n
      BY <1>1, <2>3, MaxPosition
    <3>2. it[T] = g[Max(T)][it[T \ {Max(T)}]]
      BY <2>1, <2>3 DEF FoldsUpTo
    <3>3. it[T \ {Max(T)}] \in V
      BY <2>2
    <3> QED BY <3>1, <3>2, <3>3, <1>2
  <2>4. \A T \in SUBSET (1..n) :
           it[T] = IF T = {} THEN o ELSE AppendOne(it[T \ {Max(T)}], w[Max(T)], room)
    BY <2>2, <2>3
  <2> QED BY <1>1, <2>2, <2>4
<1>5. F(chosen)
  BY <1>4
<1> HIDE DEF chosen
<1>6. \A T \in SUBSET (1..n) :
         chosen[T] = IF T = {} THEN o ELSE AppendOne(chosen[T \ {Max(T)}], w[Max(T)], room)
  BY <1>1, <1>5
<1>7. chosen[{}] = o
  BY <1>6
<1>8. ASSUME NEW T \in SUBSET (1..n), T # {}, chosen[T \ {Max(T)}] \in V
      PROVE  chosen[T] = g[Max(T)][chosen[T \ {Max(T)}]]
  <2>1. Max(T) \in 1..n
    BY <1>1, <1>8, MaxPosition
  <2> QED BY <2>1, <1>2, <1>6, <1>8
<1>9. chosen[1..n] = Iterated(n, V, g, o)
  BY <1>1, <1>7, <1>8, FoldIsIterated, SMTT(30)
<1> QED BY <1>1, <1>3, <1>9 DEF V, n, g

\* Without appends there is what there was.
LEMMA AfterNone ==
  ASSUME NEW h, NEW sort \in Sorts, NEW room \in Nat, NEW o \in States(h, sort)
  PROVE  After(<<>>, o, room) = o
<1> DEFINE w == <<>>
<1>1. w \in Seq(Calls) /\ Len(w) = 0
  OBVIOUS
<1> HIDE DEF w
<1>2. After(w, o, room) = Iterated(0, States(h, sort), AppendSteps(h, sort, w, room), o)
      /\ AppendSteps(h, sort, w, room) \in Steps(0, States(h, sort))
  BY <1>1, AfterIterated, AppendStepsType
<1>3. After(w, o, room) = o
  BY <1>2, IteratedZero
<1> QED BY <1>3 DEF w

\* And with one more, what it makes of what there is after the others.
LEMMA AfterOne ==
  ASSUME NEW h, NEW sort \in Sorts, NEW w \in Seq(Calls), NEW c \in Calls, NEW room \in Nat,
         NEW o \in States(h, sort)
  PROVE  /\ After(w, o, room) \in States(h, sort)
         /\ Append(w, c) \in Seq(Calls)
         /\ After(Append(w, c), o, room) = AppendOne(After(w, o, room), c, room)
<1> DEFINE t == Append(w, c)
           n == Len(w)
           f == AppendSteps(h, sort, w, room)
           g == AppendSteps(h, sort, t, room)
           V == States(h, sort)
<1>1. t \in Seq(Calls) /\ n \in Nat /\ Len(t) = n + 1 /\ t[n + 1] = c /\ \A i \in 1..n : t[i] = w[i]
  OBVIOUS
<1> HIDE DEF t
<1>2. f \in Steps(n, V) /\ g \in Steps(n + 1, V) /\ o \in V
  BY <1>1, AppendStepsType
<1>3. \A i \in 1..n : f[i] = g[i]
  <2> SUFFICES ASSUME NEW i \in 1..n PROVE f[i] = g[i]
    OBVIOUS
  <2>1. i \in 1..(n + 1) /\ t[i] = w[i]
    BY <1>1
  <2> QED BY <1>1, <2>1 DEF AppendSteps
<1>4. After(w, o, room) = Iterated(n, V, f, o) /\ After(t, o, room) = Iterated(n + 1, V, g, o)
  BY <1>1, AfterIterated
<1> HIDE DEF f, g, n
<1>5. Iterated(n, V, f, o) \in V
      /\ Iterated(n + 1, V, g, o) = g[n + 1][Iterated(n, V, f, o)]
  BY <1>1, <1>2, <1>3, IteratedNext
<1>6. \A v \in V : g[n + 1][v] = AppendOne(v, c, room)
  <2>1. n + 1 \in 1..(n + 1)
    BY <1>1
  <2> QED BY <1>1, <2>1 DEF g, AppendSteps
<1> QED BY <1>1, <1>4, <1>5, <1>6 DEF t

\* Any number of appends, and appends after others.
LEMMA AfterMore ==
  ASSUME NEW h, NEW sort \in Sorts, NEW w \in Seq(Calls), NEW v \in Seq(Calls),
         NEW room \in Nat, NEW o \in States(h, sort)
  PROVE  /\ After(w, o, room) \in States(h, sort)
         /\ After(w \o v, o, room) = After(v, After(w, o, room), room)
<1> DEFINE S == {u \in Seq(Calls) : /\ After(u, o, room) \in States(h, sort)
                                    /\ After(w \o u, o, room) = After(u, After(w, o, room), room)}
           T == {u \in Seq(Calls) : After(u, o, room) \in States(h, sort)}
<1>1. Seq(Calls) \subseteq T
  <2>1. <<>> \in T
    BY AfterNone
  <2>2. ASSUME NEW u \in Seq(Calls), NEW c \in Calls PROVE Append(u, c) \in T
    BY AfterOne, OneAppended
  <2> HIDE DEF T, Calls
  <2> QED BY <2>1, <2>2, SeqInduct
<1>2. After(w, o, room) \in States(h, sort)
  BY <1>1
<1>3. Seq(Calls) \subseteq S
  <2>1. <<>> \in S
    <3>1. w \o <<>> = w
      BY ConcatEmptySeq
    <3> QED BY <1>2, <3>1, AfterNone
  <2>2. ASSUME NEW u \in Seq(Calls), NEW c \in Calls, u \in S PROVE Append(u, c) \in S
    <3>1. w \o Append(u, c) = Append(w \o u, c) /\ w \o u \in Seq(Calls)
      BY ConcatAppend, ConcatProperties
    <3> DEFINE x == w \o u
               p == After(w, o, room)
    <3>2. /\ After(Append(x, c), o, room) = AppendOne(After(x, o, room), c, room)
          /\ After(Append(u, c), p, room) = AppendOne(After(u, p, room), c, room)
      <4>1. x \in Seq(Calls) /\ p \in States(h, sort)
        BY <1>2, <3>1
      <4> HIDE DEF x, p, S, T
      <4>2. After(Append(x, c), o, room) = AppendOne(After(x, o, room), c, room)
        BY <4>1, AfterOne
      <4>3. After(Append(u, c), p, room) = AppendOne(After(u, p, room), c, room)
        BY <4>1, AfterOne
      <4> QED BY <4>2, <4>3
    <3>3. Append(u, c) \in Seq(Calls) /\ After(Append(u, c), o, room) \in States(h, sort)
      BY <1>1, AfterOne
    <3> QED BY <2>2, <3>1, <3>2, <3>3
  <2> HIDE DEF S, Calls
  <2> QED BY <2>1, <2>2, SeqInduct
<1> QED BY <1>2, <1>3

-----------------------------------------------------------------------------
(* What is nested.                                                         *)

Nested(q) == ToSet(Own["msgs"][q])

\* Nesting has no cycles.
LEMMA NestingNoCycle ==
  /\ NoCycle(Holders, [q \in Holders |-> Nested(q)])
  /\ \A q \in Holders : Nested(q) \in SUBSET Holders
<1>1. \A q \in Holders : Nested(q) \in SUBSET Holders
  <2> SUFFICES ASSUME NEW q \in Holders PROVE Nested(q) \in SUBSET Holders
    OBVIOUS
  <2>1. Own["msgs"][q] \in Seq(Holders)
    BY OwnType
  <2> QED BY <2>1 DEF Nested, ToSet
<1> DEFINE needs == [q \in Holders |-> Nested(q)]
<1>2. needs \in [Holders -> SUBSET Holders]
  BY <1>1
<1>3. \A S \in (SUBSET Holders) \ {{}} : \E q \in S : needs[q] \cap S = {}
  <2> SUFFICES ASSUME NEW S \in (SUBSET Holders) \ {{}} PROVE \E q \in S : needs[q] \cap S = {}
    OBVIOUS
  <2>1. PICK q \in S : ToSet(Own["msgs"][q]) \cap S = {}
    BY NestingAssumption
  <2>2. needs[q] = ToSet(Own["msgs"][q])
    BY DEF Nested
  <2> QED BY <2>1, <2>2
<1> QED BY <1>1, <1>2, <1>3, NestingAssumption DEF NoCycle

\* The calls that come to one of AllEnums or AllMessages for each nested message, and
\* the append of its result.
Parts(q) ==
    [i \in DOMAIN Own["msgs"][q] |->
       Append(Appends[Own["msgs"][q][i]], [to |-> q, from |-> Own["msgs"][q][i]])]

\* The appends of a call, by those of the calls it makes.
LEMMA AppendsIs ==
  \A q \in Holders : /\ Appends[q] = FlattenSeq(Parts(q)) /\ Appends[q] \in Seq(Calls)
                     /\ Parts(q) \in Seq(Seq(Calls))
<1> DEFINE X == Seq(Calls)
           needs == [q \in Holders |-> Nested(q)]
           part(q, h) == [i \in DOMAIN Own["msgs"][q] |->
                            Append(h[Own["msgs"][q][i]], [to |-> q, from |-> Own["msgs"][q][i]])]
           step == [q \in Holders |-> [h \in [Holders -> X] |-> FlattenSeq(part(q, h))]]
           F(h) == h = [q \in Holders |-> FlattenSeq(part(q, h))]
           chosen == CHOOSE h : F(h)
<1>1. Appends = [q \in Holders |-> chosen[q]]
  BY DEF Appends
<1>2. \A q \in Holders : Own["msgs"][q] \in Seq(Holders)
  BY OwnType
<1>3. ASSUME NEW q \in Holders, NEW h, \A k \in Nested(q) : h[k] \in X
      PROVE  part(q, h) \in Seq(X) /\ FlattenSeq(part(q, h)) \in X
  <2> DEFINE ms == Own["msgs"][q]
             p == part(q, h)
  <2>1. ms \in Seq(Holders) /\ Len(ms) \in Nat /\ DOMAIN ms = 1..Len(ms)
    BY <1>2
  <2>2. ASSUME NEW i \in 1..Len(ms)
        PROVE  Append(h[ms[i]], [to |-> q, from |-> ms[i]]) \in Seq(Calls)
    <3>1. ms[i] \in Holders /\ ms[i] \in Nested(q)
      BY <2>1 DEF Nested, ToSet
    <3>2. h[ms[i]] \in Seq(Calls) /\ [to |-> q, from |-> ms[i]] \in Calls
      BY <1>3, <3>1 DEF Calls
    <3> HIDE DEF ms
    <3> QED BY <3>2, AppendProperties
  <2>3. p = [i \in 1..Len(ms) |-> Append(h[ms[i]], [to |-> q, from |-> ms[i]])]
    BY <2>1
  <2> HIDE DEF p, ms
  <2>4. p \in Seq(X)
    BY <2>1, <2>2, <2>3
  <2>5. FlattenSeq(p) \in X
    BY <2>4, FlattenType
  <2> QED BY <2>4, <2>5 DEF p
<1>4. MadeOfNeeds(Holders, needs, X, step)
  <2>1. step \in [Holders -> [[Holders -> X] -> X]]
    <3>1. \A q \in Holders, h \in [Holders -> X] : \A k \in Nested(q) : h[k] \in X
      BY NestingNoCycle
    <3> HIDE DEF part, X
    <3>2. \A q \in Holders, h \in [Holders -> X] : FlattenSeq(part(q, h)) \in X
      BY <1>3, <3>1
    <3> QED BY <3>2
  <2>2. ASSUME NEW q \in Holders, NEW h \in [Holders -> X], NEW j \in [Holders -> X],
               \A k \in needs[q] : h[k] = j[k]
        PROVE  step[q][h] = step[q][j]
    <3>1. \A i \in DOMAIN Own["msgs"][q] : h[Own["msgs"][q][i]] = j[Own["msgs"][q][i]]
      BY <2>2 DEF Nested, ToSet
    <3>2. part(q, h) = part(q, j)
      BY <3>1
    <3> HIDE DEF part, X
    <3> QED BY <3>2
  <2> HIDE DEF step, needs, X
  <2> QED BY <2>1, <2>2 DEF MadeOfNeeds
<1>5. PICK h \in [Holders -> X] : \A q \in Holders : h[q] = step[q][h]
  <2>1. X # {}
    <3>1. <<>> \in Seq(Calls)
      OBVIOUS
    <3> QED BY <3>1
  <2>2. NoCycle(Holders, needs)
    BY NestingNoCycle
  <2> HIDE DEF step, needs, X
  <2>3. Solutions(Holders, X, step) # {}
    BY <1>4, <2>1, <2>2, Recursive
  <2> QED BY <2>3 DEF Solutions
<1>6. h \in [Holders -> X] /\ F(h)
  <2> HIDE DEF part, X
  <2>1. \A q \in Holders : h[q] = FlattenSeq(part(q, h))
    BY <1>5
  <2> QED BY <2>1
<1>7. F(chosen)
  <2> HIDE DEF F
  <2> QED BY <1>6
<1>8. \A q \in Holders : Appends[q] = FlattenSeq(part(q, chosen)) /\ Appends[q] = chosen[q]
  <2> HIDE DEF part, chosen
  <2> QED BY <1>1, <1>7
<1> DEFINE Bad == {q \in Holders : chosen[q] \notin X}
<1>9. Bad = {}
  <2> SUFFICES ASSUME Bad # {} PROVE FALSE
    OBVIOUS
  <2>1. PICK q \in Bad : Nested(q) \cap Bad = {}
    <3> HIDE DEF Bad
    <3>1. Bad \in (SUBSET Holders) \ {{}}
      BY DEF Bad
    <3> QED BY <3>1, NestingAssumption DEF Nested
  <2>2. \A k \in Nested(q) : chosen[k] \in X
    <3> HIDE DEF chosen, X
    <3> QED BY <2>1, NestingNoCycle
  <2> HIDE DEF part, chosen, X
  <2>3. FlattenSeq(part(q, chosen)) \in X
    BY <1>3, <2>2
  <2> QED BY <1>8, <2>1, <2>3
<1>10. ASSUME NEW q \in Holders
       PROVE  part(q, chosen) \in Seq(X) /\ Appends[q] \in X
  <2> HIDE DEF part, chosen, X
  <2>1. \A k \in Nested(q) : chosen[k] \in X
    BY <1>9, NestingNoCycle
  <2>2. part(q, chosen) \in Seq(X)
    BY <1>3, <2>1
  <2> QED BY <1>8, <1>9, <2>2
<1>11. ASSUME NEW q \in Holders PROVE Parts(q) = part(q, chosen)
  <2> HIDE DEF chosen
  <2>1. \A i \in DOMAIN Own["msgs"][q] : Own["msgs"][q][i] \in Holders
    BY <1>2
  <2>2. \A i \in DOMAIN Own["msgs"][q] : Appends[Own["msgs"][q][i]] = chosen[Own["msgs"][q][i]]
    BY <1>8, <2>1
  <2> QED BY <2>2 DEF Parts
<1> HIDE DEF part, chosen
<1> QED BY <1>8, <1>10, <1>11

\* What a call gives that finds the heap h: a slice for p, in an array that p holds or
\* that no caller has.
IsGiven(h, sort, p, out) ==
    /\ IsHeap(out.heap) /\ Keeps(h, out.heap)
    /\ IsSlice(out.heap, out.slice) /\ MayBeIn(h, sort, p, out.slice.arr)

\* All is what the appends make of the slices that it starts with.
LEMMA AllIs ==
  ASSUME NEW h, IsHeap(h), NEW sort \in Sorts, NEW p \in Holders, NEW room \in Nat
  PROVE  /\ After(Appends[p], Start(h, sort), room) \in States(h, sort)
         /\ IsGiven(h, sort, p, All(h, p, sort, room))
         /\ Contents(All(h, p, sort, room).heap, All(h, p, sort, room).slice)
               = Got(After(Appends[p], Start(h, sort), room))[p]
<1> DEFINE o == After(Appends[p], Start(h, sort), room)
           out == All(h, p, sort, room)
<1>1. o \in States(h, sort)
  <2>1. Start(h, sort) \in States(h, sort) /\ Appends[p] \in Seq(Calls)
    BY StartIs, AppendsIs
  <2> QED BY <2>1, AfterMore
<1>2. out.heap = o.heap /\ out.slice = o.slices[p]
  BY DEF All, After, Start
<1> HIDE DEF o, out
<1>3. IsGiven(h, sort, p, out)
  BY <1>1, <1>2, StateIs DEF IsGiven
<1>4. Contents(out.heap, out.slice) = Got(o)[p]
  BY <1>2 DEF Got
<1> QED BY <1>1, <1>3, <1>4 DEF o, out

-----------------------------------------------------------------------------
(* The lists that files and messages hand out.                             *)

Kept == [slice : Slices, of : Holders, sort : Sorts, all : BOOLEAN, want : Seq(Elements)]

\* The slice that a caller keeps at an index.  One that a file gave is of an array that
\* the file holds, and never writes to, or of one that no other is of.
IsKept(h, hd, i) ==
    /\ hd[i] \in Kept
    /\ IsSlice(h, hd[i].slice)
    /\ hd[i].of \in Roots =>
          /\ Contents(h, hd[i].slice) = hd[i].want
          /\ \/ hd[i].slice.arr \in OwnNames /\ hd[i].slice.arr[2] \in Roots
             \/ /\ hd[i].slice.arr \in NewNames
                /\ \A j \in DOMAIN hd : j # i => hd[j].slice.arr # hd[i].slice.arr

AreKept(h, hd) ==
    /\ hd \in Seq(Kept) /\ Len(hd) <= MaxHeld
    /\ \A i \in DOMAIN hd : IsKept(h, hd, i)

ListsInv == IsHeap(heap) /\ AreKept(heap, held)

\* What is left of a heap when what nothing views is dropped.
LEMMA Collected ==
  ASSUME NEW h, IsHeap(h), NEW hd, InUse(hd) \subseteq DOMAIN h
  PROVE  /\ IsHeap(Collect(h, hd))
         /\ DOMAIN Collect(h, hd) = InUse(hd)
         /\ \A a \in InUse(hd) : Collect(h, hd)[a] = h[a]
<1> DEFINE g == Collect(h, hd)
<1>1. g = [a \in InUse(hd) |-> h[a]]
  BY DEF Collect, Restrict
<1>2. OwnNames \subseteq InUse(hd)
  BY DEF OwnNames, InUse
<1> HIDE DEF g
<1>3. DOMAIN g = InUse(hd) /\ \A a \in InUse(hd) : g[a] = h[a]
  BY <1>1
<1>4. IsHeap(g)
  <2>1. OwnNames \subseteq DOMAIN g /\ DOMAIN g \subseteq OwnNames \cup NewNames
    BY <1>2, <1>3 DEF IsHeap
  <2>2. IsFiniteSet(DOMAIN g)
    BY <1>3, FS_Subset DEF IsHeap
  <2>3. g \in [DOMAIN g -> Seq(Elements)]
    BY <1>1, <1>3 DEF IsHeap
  <2>4. ASSUME NEW k \in OwnNames PROVE g[k] = h[k]
    BY <1>2, <1>3
  <2> HIDE DEF OwnNames
  <2> QED BY <2>1, <2>2, <2>3, <2>4 DEF IsHeap
<1> QED BY <1>3, <1>4 DEF g

\* A slice of what is left is as it was.
LEMMA SliceCollected ==
  ASSUME NEW h, IsHeap(h), NEW hd, InUse(hd) \subseteq DOMAIN h,
         NEW s, IsSlice(h, s), s.arr \in InUse(hd)
  PROVE  IsSlice(Collect(h, hd), s) /\ Contents(Collect(h, hd), s) = Contents(h, s)
<1>1. Collect(h, hd)[s.arr] = h[s.arr] /\ s.arr \in DOMAIN Collect(h, hd)
  BY Collected
<1> QED BY <1>1 DEF IsSlice, Contents

\* What callers keep is as it was in what is left, when it views what they keep.
LEMMA KeptCollected ==
  ASSUME NEW h, IsHeap(h), NEW hd, AreKept(h, hd)
  PROVE  IsHeap(Collect(h, hd)) /\ AreKept(Collect(h, hd), hd)
<1>1. \A i \in DOMAIN hd : IsSlice(h, hd[i].slice) /\ hd[i].slice.arr \in DOMAIN h
  BY DEF AreKept, IsKept, IsSlice
<1>2. InUse(hd) \subseteq DOMAIN h
  BY <1>1 DEF InUse, IsHeap, OwnNames
<1>3. \A i \in DOMAIN hd : hd[i].slice.arr \in InUse(hd)
  BY DEF InUse
<1>4. ASSUME NEW i \in DOMAIN hd
      PROVE  /\ IsSlice(Collect(h, hd), hd[i].slice)
             /\ Contents(Collect(h, hd), hd[i].slice) = Contents(h, hd[i].slice)
  BY <1>1, <1>2, <1>3, SliceCollected
<1>5. \A i \in DOMAIN hd : IsKept(Collect(h, hd), hd, i)
  BY <1>4 DEF AreKept, IsKept
<1>6. IsHeap(Collect(h, hd))
  BY <1>2, Collected
<1> QED BY <1>5, <1>6 DEF AreKept

\* A slice of an array that a file holds has what the file holds.
LEMMA FileSlice ==
  ASSUME NEW h, IsHeap(h), NEW s, IsSlice(h, s), s.arr \in OwnNames, s.arr[2] \in Roots
  PROVE  Contents(h, s) = OwnList(s.arr) /\ s.len = Len(h[s.arr])
<1>1. /\ Len(h[s.arr]) = Len(OwnList(s.arr)) /\ Len(OwnList(s.arr)) \in Nat
      /\ SubSeq(h[s.arr], 1, Len(OwnList(s.arr))) = OwnList(s.arr)
  BY OwnType DEF IsHeap
<1>2. s.len \in Nat /\ s.len <= Len(h[s.arr]) /\ Len(OwnList(s.arr)) <= s.len
  BY DEF IsSlice
<1>3. s.len = Len(OwnList(s.arr))
  BY <1>1, <1>2
<1> QED BY <1>1, <1>3 DEF Contents

\* A slice stays a slice when its array does not get shorter.
LEMMA StaysSlice ==
  ASSUME NEW h, IsHeap(h), NEW g, IsHeap(g), NEW s, IsSlice(h, s),
         s.arr \in DOMAIN g, Len(h[s.arr]) <= Len(g[s.arr])
  PROVE  IsSlice(g, s)
<1>1. s \in [arr : DOMAIN h, len : Nat] /\ s.len <= Len(h[s.arr])
      /\ (s.arr \in OwnNames => Len(OwnList(s.arr)) <= s.len)
  BY DEF IsSlice
<1>2. Len(h[s.arr]) \in Nat /\ Len(g[s.arr]) \in Nat
  BY <1>1, LenProperties DEF IsHeap
<1>3. s \in [arr : DOMAIN g, len : Nat] /\ s.len <= Len(g[s.arr])
  BY <1>1, <1>2
<1> QED BY <1>1, <1>3 DEF IsSlice

\* What callers keep is as it was when a call comes to another heap.
LEMMA KeptStays ==
  ASSUME NEW h, NEW hd, AreKept(h, hd), NEW g, IsHeap(g), Keeps(h, g)
  PROVE  AreKept(g, hd)
<1>1. /\ IsHeap(h)
      /\ \A a \in DOMAIN h : /\ a \in DOMAIN g /\ Len(h[a]) <= Len(g[a])
                             /\ a \in NewNames => g[a] = h[a]
  BY DEF Keeps
<1>2. ASSUME NEW i \in DOMAIN hd PROVE IsKept(g, hd, i)
  <2> DEFINE s == hd[i].slice
  <2>1. /\ hd[i] \in Kept /\ IsSlice(h, s) /\ s.arr \in DOMAIN h
        /\ hd[i].of \in Roots =>
              /\ Contents(h, s) = hd[i].want
              /\ \/ s.arr \in OwnNames /\ s.arr[2] \in Roots
                 \/ /\ s.arr \in NewNames
                    /\ \A j \in DOMAIN hd : j # i => hd[j].slice.arr # s.arr
    BY DEF AreKept, IsKept, IsSlice
  <2>2. IsSlice(g, s)
    <3>1. s.arr \in DOMAIN g /\ Len(h[s.arr]) <= Len(g[s.arr])
      BY <1>1, <2>1
    <3> HIDE DEF s
    <3> QED BY <1>1, <2>1, <3>1, StaysSlice
  <2>3. ASSUME hd[i].of \in Roots PROVE Contents(g, s) = hd[i].want
    <3>1. CASE s.arr \in OwnNames /\ s.arr[2] \in Roots
      <4>1. Contents(g, s) = OwnList(s.arr) /\ Contents(h, s) = OwnList(s.arr)
        <5> HIDE DEF s
        <5> QED BY <1>1, <2>1, <2>2, <3>1, FileSlice
      <4> QED BY <2>1, <2>3, <4>1
    <3>2. CASE s.arr \in NewNames
      <4>1. g[s.arr] = h[s.arr]
        BY <1>1, <2>1, <3>2
      <4> QED BY <2>1, <2>3, <4>1 DEF Contents
    <3> QED BY <2>1, <2>3, <3>1, <3>2
  <2> QED BY <2>1, <2>2, <2>3 DEF IsKept
<1> QED BY <1>2 DEF AreKept

\* A caller that keeps what a call gives leaves what callers keep right.
LEMMA KeepStep ==
  ASSUME ListsInv, NEW sort \in Sorts, NEW p \in Holders, NEW out,
         NEW all \in BOOLEAN, IsGiven(heap, sort, p, out), Keep(out, p, sort, all)
  PROVE  ListsInv'
<1> DEFINE n == Len(held)
           k == [slice |-> out.slice, of |-> p, sort |-> sort, all |-> all,
                 want |-> Contents(out.heap, out.slice)]
           hd == Append(held, k)
           g == out.heap
<1>1. /\ n < MaxHeld /\ held' = hd /\ heap' = Collect(g, hd)
      /\ held \in Seq(Kept) /\ MaxHeld \in Nat
  BY BoundsAssumption DEF Keep, ListsInv, AreKept
<1>2. /\ AreKept(heap, held) /\ IsHeap(g) /\ Keeps(heap, g)
      /\ IsSlice(g, out.slice) /\ MayBeIn(heap, sort, p, out.slice.arr)
  BY DEF IsGiven, ListsInv
<1>3. k \in Kept
  BY <1>2, ContentsType DEF Kept
<1>4. k.slice = out.slice /\ k.of = p /\ k.want = Contents(g, out.slice)
  OBVIOUS
<1> HIDE DEF k
<1>5. /\ hd \in Seq(Kept) /\ n \in Nat /\ Len(hd) = n + 1 /\ hd[n + 1] = k
      /\ \A i \in 1..n : hd[i] = held[i]
      /\ DOMAIN hd = 1..(n + 1) /\ DOMAIN held = 1..n
  BY <1>1, <1>3
<1> HIDE DEF hd, n, g
<1>6. \A i \in 1..n : IsKept(heap, held, i) /\ held[i].slice.arr \in DOMAIN heap
  BY <1>5 DEF ListsInv, AreKept, IsKept, IsSlice
<1>7. ASSUME NEW i \in 1..n PROVE IsKept(g, hd, i)
  <2>1. AreKept(g, held)
    BY <1>2, KeptStays DEF g
  <2>2. IsKept(g, held, i)
    BY <1>5, <2>1 DEF AreKept
  <2>3. held[i].slice.arr \in NewNames => out.slice.arr # held[i].slice.arr
    <3>1. <<sort, p>> \in OwnNames
      BY DEF OwnNames
    <3> QED BY <1>2, <1>6, <3>1, NamesDiffer DEF MayBeIn
  <2>4. ASSUME NEW j \in 1..(n + 1), j # i
        PROVE  \/ j \in 1..n /\ hd[j] = held[j]
               \/ hd[j].slice.arr = out.slice.arr
    BY <1>4, <1>5
  <2> QED BY <1>5, <2>2, <2>3, <2>4 DEF IsKept
<1>8. IsKept(g, hd, n + 1)
  <2>1. \/ out.slice.arr \in OwnNames /\ (p \in Roots => out.slice.arr[2] \in Roots)
        \/ out.slice.arr \in NewNames \ DOMAIN heap
    <3>1. <<sort, p>> \in OwnNames /\ <<sort, p>>[2] = p
      BY DEF OwnNames
    <3> QED BY <1>2, <3>1 DEF MayBeIn
  <2>2. \A j \in 1..n : hd[j].slice.arr \in DOMAIN heap
    BY <1>5, <1>6
  <2>3. \A j \in 1..(n + 1) : j # n + 1 => j \in 1..n
    BY <1>5
  <2> QED BY <1>2, <1>3, <1>4, <1>5, <2>1, <2>2, <2>3 DEF IsKept, g
<1>9. AreKept(g, hd)
  <2>1. \A i \in 1..(n + 1) : IsKept(g, hd, i)
    <3>1. \A i \in 1..(n + 1) : i \in 1..n \/ i = n + 1
      BY <1>5
    <3> QED BY <1>7, <1>8, <3>1
  <2>2. n + 1 <= MaxHeld
    BY <1>1, <1>5 DEF n
  <2> QED BY <1>5, <2>1, <2>2 DEF AreKept
<1>10. IsHeap(Collect(g, hd)) /\ AreKept(Collect(g, hd), hd)
  BY <1>2, <1>9, KeptCollected DEF g
<1> QED BY <1>1, <1>10 DEF ListsInv, IsHeap, AreKept, IsKept, IsSlice, Contents

\* What is kept, with another slice and another want.
LEMMA KeptChanged ==
  ASSUME NEW r \in Kept, NEW s, NEW w
  PROVE  [r EXCEPT !.slice = s, !.want = w]
            = [slice |-> s, of |-> r.of, sort |-> r.sort, all |-> r.all, want |-> w]
<1>1. [r EXCEPT !.slice = s, !.want = w] = [[r EXCEPT !.slice = s] EXCEPT !.want = w]
  BY Zenon
<1>2. PICK a, b, c, e, d : r = [slice |-> a, of |-> b, sort |-> c, all |-> e, want |-> d]
  BY DEF Kept
<1>3. r.of = b /\ r.sort = c /\ r.all = e
  BY <1>2
<1>4. [r EXCEPT !.slice = s] = [slice |-> s, of |-> b, sort |-> c, all |-> e, want |-> d]
  BY <1>2
<1>5. \A t : t = [slice |-> s, of |-> b, sort |-> c, all |-> e, want |-> d]
               => [t EXCEPT !.want = w] = [slice |-> s, of |-> b, sort |-> c, all |-> e, want |-> w]
  OBVIOUS
<1>6. [[r EXCEPT !.slice = s] EXCEPT !.want = w] = [slice |-> s, of |-> b, sort |-> c, all |-> e, want |-> w]
  BY <1>4, <1>5, Zenon
<1> QED BY <1>1, <1>3, <1>6

\* A caller that appends to what it keeps leaves what callers keep right.
LEMMA ExtendStep ==
  ASSUME ListsInv, NEW i \in DOMAIN held, Extend(i)
  PROVE  ListsInv'
<1> DEFINE s == held[i].slice
           x == Extra[i]
           n == Len(held)
<1>1. PICK room \in 0..MaxRoom :
         LET out == AppendAll(heap, s, <<x>>, room)
         IN /\ held' = [held EXCEPT ![i].slice = out.slice, ![i].want = Append(@, x)]
            /\ heap' = Collect(out.heap, held')
  BY DEF Extend
<1> DEFINE out == AppendAll(heap, s, <<x>>, room)
           hd == [held EXCEPT ![i].slice = out.slice, ![i].want = Append(@, x)]
           g == out.heap
           k == [held[i] EXCEPT !.slice = out.slice, !.want = Append(held[i].want, x)]
<1>2. held' = hd /\ heap' = Collect(g, hd)
  BY <1>1
<1>3. /\ IsHeap(heap) /\ held \in Seq(Kept) /\ n \in Nat /\ n <= MaxHeld /\ DOMAIN held = 1..n
      /\ i \in 1..n /\ MaxHeld \in Nat
      /\ \A j \in 1..n : IsKept(heap, held, j) /\ held[j].slice.arr \in DOMAIN heap
  BY BoundsAssumption DEF ListsInv, AreKept, IsKept, IsSlice
<1>4. x \in Elements /\ <<x>> \in Seq(Elements)
  <2>1. i \in 1..MaxHeld
    BY <1>3
  <2>2. x \in Elements
    BY <2>1 DEF Elements
  <2> HIDE DEF x
  <2> QED BY <2>2
<1>5. IsAppended(heap, s, <<x>>, out)
  <2>1. IsSlice(heap, s) /\ room \in Nat
    BY <1>3, BoundsAssumption DEF IsKept
  <2> HIDE DEF s, x
  <2> QED BY <1>3, <1>4, <2>1, Appended
<1>6. /\ held[i] \in Kept /\ IsSlice(heap, s)
      /\ held[i] = [slice |-> s, of |-> held[i].of, sort |-> held[i].sort,
                     all |-> held[i].all, want |-> held[i].want]
      /\ held[i].of \in Holders /\ held[i].sort \in Sorts /\ held[i].all \in BOOLEAN
      /\ held[i].want \in Seq(Elements)
  <2>1. held[i] \in Kept /\ IsSlice(heap, s)
    BY <1>3 DEF IsKept
  <2> QED BY <2>1 DEF Kept
<1>7. /\ k.slice = out.slice /\ k.of = held[i].of /\ k.sort = held[i].sort /\ k.all = held[i].all
      /\ k.want = Append(held[i].want, x)
      /\ k = [slice |-> k.slice, of |-> k.of, sort |-> k.sort, all |-> k.all, want |-> k.want]
      /\ hd = [held EXCEPT ![i] = k]
  <2> HIDE DEF out
  <2>1. k = [slice |-> out.slice, of |-> held[i].of, sort |-> held[i].sort,
             all |-> held[i].all, want |-> Append(held[i].want, x)]
    <3> DEFINE r == held[i]
               w == Append(r.want, x)
    <3>1. r \in Kept
      BY <1>6
    <3> HIDE DEF r, w, x
    <3>2. [r EXCEPT !.slice = out.slice, !.want = w]
             = [slice |-> out.slice, of |-> r.of, sort |-> r.sort, all |-> r.all, want |-> w]
      BY <3>1, KeptChanged
    <3> QED BY <3>2 DEF r, w
  <2>2. hd = [held EXCEPT ![i] = k]
    BY <1>3
  <2> HIDE DEF k, hd
  <2> QED BY <2>1, <2>2
<1>8. /\ IsHeap(g) /\ IsSlice(g, out.slice)
      /\ DOMAIN g = DOMAIN heap \cup {out.slice.arr}
      /\ \A a \in DOMAIN heap : a # out.slice.arr => g[a] = heap[a]
      /\ \A a \in DOMAIN heap : Len(heap[a]) <= Len(g[a])
      /\ out.slice.arr = s.arr \/ out.slice.arr \in NewNames \ DOMAIN heap
      /\ Contents(g, out.slice) = Contents(heap, s) \o <<x>>
  <2> HIDE DEF out, s, x
  <2> QED BY <1>5 DEF IsAppended
<1> HIDE DEF hd, k, g, out
<1>9. k \in Kept
  <2>1. out.slice \in Slices
    BY <1>8, ContentsType
  <2>2. k.want \in Seq(Elements)
    <3> HIDE DEF x
    <3> QED BY <1>4, <1>6, <1>7, AppendProperties
  <2> QED BY <1>6, <1>7, <2>1, <2>2 DEF Kept
<1> HIDE DEF x, n
<1>10. /\ hd \in Seq(Kept) /\ Len(hd) = n /\ DOMAIN hd = 1..n /\ hd[i] = k
       /\ \A j \in 1..n : j # i => hd[j] = held[j]
  <2>1. hd \in [1..n -> Kept]
    BY <1>3, <1>7, <1>9 DEF n
  <2> QED BY <1>3, <1>7, <2>1 DEF n
<1>11. \A j \in 1..n : j # i => hd[j].slice.arr = held[j].slice.arr /\ hd[j].slice.arr \in DOMAIN heap
  BY <1>3, <1>10
<1>12. IsKept(g, hd, i)
  <2> SUFFICES ASSUME k.of \in Roots
               PROVE  /\ Contents(g, out.slice) = k.want
                      /\ out.slice.arr \in NewNames
                      /\ \A j \in 1..n : j # i => hd[j].slice.arr # out.slice.arr
    BY <1>7, <1>8, <1>9, <1>10 DEF IsKept
  <2>1. /\ Contents(heap, s) = held[i].want
        /\ \/ s.arr \in OwnNames /\ s.arr[2] \in Roots
           \/ /\ s.arr \in NewNames
              /\ \A j \in 1..n : j # i => held[j].slice.arr # s.arr
    BY <1>3, <1>7 DEF IsKept
  <2>2. Contents(g, out.slice) = k.want
    <3>1. k.want = held[i].want \o <<x>>
      <4> HIDE DEF s
      <4> QED BY <1>4, <1>6, <1>7, AppendIsConcat
    <3> QED BY <1>8, <2>1, <3>1
  <2>3. s.arr \in OwnNames /\ s.arr[2] \in Roots => out.slice.arr # s.arr
    <3> SUFFICES ASSUME s.arr \in OwnNames, s.arr[2] \in Roots, out.slice.arr = s.arr PROVE FALSE
      OBVIOUS
    <3>1. Contents(heap, s) = OwnList(s.arr) /\ Contents(g, out.slice) = OwnList(s.arr)
      <4>1. Contents(heap, s) = OwnList(s.arr)
        <5> HIDE DEF s
        <5> QED BY <1>3, <1>6, FileSlice
      <4>2. Contents(g, out.slice) = OwnList(out.slice.arr)
        BY <1>8, FileSlice
      <4> QED BY <4>1, <4>2
    <3>2. OwnList(s.arr) = OwnList(s.arr) \o <<x>> /\ OwnList(s.arr) \in Seq(Elements)
      BY <1>8, <3>1, OwnType
    <3> HIDE DEF s, OwnList
    <3>3. Len(OwnList(s.arr) \o <<x>>) = Len(OwnList(s.arr)) + 1 /\ Len(OwnList(s.arr)) \in Nat
      BY <1>4, <3>2, ConcatProperties, LenProperties
    <3> QED BY <3>2, <3>3
  <2>4. CASE out.slice.arr \in NewNames \ DOMAIN heap
    BY <1>11, <2>2, <2>4
  <2>5. CASE out.slice.arr = s.arr
    BY <1>10, <2>1, <2>2, <2>3, <2>5
  <2> QED BY <1>8, <2>4, <2>5
<1>13. ASSUME NEW j \in 1..n, j # i PROVE IsKept(g, hd, j)
  <2> DEFINE t == held[j].slice
  <2>1. /\ held[j] \in Kept /\ IsSlice(heap, t) /\ t.arr \in DOMAIN heap
        /\ held[j].of \in Roots =>
              /\ Contents(heap, t) = held[j].want
              /\ \/ t.arr \in OwnNames /\ t.arr[2] \in Roots
                 \/ /\ t.arr \in NewNames
                    /\ \A l \in 1..n : l # j => held[l].slice.arr # t.arr
    BY <1>3 DEF IsKept
  <2>2. hd[j] = held[j]
    BY <1>10, <1>13
  <2>3. IsSlice(g, t)
    <3>1. t.arr \in DOMAIN g /\ Len(heap[t.arr]) <= Len(g[t.arr])
      BY <1>8, <2>1
    <3> HIDE DEF t
    <3> QED BY <1>3, <1>8, <2>1, <3>1, StaysSlice
  <2>4. ASSUME held[j].of \in Roots
        PROVE  /\ Contents(g, t) = held[j].want
               /\ \/ t.arr \in OwnNames /\ t.arr[2] \in Roots
                  \/ /\ t.arr \in NewNames
                     /\ \A l \in 1..n : l # j => hd[l].slice.arr # t.arr
    <3>1. CASE t.arr \in OwnNames /\ t.arr[2] \in Roots
      <4>1. Contents(g, t) = OwnList(t.arr) /\ Contents(heap, t) = OwnList(t.arr)
        <5> HIDE DEF t
        <5> QED BY <1>3, <1>8, <2>1, <2>3, <3>1, FileSlice
      <4> QED BY <2>1, <2>4, <3>1, <4>1
    <3>2. CASE t.arr \in NewNames /\ \A l \in 1..n : l # j => held[l].slice.arr # t.arr
      <4>1. out.slice.arr # t.arr
        BY <1>3, <1>8, <1>13, <2>1, <3>2
      <4>2. g[t.arr] = heap[t.arr]
        BY <1>8, <2>1, <4>1
      <4>3. ASSUME NEW l \in 1..n, l # j PROVE hd[l].slice.arr # t.arr
        <5>1. CASE l = i
          BY <1>7, <1>10, <4>1, <5>1
        <5>2. CASE l # i
          BY <1>11, <3>2, <4>3, <5>2
        <5> QED BY <5>1, <5>2
      <4> QED BY <2>1, <2>4, <3>2, <4>2, <4>3 DEF Contents
    <3> QED BY <2>1, <2>4, <3>1, <3>2
  <2> QED BY <1>10, <2>1, <2>2, <2>3, <2>4 DEF IsKept
<1>14. AreKept(g, hd)
  BY <1>3, <1>10, <1>12, <1>13 DEF AreKept
<1>15. IsHeap(Collect(g, hd)) /\ AreKept(Collect(g, hd), hd)
  BY <1>8, <1>14, KeptCollected
<1> QED BY <1>2, <1>15 DEF ListsInv, IsHeap, AreKept, IsKept, IsSlice, Contents

\* At first there is room behind the lists of messages only, and nobody keeps a slice.
LEMMA ListsStart == ListsInit => ListsInv
<1> SUFFICES ASSUME ListsInit PROVE ListsInv
  OBVIOUS
<1>1. PICK room \in [Growing -> 0..MaxRoom] :
         /\ \A k \in Growing : room[k] \in RoomBehind(k[2], k[1])
         /\ heap = [k \in Sorts \X Holders |->
                      Own[k[1]][k[2]] \o Room(IF k \in Growing THEN room[k] ELSE 0)]
  BY DEF ListsInit
<1> DEFINE behind(k) == IF k \in Growing THEN room[k] ELSE 0
<1>2. heap = [k \in OwnNames |-> OwnList(k) \o Room(behind(k))]
  BY <1>1 DEF OwnNames, OwnList
<1>3. ASSUME NEW k \in OwnNames
      PROVE  /\ behind(k) \in Nat
             /\ k[2] \in Roots => behind(k) = 0
  <2>1. k \in Growing => room[k] \in 0..MaxRoom /\ room[k] \in RoomBehind(k[2], k[1])
    BY <1>1
  <2>2. k[2] \in Roots => RoomBehind(k[2], k[1]) = {0}
    BY DEF RoomBehind
  <2> QED BY <2>1, <2>2, BoundsAssumption
<1>4. ASSUME NEW k \in OwnNames
      PROVE  /\ heap[k] \in Seq(Elements)
             /\ Len(OwnList(k)) <= Len(heap[k])
             /\ SubSeq(heap[k], 1, Len(OwnList(k))) = OwnList(k)
             /\ k[2] \in Roots => Len(heap[k]) = Len(OwnList(k))
  <2> DEFINE l == OwnList(k)
             b == behind(k)
             r == Room(b)
  <2>1. b \in Nat /\ (k[2] \in Roots => b = 0)
    BY <1>3
  <2>2. l \in Seq(Elements) /\ Len(l) \in Nat /\ l = SubSeq(l, 1, Len(l))
    BY OwnType
  <2>3. heap[k] = l \o r
    BY <1>2
  <2> HIDE DEF l, b
  <2>4. r \in Seq(Elements) /\ Len(r) = b
    <3>1. r \in Seq(Elements)
      BY <2>1, RoomType
    <3> QED BY <2>1, <3>1 DEF Room
  <2> HIDE DEF r
  <2>5. heap[k] \in Seq(Elements) /\ Len(heap[k]) = Len(l) + b
    BY <2>2, <2>3, <2>4, ConcatProperties
  <2>6. SubSeq(heap[k], 1, Len(l)) = SubSeq(l, 1, Len(l))
    <3> DEFINE m == Len(l)
    <3>1. m \in 0..Len(l)
      BY <2>2
    <3> HIDE DEF m
    <3>2. SubSeq(l \o r, 1, m) = SubSeq(l, 1, m)
      BY <2>2, <2>4, <3>1, BeginningOfConcat
    <3> QED BY <2>3, <3>2 DEF m
  <2>7. Len(l) <= Len(heap[k]) /\ (k[2] \in Roots => Len(heap[k]) = Len(l))
    <3>1. b \in Nat /\ Len(l) \in Nat /\ Len(heap[k]) = Len(l) + b
      BY <2>1, <2>2, <2>5
    <3>2. Len(l) <= Len(heap[k])
      BY <3>1
    <3>3. b = 0 => Len(heap[k]) = Len(l)
      BY <3>1
    <3> QED BY <2>1, <3>2, <3>3
  <2>8. SubSeq(heap[k], 1, Len(l)) = l
    BY <2>2, <2>6, Zenon
  <2> QED BY <2>5, <2>7, <2>8, Zenon DEF l
<1>5. IsHeap(heap)
  <2>1. DOMAIN heap = OwnNames /\ heap = [k \in OwnNames |-> heap[k]]
    BY <1>2
  <2>2. IsFiniteSet(OwnNames)
    <3>1. IsFiniteSet(Sorts)
      <4>1. IsFiniteSet({}) /\ IsFiniteSet({} \cup {"enums"}) /\ IsFiniteSet({} \cup {"enums"} \cup {"msgs"})
        BY FS_EmptySet, FS_AddElement
      <4>2. Sorts = {} \cup {"enums"} \cup {"msgs"}
        BY DEF Sorts
      <4> QED BY <4>1, <4>2
    <3> QED BY <3>1, NestingAssumption, FS_Product DEF OwnNames
  <2>3. heap \in [OwnNames -> Seq(Elements)]
    BY <1>4, <2>1
  <2> QED BY <1>4, <2>1, <2>2, <2>3 DEF IsHeap
<1>6. AreKept(heap, held)
  <2>1. held = <<>>
    BY DEF ListsInit
  <2> QED BY <2>1, BoundsAssumption DEF AreKept
<1> QED BY <1>5, <1>6 DEF ListsInv

\* No step makes what callers keep wrong, or what entities hold.
LEMMA ListsStep == ListsInv /\ [Next]_vars => ListsInv'
<1> SUFFICES ASSUME ListsInv, [Next]_vars PROVE ListsInv'
  OBVIOUS
<1>1. ASSUME NEW p \in Holders, NEW sort \in Sorts, AskOwn(p, sort) PROVE ListsInv'
  <2> DEFINE out == [heap |-> heap, slice |-> OwnSlice(p, sort)]
  <2>1. out.heap = heap /\ out.slice = OwnSlice(p, sort) /\ Keep(out, p, sort, FALSE)
    BY <1>1 DEF AskOwn
  <2>2. Keeps(heap, heap)
    <3>1. \A a \in DOMAIN heap : Len(heap[a]) \in Nat
      BY LenProperties DEF IsHeap, ListsInv
    <3> QED BY <3>1 DEF Keeps, ListsInv
  <2> HIDE DEF out
  <2>3. IsGiven(heap, sort, p, out)
    BY <2>1, <2>2, OwnSliceIs DEF IsGiven, MayBeIn, ListsInv
  <2> QED BY <2>1, <2>3, KeepStep
<1>2. ASSUME NEW p \in Holders, NEW sort \in Sorts, AskAll(p, sort) PROVE ListsInv'
  <2>1. PICK room \in 0..MaxRoom : Keep(All(heap, p, sort, room), p, sort, TRUE)
    BY <1>2 DEF AskAll
  <2>2. IsGiven(heap, sort, p, All(heap, p, sort, room))
    BY AllIs, BoundsAssumption DEF ListsInv
  <2> QED BY <2>1, <2>2, KeepStep
<1>3. ASSUME NEW f \in FileIds, UnusedImports(f) PROVE ListsInv'
  <2>1. PICK room \in 0..MaxRoom, root \in Roots :
           heap' = Collect(All(heap, root, "msgs", room).heap, held)
    BY <1>3 DEF UnusedImports
  <2> DEFINE out == All(heap, root, "msgs", room)
  <2>2. IsGiven(heap, "msgs", root, out)
    <3>1. root \in Holders /\ room \in Nat /\ "msgs" \in Sorts
      BY OwnAssumption, BoundsAssumption DEF Sorts
    <3> QED BY <3>1, AllIs DEF ListsInv
  <2> HIDE DEF out
  <2>3. AreKept(out.heap, held) /\ IsHeap(out.heap)
    BY <2>2, KeptStays DEF IsGiven, ListsInv
  <2>4. IsHeap(Collect(out.heap, held)) /\ AreKept(Collect(out.heap, held), held)
    BY <2>3, KeptCollected
  <2>5. heap' = Collect(out.heap, held) /\ held' = held
    BY <1>3, <2>1 DEF UnusedImports, out
  <2> QED BY <2>4, <2>5 DEF ListsInv, IsHeap, AreKept, IsKept, IsSlice, Contents
<1>4. CASE heap' = heap /\ held' = held
  BY <1>4 DEF ListsInv, IsHeap, AreKept, IsKept, IsSlice, Contents
<1>5. CASE Lists
  BY <1>1, <1>2, <1>5, ExtendStep DEF Lists, ListsNext
<1> QED BY <1>3, <1>4, <1>5 DEF Next, Dependents, vars

\* entity.go (ParentEntity), file.go:85-103: however deep messages nest, however many
\* callers ask for lists, append to what they got and ask again, and whatever room the
\* runtime leaves behind what it moves, the lists of entities stay as hydrated, and what
\* a caller got from a file stays what it was and what that caller appended.
THEOREM ListsCorrect == Spec => []ListsStay
<1>1. Init => ListsInv
  BY ListsStart DEF Init
<1>2. ListsInv => ListsStay
  <2> SUFFICES ASSUME ListsInv PROVE ListsStay
    OBVIOUS
  <2>1. \A p \in Holders, sort \in Sorts : Contents(heap, OwnSlice(p, sort)) = Own[sort][p]
    BY OwnSliceIs DEF ListsInv
  <2>2. \A i \in DOMAIN held : held[i].of \in Roots => Contents(heap, held[i].slice) = held[i].want
    BY DEF ListsInv, AreKept, IsKept
  <2> QED BY <2>1, <2>2 DEF ListsStay
<1> QED BY <1>1, <1>2, ListsStep, PTL DEF Spec

-----------------------------------------------------------------------------
(* What AllEnums and AllMessages find.                                     *)

\* What is nested in q at any depth is what is nested in it, and what is nested in that.
LEMMA BelowIs ==
  \A q \in Holders : /\ Below[q] = Nested(q) \cup UNION {Below[m] : m \in Nested(q)}
                     /\ Below[q] \in SUBSET Holders
<1> DEFINE X == SUBSET Holders
           needs == [q \in Holders |-> Nested(q)]
           all(q, h) == Nested(q) \cup UNION {h[m] : m \in Nested(q)}
           step == [q \in Holders |-> [h \in [Holders -> X] |-> all(q, h)]]
           F(h) == h = [q \in Holders |-> all(q, h)]
           chosen == CHOOSE h : F(h)
<1>1. Below = chosen
  BY DEF Below, Nested
<1>2. ASSUME NEW q \in Holders, NEW h, \A m \in Nested(q) : h[m] \in X PROVE all(q, h) \in X
  <2>1. Nested(q) \in X
    BY NestingNoCycle
  <2> QED BY <1>2, <2>1
<1>3. MadeOfNeeds(Holders, needs, X, step)
  <2>1. step \in [Holders -> [[Holders -> X] -> X]]
    <3>1. \A q \in Holders, h \in [Holders -> X] : \A m \in Nested(q) : h[m] \in X
      BY NestingNoCycle
    <3> HIDE DEF all, X
    <3>2. \A q \in Holders, h \in [Holders -> X] : all(q, h) \in X
      BY <1>2, <3>1
    <3> QED BY <3>2
  <2>2. ASSUME NEW q \in Holders, NEW h \in [Holders -> X], NEW j \in [Holders -> X],
               \A k \in needs[q] : h[k] = j[k]
        PROVE  step[q][h] = step[q][j]
    <3>1. {h[m] : m \in Nested(q)} = {j[m] : m \in Nested(q)}
      BY <2>2
    <3>2. all(q, h) = all(q, j)
      BY <3>1
    <3> HIDE DEF all, X
    <3> QED BY <3>2
  <2> HIDE DEF step, needs, X
  <2> QED BY <2>1, <2>2 DEF MadeOfNeeds
<1>4. PICK h \in [Holders -> X] : \A q \in Holders : h[q] = step[q][h]
  <2>1. X # {}
    OBVIOUS
  <2>2. NoCycle(Holders, needs)
    BY NestingNoCycle
  <2> HIDE DEF step, needs, X
  <2>3. Solutions(Holders, X, step) # {}
    BY <1>3, <2>1, <2>2, Recursive
  <2> QED BY <2>3 DEF Solutions
<1>5. h \in [Holders -> X] /\ F(h)
  <2> HIDE DEF all, X
  <2>1. \A q \in Holders : h[q] = all(q, h)
    BY <1>4
  <2> QED BY <2>1
<1>6. F(chosen)
  <2> HIDE DEF F
  <2> QED BY <1>5
<1>7. \A q \in Holders : chosen[q] = all(q, chosen)
  <2> HIDE DEF all, chosen
  <2> QED BY <1>6
<1> DEFINE Bad == {q \in Holders : chosen[q] \notin X}
<1>8. Bad = {}
  <2> SUFFICES ASSUME Bad # {} PROVE FALSE
    OBVIOUS
  <2>1. PICK q \in Bad : Nested(q) \cap Bad = {}
    <3> HIDE DEF Bad
    <3>1. Bad \in (SUBSET Holders) \ {{}}
      BY DEF Bad
    <3> QED BY <3>1, NestingAssumption DEF Nested
  <2>2. \A k \in Nested(q) : chosen[k] \in X
    <3> HIDE DEF chosen, X
    <3> QED BY <2>1, NestingNoCycle
  <2> HIDE DEF all, chosen, X
  <2>3. all(q, chosen) \in X
    BY <1>2, <2>2
  <2> QED BY <1>7, <2>1, <2>3
<1> HIDE DEF chosen
<1> QED BY <1>1, <1>7, <1>8

\* A holder and what is nested in it at any depth.
Sub(q) == {q} \cup Below[q]

\* What is nested at any depth is in what is nested in something directly.
LEMMA BelowSub ==
  \A q \in Holders : /\ Below[q] = UNION {Sub(m) : m \in Nested(q)}
                     /\ Sub(q) \in SUBSET Holders
                     /\ \A m \in Nested(q) : m \in Holders /\ Sub(m) \subseteq Below[q]
<1> SUFFICES ASSUME NEW q \in Holders
             PROVE  /\ Below[q] = UNION {Sub(m) : m \in Nested(q)}
                    /\ Sub(q) \in SUBSET Holders
                    /\ \A m \in Nested(q) : m \in Holders /\ Sub(m) \subseteq Below[q]
  OBVIOUS
<1>1. Below[q] = Nested(q) \cup UNION {Below[m] : m \in Nested(q)}
      /\ Below[q] \in SUBSET Holders /\ Nested(q) \in SUBSET Holders
  BY BelowIs, NestingNoCycle
<1>2. UNION {Sub(m) : m \in Nested(q)} = Nested(q) \cup UNION {Below[m] : m \in Nested(q)}
  BY DEF Sub
<1> QED BY <1>1, <1>2 DEF Sub

\* Of some holders one has none of the others nested in it directly.
LEMMA Innermost ==
  ASSUME NEW S \in SUBSET Holders, S # {}
  PROVE  \E q \in S : Nested(q) \cap S = {}
BY NestingAssumption DEF Nested

\* What is nested in what is nested is nested.
LEMMA BelowBelow ==
  \A q \in Holders : \A r \in Sub(q) : r \in Holders /\ Below[r] \subseteq Below[q]
<1> DEFINE Bad == {q \in Holders : ~\A r \in Sub(q) : r \in Holders /\ Below[r] \subseteq Below[q]}
<1> SUFFICES ASSUME Bad # {} PROVE FALSE
  OBVIOUS
<1>1. PICK q \in Bad : Nested(q) \cap Bad = {}
  BY Innermost
<1>2. ASSUME NEW r \in Sub(q) PROVE r \in Holders /\ Below[r] \subseteq Below[q]
  <2>1. CASE r = q
    BY <2>1
  <2>2. CASE r \in Below[q]
    <3>1. PICK m \in Nested(q) : r \in Sub(m)
      BY <2>2, BelowSub
    <3>2. m \in Holders /\ m \notin Bad /\ Sub(m) \subseteq Below[q]
      BY <1>1, BelowSub
    <3>3. r \in Holders /\ Below[r] \subseteq Below[m]
      BY <3>1, <3>2
    <3> QED BY <3>2, <3>3 DEF Sub
  <2> QED BY <2>1, <2>2 DEF Sub
<1> QED BY <1>1, <1>2

\* What is nested at any depth is nested directly in the holder or in something there.
LEMMA HasParent ==
  \A q \in Holders : \A m \in Below[q] : \E p \in Sub(q) : m \in Nested(p)
<1> DEFINE Bad == {q \in Holders : ~\A m \in Below[q] : \E p \in Sub(q) : m \in Nested(p)}
<1> SUFFICES ASSUME Bad # {} PROVE FALSE
  OBVIOUS
<1>1. PICK q \in Bad : Nested(q) \cap Bad = {}
  BY Innermost
<1>2. ASSUME NEW m \in Below[q] PROVE \E p \in Sub(q) : m \in Nested(p)
  <2>1. PICK k \in Nested(q) : m \in Sub(k)
    BY BelowSub
  <2>2. k \in Holders /\ k \notin Bad /\ Sub(k) \subseteq Below[q]
    BY <1>1, BelowSub
  <2>3. CASE m = k
    BY <2>3 DEF Sub
  <2>4. CASE m \in Below[k]
    BY <2>2, <2>4 DEF Sub
  <2> QED BY <2>1, <2>3, <2>4 DEF Sub
<1> QED BY <1>1, <1>2

\* Each message is nested in one place of one holder.
LEMMA OnePlace ==
  /\ \A p, q \in Holders : Nested(p) \cap Nested(q) # {} => p = q
  /\ \A q \in Holders : \A i, j \in DOMAIN Own["msgs"][q] :
        Own["msgs"][q][i] = Own["msgs"][q][j] => i = j
<1>1. \A p, q \in Holders : \A i \in DOMAIN Own["msgs"][p], j \in DOMAIN Own["msgs"][q] :
         Own["msgs"][p][i] = Own["msgs"][q][j] => p = q /\ i = j
  BY NestingAssumption DEF Sorts
<1> QED BY <1>1 DEF Nested, ToSet

\* Nothing is nested in itself.
LEMMA NotBelow == \A q \in Holders : q \notin Below[q]
<1> DEFINE Bad == {q \in Holders : q \in Below[q]}
<1> SUFFICES ASSUME Bad # {} PROVE FALSE
  OBVIOUS
<1>1. PICK q \in Bad : Nested(q) \cap Bad = {}
  BY Innermost
<1>2. PICK m \in Nested(q) : q \in Sub(m)
  BY BelowSub
<1>3. m \in Holders /\ m \notin Bad /\ m \in Below[q]
  BY <1>1, BelowSub DEF Sub
<1>4. CASE q = m
  BY <1>3, <1>4
<1>5. CASE q \in Below[m]
  <2>1. Below[q] \subseteq Below[m]
    BY <1>3, <1>5, BelowBelow DEF Sub
  <2> QED BY <1>3, <2>1
<1> QED BY <1>2, <1>4, <1>5 DEF Sub

\* Of two holders that have something in common one is nested in the other.
LEMMA Comparable ==
  \A q, r \in Holders : Sub(q) \cap Sub(r) # {} => q \in Sub(r) \/ r \in Sub(q)
<1> DEFINE Bad == {q \in Holders : ~\A r \in Holders : Sub(q) \cap Sub(r) # {} => q \in Sub(r) \/ r \in Sub(q)}
<1> SUFFICES ASSUME Bad # {} PROVE FALSE
  OBVIOUS
<1>1. PICK q \in Bad : Nested(q) \cap Bad = {}
  BY Innermost
<1>2. ASSUME NEW r \in Holders, Sub(q) \cap Sub(r) # {} PROVE q \in Sub(r) \/ r \in Sub(q)
  <2>1. PICK x : x \in Sub(q) /\ x \in Sub(r)
    BY <1>2
  <2>2. CASE x = q
    BY <2>1, <2>2
  <2>3. CASE x \in Below[q]
    <3>1. PICK m \in Nested(q) : x \in Sub(m)
      BY <2>3, BelowSub
    <3>2. m \in Holders /\ m \notin Bad /\ Sub(m) \subseteq Below[q]
      BY <1>1, BelowSub
    <3>3. m \in Sub(r) \/ r \in Sub(m)
      BY <2>1, <3>1, <3>2
    <3>4. CASE r \in Sub(m)
      BY <3>2, <3>4 DEF Sub
    <3>5. CASE m = r
      BY <3>2, <3>5 DEF Sub
    <3>6. CASE m \in Below[r]
      <4>1. PICK p \in Sub(r) : m \in Nested(p)
        BY <3>6, HasParent
      <4>2. p \in Holders
        BY BelowSub
      <4>3. p = q
        BY <4>1, <4>2, OnePlace
      <4> QED BY <4>1, <4>3
    <3> QED BY <3>3, <3>4, <3>5, <3>6 DEF Sub
  <2> QED BY <2>1, <2>2, <2>3 DEF Sub
<1> QED BY <1>1, <1>2

\* What is nested in two messages of one holder is not the same.
LEMMA Siblings ==
  ASSUME NEW q \in Holders, NEW i \in DOMAIN Own["msgs"][q], NEW j \in DOMAIN Own["msgs"][q], i # j
  PROVE  Sub(Own["msgs"][q][i]) \cap Sub(Own["msgs"][q][j]) = {}
<1> SUFFICES ASSUME NEW m, NEW k, m \in Nested(q), k \in Nested(q), m # k,
                    Sub(m) \cap Sub(k) # {}, m \in Sub(k)
             PROVE  FALSE
  <2> DEFINE m == Own["msgs"][q][i]
             k == Own["msgs"][q][j]
  <2>1. m \in Nested(q) /\ k \in Nested(q)
    BY DEF Nested, ToSet
  <2>2. m # k
    BY OnePlace
  <2>3. m \in Holders /\ k \in Holders
    BY <2>1, BelowSub
  <2>4. Sub(m) \cap Sub(k) # {} => m \in Sub(k) \/ k \in Sub(m)
    BY <2>3, Comparable
  <2> HIDE DEF m, k
  <2>5. Sub(m) \cap Sub(k) = {}
    BY <2>1, <2>2, <2>4
  <2> QED BY <2>5 DEF m, k
<1>1. m \in Below[k] /\ k \in Holders /\ Sub(k) \subseteq Below[q]
  BY BelowSub DEF Sub
<1>2. PICK p \in Sub(k) : m \in Nested(p)
  BY <1>1, HasParent
<1>3. p \in Holders
  BY <1>1, BelowSub
<1>4. p = q
  BY <1>2, <1>3, OnePlace
<1> QED BY <1>1, <1>2, <1>4, NotBelow

\* What the holders of R hold of a sort.
HeldBy(sort, R) == UNION {ToSet(Own[sort][r]) : r \in R}

\* A list of what they hold, each once.
IsListOf(sort, R, s) ==
    s \in Seq(Elements) /\ ToSet(s) = HeldBy(sort, R) /\ IsInjective(s)

\* Lists of different holders have nothing in common.
LEMMA HeldApart ==
  ASSUME NEW sort \in Sorts, NEW R \in SUBSET Holders, NEW S \in SUBSET Holders, R \cap S = {}
  PROVE  HeldBy(sort, R) \cap HeldBy(sort, S) = {}
<1>1. \A p, q \in Holders : \A i \in DOMAIN Own[sort][p], j \in DOMAIN Own[sort][q] :
         Own[sort][p][i] = Own[sort][q][j] => p = q
  BY NestingAssumption
<1>2. \A p, q \in Holders : ToSet(Own[sort][p]) \cap ToSet(Own[sort][q]) # {} => p = q
  BY <1>1 DEF ToSet
<1> QED BY <1>2 DEF HeldBy

\* A holder's own list has each once.
LEMMA OwnOnce ==
  ASSUME NEW sort \in Sorts, NEW q \in Holders
  PROVE  IsListOf(sort, {q}, Own[sort][q])
<1>1. Own[sort][q] \in Seq(Elements)
  <2>1. Own[sort][q] \in Seq(Holders \cup Enums) /\ Holders \cup Enums \subseteq Elements
    BY OwnType
  <2> HIDE DEF Elements
  <2> QED BY <2>1, SeqMonotonic
<1>2. IsInjective(Own[sort][q])
  BY NestingAssumption DEF IsInjective
<1>3. HeldBy(sort, {q}) = ToSet(Own[sort][q])
  BY DEF HeldBy
<1> QED BY <1>1, <1>2, <1>3 DEF IsListOf

\* Two sequences that have each once and nothing in common.
LEMMA OnceConcat ==
  ASSUME NEW X, NEW s \in Seq(X), NEW t \in Seq(X), IsInjective(s), IsInjective(t),
         ToSet(s) \cap ToSet(t) = {}
  PROVE  IsInjective(s \o t)
<1> DEFINE c == s \o t
<1>1. /\ DOMAIN s = 1..Len(s) /\ DOMAIN t = 1..Len(t) /\ DOMAIN c = 1..(Len(s) + Len(t))
      /\ Len(s) \in Nat /\ Len(t) \in Nat
      /\ \A i \in 1..Len(s) : c[i] = s[i]
      /\ \A i \in (Len(s) + 1)..(Len(s) + Len(t)) : c[i] = t[i - Len(s)]
  BY ConcatProperties, LenProperties
<1> HIDE DEF c
<1> SUFFICES ASSUME NEW i \in DOMAIN c, NEW j \in DOMAIN c, c[i] = c[j] PROVE i = j
  BY DEF IsInjective, c
<1>2. \A l \in DOMAIN c : \/ l \in DOMAIN s /\ c[l] = s[l]
                          \/ l - Len(s) \in DOMAIN t /\ c[l] = t[l - Len(s)] /\ l \in Nat
  BY <1>1
<1>3. CASE i \in DOMAIN s /\ c[i] = s[i]
  <2>1. j \in DOMAIN s /\ c[j] = s[j]
    <3>1. \A l \in DOMAIN t : t[l] # s[i]
      BY <1>3 DEF ToSet
    <3> QED BY <1>2, <1>3, <3>1
  <2> QED BY <1>3, <2>1 DEF IsInjective
<1>4. CASE i - Len(s) \in DOMAIN t /\ c[i] = t[i - Len(s)] /\ i \in Nat
  <2>1. j - Len(s) \in DOMAIN t /\ c[j] = t[j - Len(s)] /\ j \in Nat
    <3>1. \A l \in DOMAIN s : s[l] # t[i - Len(s)]
      BY <1>4 DEF ToSet
    <3> QED BY <1>2, <1>4, <3>1
  <2>2. i - Len(s) = j - Len(s)
    BY <1>4, <2>1 DEF IsInjective
  <2> QED BY <1>1, <1>4, <2>1, <2>2
<1> QED BY <1>2, <1>3, <1>4

\* Lists of different holders, one after the other, are a list of both.
LEMMA ListConcat ==
  ASSUME NEW sort \in Sorts, NEW R \in SUBSET Holders, NEW S \in SUBSET Holders, R \cap S = {},
         NEW s, IsListOf(sort, R, s), NEW t, IsListOf(sort, S, t)
  PROVE  IsListOf(sort, R \cup S, s \o t)
<1>1. s \in Seq(Elements) /\ t \in Seq(Elements) /\ IsInjective(s) /\ IsInjective(t)
      /\ ToSet(s) = HeldBy(sort, R) /\ ToSet(t) = HeldBy(sort, S)
  BY DEF IsListOf
<1>2. ToSet(s) \cap ToSet(t) = {}
  BY <1>1, HeldApart
<1>3. s \o t \in Seq(Elements) /\ ToSet(s \o t) = ToSet(s) \cup ToSet(t)
  BY <1>1, ConcatProperties, ToSetConcat
<1>4. IsInjective(s \o t)
  BY <1>1, <1>2, OnceConcat
<1>5. HeldBy(sort, R \cup S) = HeldBy(sort, R) \cup HeldBy(sort, S)
  BY DEF HeldBy
<1> QED BY <1>1, <1>3, <1>4, <1>5 DEF IsListOf

\* The holder and what there is below its first k messages.
SoFar(q, k) == {q} \cup UNION {Sub(Own["msgs"][q][j]) : j \in 1..k}

\* The message m comes next in q after k others: it has nothing in common with them, nor
\* with those after it.
IsNext(q, k, m) ==
    /\ m \in Nested(q) /\ m \in Holders /\ Sub(m) \in SUBSET Holders
    /\ Sub(m) \subseteq Below[q]
    /\ q \notin Sub(m) /\ SoFar(q, k) \in SUBSET Holders /\ SoFar(q, k) \cap Sub(m) = {}
    /\ SoFar(q, k + 1) = SoFar(q, k) \cup Sub(m)
    /\ \A j \in (k + 2)..Len(Own["msgs"][q]) :
          q \notin Sub(Own["msgs"][q][j]) /\ Sub(Own["msgs"][q][j]) \cap Sub(m) = {}

\* The messages nested in q, one after the other.
LEMMA SoFarIs ==
  ASSUME NEW q \in Holders, NEW k \in Nat, k < Len(Own["msgs"][q]),
         NEW m, m = Own["msgs"][q][k + 1]
  PROVE  IsNext(q, k, m)
<1> DEFINE ms == Own["msgs"][q]
<1>1. ms \in Seq(Holders) /\ Len(ms) \in Nat /\ DOMAIN ms = 1..Len(ms)
  BY OwnType
<1>2. k + 1 \in DOMAIN ms /\ 1..k \subseteq DOMAIN ms /\ (k + 2)..Len(ms) \subseteq DOMAIN ms
      /\ 1..(k + 1) = (1..k) \cup {k + 1}
  BY <1>1
<1>3. \A j \in DOMAIN ms : ms[j] \in Nested(q)
  BY DEF Nested, ToSet
<1>4. \A j \in DOMAIN ms : /\ ms[j] \in Holders /\ Sub(ms[j]) \in SUBSET Holders
                           /\ Sub(ms[j]) \subseteq Below[q] /\ q \notin Sub(ms[j])
  BY <1>3, BelowSub, NotBelow
<1>5. \A j \in DOMAIN ms : j # k + 1 => Sub(ms[j]) \cap Sub(m) = {}
  BY <1>2, Siblings
<1> HIDE DEF ms
<1>6. SoFar(q, k) = {q} \cup UNION {Sub(ms[j]) : j \in 1..k}
      /\ SoFar(q, k + 1) = {q} \cup UNION {Sub(ms[j]) : j \in 1..(k + 1)}
  BY DEF SoFar, ms
<1>7. m = ms[k + 1]
  BY DEF ms
<1>8. SoFar(q, k) \in SUBSET Holders /\ SoFar(q, k) \cap Sub(m) = {}
  <2>1. \A j \in 1..k : j \in DOMAIN ms /\ j # k + 1
    BY <1>2
  <2> QED BY <1>2, <1>4, <1>5, <1>6, <1>7, <2>1
<1>9. SoFar(q, k + 1) = SoFar(q, k) \cup Sub(m)
  BY <1>2, <1>6, <1>7
<1>10. \A j \in (k + 2)..Len(ms) : q \notin Sub(ms[j]) /\ Sub(ms[j]) \cap Sub(m) = {}
  <2>1. \A j \in (k + 2)..Len(ms) : j \in DOMAIN ms /\ j # k + 1
    BY <1>2
  <2> QED BY <1>4, <1>5, <2>1
<1> QED BY <1>2, <1>3, <1>4, <1>7, <1>8, <1>9, <1>10 DEF ms, IsNext

\* Where a call for q has come to, from o, with the results for its first k messages.
IsSoFar(h, sort, q, o, k, t) ==
    /\ t \in States(h, sort)
    /\ IsListOf(sort, SoFar(q, k), Got(t)[q])
    /\ \A j \in (k + 1)..Len(Own["msgs"][q]) :
          \A r \in Sub(Own["msgs"][q][j]) : Got(t)[r] = Own[sort][r]
    /\ \A r \in Holders \ Sub(q) : Got(t)[r] = Got(o)[r]

\* Nothing has been appended to the slices of q and of what is nested in it.
IsFresh(sort, q, o) == \A r \in Sub(q) : Got(o)[r] = Own[sort][r]

\* A call for q finds all that there is in q, and appends to nothing else's slice.
IsComplete(h, sort, room, q) ==
    \A o \in States(h, sort) :
       IsFresh(sort, q, o) =>
          /\ IsListOf(sort, Sub(q), Got(After(Appends[q], o, room))[q])
          /\ \A r \in Holders \ Sub(q) : Got(After(Appends[q], o, room))[r] = Got(o)[r]

\* The call for one message more, and the append of its result.
LEMMA OneMore ==
  ASSUME NEW h, NEW sort \in Sorts, NEW room \in Nat, NEW q \in Holders, NEW o,
         NEW k \in Nat, k < Len(Own["msgs"][q]), NEW t, IsSoFar(h, sort, q, o, k, t),
         NEW m, m = Own["msgs"][q][k + 1], IsComplete(h, sort, room, m)
  PROVE  IsSoFar(h, sort, q, o, k + 1,
                 After(Append(Appends[m], [to |-> q, from |-> m]), t, room))
<1> DEFINE c == [to |-> q, from |-> m]
           u == After(Appends[m], t, room)
           v == AppendOne(u, c, room)
           n == Len(Own["msgs"][q])
<1>1. /\ m \in Holders /\ Sub(m) \in SUBSET Holders /\ Sub(m) \subseteq Below[q]
      /\ q \notin Sub(m) /\ SoFar(q, k) \in SUBSET Holders /\ SoFar(q, k) \cap Sub(m) = {}
      /\ SoFar(q, k + 1) = SoFar(q, k) \cup Sub(m)
      /\ \A j \in (k + 2)..n : q \notin Sub(Own["msgs"][q][j]) /\ Sub(Own["msgs"][q][j]) \cap Sub(m) = {}
  <2>1. IsNext(q, k, m)
    BY SoFarIs
  <2> HIDE DEF c, u, v
  <2> QED BY <2>1 DEF IsNext
<1>2. /\ t \in States(h, sort) /\ IsListOf(sort, SoFar(q, k), Got(t)[q])
      /\ \A j \in (k + 1)..n : \A r \in Sub(Own["msgs"][q][j]) : Got(t)[r] = Own[sort][r]
      /\ \A r \in Holders \ Sub(q) : Got(t)[r] = Got(o)[r]
  BY DEF IsSoFar
<1>3. n \in Nat
  BY OwnType, LenProperties
<1>4. IsFresh(sort, m, t)
  <2>1. k + 1 \in (k + 1)..n
    BY <1>3
  <2> QED BY <1>2, <2>1 DEF IsFresh
<1>5. /\ IsListOf(sort, Sub(m), Got(u)[m])
      /\ \A r \in Holders \ Sub(m) : Got(u)[r] = Got(t)[r]
  BY <1>2, <1>4 DEF IsComplete
<1>6. c \in Calls /\ c.to = q /\ c.from = m
  BY <1>1 DEF Calls
<1>7. /\ u \in States(h, sort)
      /\ After(Append(Appends[m], c), t, room) = v
  <2>1. Appends[m] \in Seq(Calls)
    BY <1>1, AppendsIs
  <2> HIDE DEF c
  <2> QED BY <1>2, <1>6, <2>1, AfterOne
<1> HIDE DEF c, u
<1>8. v \in States(h, sort) /\ Got(v) = [Got(u) EXCEPT ![q] = Got(u)[q] \o Got(u)[m]]
  <2>1. v \in States(h, sort) /\ Got(v) = Joined(Got(u), c)
    BY <1>6, <1>7, OneAppended
  <2> HIDE DEF v
  <2> QED BY <1>6, <2>1 DEF Joined
<1>9. DOMAIN Got(u) = Holders
  BY DEF Got
<1> HIDE DEF v
<1>10. /\ Got(v)[q] = Got(t)[q] \o Got(u)[m]
       /\ \A r \in Holders : r # q => Got(v)[r] = Got(u)[r]
  <2>1. Got(u)[q] = Got(t)[q]
    BY <1>1, <1>5
  <2> QED BY <1>8, <1>9, <2>1
<1>11. IsListOf(sort, SoFar(q, k + 1), Got(v)[q])
  <2>1. IsListOf(sort, SoFar(q, k) \cup Sub(m), Got(t)[q] \o Got(u)[m])
    BY <1>1, <1>2, <1>5, ListConcat
  <2> QED BY <1>1, <1>10, <2>1
<1>12. ASSUME NEW j \in ((k + 1) + 1)..n, NEW r \in Sub(Own["msgs"][q][j])
       PROVE  Got(v)[r] = Own[sort][r]
  <2>1. j \in (k + 2)..n /\ j \in (k + 1)..n /\ j \in 1..n
    BY <1>3
  <2>2. r # q /\ r \notin Sub(m)
    BY <1>1, <2>1
  <2>3. r \in Holders
    <3>1. Own["msgs"][q][j] \in Holders
      BY <2>1, OwnType
    <3> QED BY <3>1, BelowSub
  <2> QED BY <1>2, <1>5, <1>10, <2>1, <2>2, <2>3
<1>13. ASSUME NEW r \in Holders \ Sub(q) PROVE Got(v)[r] = Got(o)[r]
  <2>1. r # q /\ r \notin Sub(m)
    BY <1>1 DEF Sub
  <2> QED BY <1>2, <1>5, <1>10, <2>1
<1>14. IsSoFar(h, sort, q, o, k + 1, v)
  BY <1>8, <1>11, <1>12, <1>13 DEF IsSoFar
<1> QED BY <1>7, <1>14 DEF c

\* The call for q, when those for its messages are complete.
LEMMA CompleteFromNested ==
  ASSUME NEW h, NEW sort \in Sorts, NEW room \in Nat, NEW q \in Holders,
         \A m \in Nested(q) : IsComplete(h, sort, room, m)
  PROVE  IsComplete(h, sort, room, q)
<1> SUFFICES ASSUME NEW o \in States(h, sort), IsFresh(sort, q, o)
             PROVE  /\ IsListOf(sort, Sub(q), Got(After(Appends[q], o, room))[q])
                    /\ \A r \in Holders \ Sub(q) : Got(After(Appends[q], o, room))[r] = Got(o)[r]
  BY DEF IsComplete
<1> DEFINE ms == Own["msgs"][q]
           n == Len(ms)
           parts == Parts(q)
           upto(k) == FlattenSeq(FirstOf(parts, k))
           S == {k \in Nat : k <= n => /\ upto(k) \in Seq(Calls)
                                       /\ IsSoFar(h, sort, q, o, k, After(upto(k), o, room))}
<1>1. ms \in Seq(Holders) /\ n \in Nat /\ DOMAIN ms = 1..n
  BY OwnType
<1>2. /\ parts \in Seq(Seq(Calls)) /\ Len(parts) = n
      /\ \A i \in 1..n : parts[i] = Append(Appends[ms[i]], [to |-> q, from |-> ms[i]])
  <2>1. parts \in Seq(Seq(Calls)) /\ DOMAIN parts = 1..n
    BY <1>1, AppendsIs DEF Parts
  <2>2. Len(parts) = n
    BY <1>1, <2>1
  <2> QED BY <1>1, <2>1, <2>2 DEF Parts
<1> HIDE DEF parts, n
<1>3. 0 \in S
  <2>1. FirstOf(parts, 0) = <<>>
    <3>1. 0 \in 0..Len(parts)
      BY <1>1, <1>2
    <3>2. FirstOf(parts, 0) \in Seq(Seq(Calls)) /\ Len(FirstOf(parts, 0)) = 0
      BY <1>2, <3>1, FirstOfIs
    <3> QED BY <3>2, EmptySeq
  <2>2. upto(0) = <<>> /\ <<>> \in Seq(Calls)
    BY <2>1, FlattenEmpty
  <2>3. After(upto(0), o, room) = o
    BY <2>2, AfterNone
  <2>4. IsSoFar(h, sort, q, o, 0, o)
    <3>1. SoFar(q, 0) = {q}
      <4>1. 1..0 = {}
        OBVIOUS
      <4> QED BY <4>1 DEF SoFar
    <3>2. Got(o)[q] = Own[sort][q]
      BY DEF IsFresh, Sub
    <3>3. \A j \in 1..n : \A r \in Sub(ms[j]) : r \in Sub(q)
      <4>1. \A j \in 1..n : ms[j] \in Nested(q)
        BY <1>1 DEF Nested, ToSet
      <4> QED BY <4>1, BelowSub DEF Sub
    <3>4. \A j \in (0 + 1)..n : j \in 1..n
      BY <1>1
    <3> QED BY <3>1, <3>2, <3>3, <3>4, OwnOnce DEF IsSoFar, IsFresh, n
  <2> HIDE DEF upto
  <2> QED BY <2>2, <2>3, <2>4
<1>4. ASSUME NEW k \in Nat, k \in S PROVE k + 1 \in S
  <2> SUFFICES ASSUME k + 1 <= n
               PROVE  /\ upto(k + 1) \in Seq(Calls)
                      /\ IsSoFar(h, sort, q, o, k + 1, After(upto(k + 1), o, room))
    <3> HIDE DEF upto
    <3> QED OBVIOUS
  <2> DEFINE m == ms[k + 1]
             part == Append(Appends[m], [to |-> q, from |-> m])
             t == After(upto(k), o, room)
  <2>1. k < n /\ k + 1 \in 1..n /\ k \in 0..n
    BY <1>1
  <2>2. upto(k) \in Seq(Calls) /\ IsSoFar(h, sort, q, o, k, t)
    <3> HIDE DEF upto
    <3> QED BY <1>4, <2>1
  <2>3. m \in Nested(q) /\ m \in Holders
    <3>1. \A i \in DOMAIN ms : ms[i] \in Nested(q) /\ ms[i] \in Holders
      <4>1. \A i \in DOMAIN ms : ms[i] \in Nested(q)
        BY DEF Nested, ToSet
      <4> QED BY <4>1, NestingNoCycle
    <3>2. k + 1 \in DOMAIN ms
      BY <1>1, <2>1
    <3> HIDE DEF ms
    <3> QED BY <3>1, <3>2
  <2>4. part = parts[k + 1] /\ part \in Seq(Calls)
    <3>1. part = parts[k + 1]
      BY <1>2, <2>1
    <3>2. \A i \in 1..n : parts[i] \in Seq(Calls)
      BY <1>2, ElementOfSeq
    <3> HIDE DEF part
    <3> QED BY <2>1, <3>1, <3>2
  <2>5. upto(k + 1) = upto(k) \o part
    <3>1. FirstOf(parts, k + 1) = Append(FirstOf(parts, k), part)
      <4>1. /\ FirstOf(parts, k) \in Seq(Seq(Calls)) /\ Len(FirstOf(parts, k)) = k
            /\ \A j \in 1..k : FirstOf(parts, k)[j] = parts[j]
        BY <1>2, <2>1, FirstOfIs
      <4>2. /\ FirstOf(parts, k + 1) \in Seq(Seq(Calls)) /\ Len(FirstOf(parts, k + 1)) = k + 1
            /\ \A j \in 1..(k + 1) : FirstOf(parts, k + 1)[j] = parts[j]
        <5>1. k + 1 \in 0..Len(parts)
          BY <1>2, <2>1
        <5> QED BY <1>2, <5>1, FirstOfIs
      <4> DEFINE a == FirstOf(parts, k)
                 b == FirstOf(parts, k + 1)
      <4>3. Len(b) = Len(a) + 1 /\ (\A j \in 1..Len(a) : b[j] = a[j]) /\ b[Len(a) + 1] = part
        <5>1. \A j \in 1..k : j \in 1..(k + 1)
          OBVIOUS
        <5>2. k + 1 \in 1..(k + 1)
          OBVIOUS
        <5> HIDE DEF part
        <5> QED BY <2>4, <4>1, <4>2, <5>1, <5>2
      <4>4. a \in Seq(Seq(Calls)) /\ b \in Seq(Seq(Calls))
        BY <4>1, <4>2
      <4> HIDE DEF a, b, part
      <4>5. b = Append(a, b[Len(a) + 1])
        BY <4>3, <4>4, IsAppend
      <4> QED BY <4>3, <4>5 DEF a, b
    <3>2. FirstOf(parts, k) \in Seq(Seq(Calls))
      BY <1>2, <2>1, FirstOfIs
    <3> HIDE DEF part
    <3>3. FlattenSeq(Append(FirstOf(parts, k), part)) = FlattenSeq(FirstOf(parts, k)) \o part
      BY <2>4, <3>2, FlattenAppend
    <3> QED BY <3>1, <3>3
  <2> HIDE DEF upto
  <2>6. After(upto(k + 1), o, room) = After(part, t, room)
    <3> DEFINE x == upto(k)
    <3>1. x \in Seq(Calls) /\ upto(k + 1) = x \o part /\ t = After(x, o, room)
      BY <2>2, <2>5
    <3> HIDE DEF part, x, t, S
    <3>2. After(x \o part, o, room) = After(part, After(x, o, room), room)
      BY <2>4, <3>1, AfterMore
    <3> QED BY <3>1, <3>2
  <2>7. IsSoFar(h, sort, q, o, k + 1, After(part, t, room))
    <3>1. k < Len(Own["msgs"][q])
      BY <2>1 DEF n
    <3>2. IsComplete(h, sort, room, m)
      BY <2>3
    <3> HIDE DEF t
    <3> QED BY <2>2, <3>1, <3>2, OneMore
  <2>8. upto(k + 1) \in Seq(Calls)
    <3> HIDE DEF part
    <3> QED BY <2>2, <2>4, <2>5, ConcatProperties
  <2> HIDE DEF part, t
  <2> QED BY <2>6, <2>7, <2>8
<1>5. n \in S
  <2> HIDE DEF S
  <2> QED BY <1>1, <1>3, <1>4, NatInduct
<1>6. upto(n) = Appends[q]
  <2>1. FirstOf(parts, n) = parts
    BY <1>2, SubSeqFull DEF FirstOf
  <2> QED BY <2>1, AppendsIs DEF parts
<1>7. IsSoFar(h, sort, q, o, n, After(Appends[q], o, room))
  <2> HIDE DEF upto
  <2> QED BY <1>1, <1>5, <1>6
<1>8. SoFar(q, n) = Sub(q)
  <2>1. Nested(q) = {ms[j] : j \in 1..n}
    BY <1>1 DEF Nested, ToSet
  <2>2. Below[q] = UNION {Sub(m) : m \in Nested(q)}
    BY BelowSub
  <2>3. UNION {Sub(m) : m \in Nested(q)} = UNION {Sub(ms[j]) : j \in 1..n}
    BY <2>1
  <2> QED BY <2>2, <2>3 DEF SoFar, Sub
<1> QED BY <1>7, <1>8 DEF IsSoFar

\* Every call is complete.
LEMMA AllComplete ==
  ASSUME NEW h, NEW sort \in Sorts, NEW room \in Nat
  PROVE  \A q \in Holders : IsComplete(h, sort, room, q)
<1> DEFINE Bad == {q \in Holders : ~IsComplete(h, sort, room, q)}
<1> SUFFICES ASSUME Bad # {} PROVE FALSE
  OBVIOUS
<1>1. PICK q \in Bad : Nested(q) \cap Bad = {}
  BY Innermost
<1>2. \A m \in Nested(q) : IsComplete(h, sort, room, m)
  BY <1>1, NestingNoCycle
<1> QED BY <1>1, <1>2, CompleteFromNested

\* A list of what AllEnums or AllMessages of p find.
LEMMA AllHas ==
  ASSUME NEW h, IsHeap(h), NEW sort \in Sorts, NEW p \in Holders, NEW room \in Nat
  PROVE  IsListOf(sort, Sub(p), Contents(All(h, p, sort, room).heap, All(h, p, sort, room).slice))
<1>1. Start(h, sort) \in States(h, sort) /\ Got(Start(h, sort)) = [q \in Holders |-> Own[sort][q]]
  BY StartIs
<1>2. IsFresh(sort, p, Start(h, sort))
  BY <1>1, BelowSub DEF IsFresh
<1>3. IsListOf(sort, Sub(p), Got(After(Appends[p], Start(h, sort), room))[p])
  BY <1>1, <1>2, AllComplete DEF IsComplete
<1> QED BY <1>3, AllIs

\* A sequence that has each once is as long as there are elements.
LEMMA OnceCount ==
  ASSUME NEW X, NEW s \in Seq(X), IsInjective(s)
  PROVE  Len(s) = Cardinality(ToSet(s))
<1>1. Len(s) \in Nat /\ DOMAIN s = 1..Len(s) /\ s \in [1..Len(s) -> X]
  BY LenProperties
<1>2. s \in [1..Len(s) -> ToSet(s)]
  BY <1>1 DEF ToSet
<1>3. s \in Bijection(1..Len(s), ToSet(s))
  BY <1>1, <1>2 DEF Bijection, Injection, Surjection, ToSet
<1>4. ExistsBijection(1..Len(s), ToSet(s))
  BY <1>3 DEF ExistsBijection
<1> QED BY <1>1, <1>4, FS_CountingElements

\* What a step adds to what callers keep is what the accessor that was asked promises.
LEMMA AnswerStep ==
  ASSUME ListsInv, [Next]_vars, NEW i \in DOMAIN held' \ DOMAIN held
  PROVE  /\ held'[i].all =>
              /\ ToSet(held'[i].want) = UNION {ToSet(Own[held'[i].sort][p]) :
                                                 p \in {held'[i].of} \cup Below[held'[i].of]}
              /\ Len(held'[i].want) = Cardinality(ToSet(held'[i].want))
         /\ ~held'[i].all => held'[i].want = Own[held'[i].sort][held'[i].of]
<1>1. held \in Seq(Kept) /\ IsHeap(heap)
  BY DEF ListsInv, AreKept
<1>2. ASSUME NEW out, NEW p \in Holders, NEW sort \in Sorts, NEW all \in BOOLEAN,
             Keep(out, p, sort, all)
      PROVE  /\ held'[i].sort = sort /\ held'[i].of = p /\ held'[i].all = all
             /\ held'[i].want = Contents(out.heap, out.slice)
  <2> DEFINE k == [slice |-> out.slice, of |-> p, sort |-> sort, all |-> all,
                 want |-> Contents(out.heap, out.slice)]
  <2>1. held' = Append(held, k)
    BY <1>2 DEF Keep
  <2>2. k.sort = sort /\ k.of = p /\ k.all = all /\ k.want = Contents(out.heap, out.slice)
    OBVIOUS
  <2> HIDE DEF k
  <2>3. held' = Append(held, k) /\ Len(held) \in Nat /\ DOMAIN held = 1..Len(held)
    BY <1>1, <2>1, LenProperties
  <2>4. DOMAIN held' = 1..(Len(held) + 1) /\ held'[Len(held) + 1] = k
    BY <1>1, <2>3
  <2>5. i = Len(held) + 1
    BY <2>3, <2>4
  <2> QED BY <2>2, <2>4, <2>5
<1>3. ASSUME NEW p \in Holders, NEW sort \in Sorts, AskOwn(p, sort)
      PROVE  ~held'[i].all /\ held'[i].want = Own[held'[i].sort][held'[i].of]
  <2> DEFINE out == [heap |-> heap, slice |-> OwnSlice(p, sort)]
  <2>1. Keep(out, p, sort, FALSE) /\ out.heap = heap /\ out.slice = OwnSlice(p, sort)
    BY <1>3 DEF AskOwn
  <2> HIDE DEF out
  <2>2. /\ held'[i].sort = sort /\ held'[i].of = p /\ held'[i].all = FALSE
        /\ held'[i].want = Contents(heap, OwnSlice(p, sort))
    BY <1>2, <2>1
  <2> QED BY <1>1, <2>2, OwnSliceIs
<1>4. ASSUME NEW p \in Holders, NEW sort \in Sorts, AskAll(p, sort)
      PROVE  /\ held'[i].all
             /\ ToSet(held'[i].want) = UNION {ToSet(Own[held'[i].sort][q]) :
                                                q \in {held'[i].of} \cup Below[held'[i].of]}
             /\ Len(held'[i].want) = Cardinality(ToSet(held'[i].want))
  <2>1. PICK room \in 0..MaxRoom : Keep(All(heap, p, sort, room), p, sort, TRUE)
    BY <1>4 DEF AskAll
  <2> DEFINE out == All(heap, p, sort, room)
  <2>2. IsListOf(sort, Sub(p), Contents(out.heap, out.slice))
    BY <1>1, AllHas, BoundsAssumption
  <2>3. /\ held'[i].sort = sort /\ held'[i].of = p /\ held'[i].all
        /\ held'[i].want = Contents(out.heap, out.slice)
    BY <1>2, <2>1
  <2> HIDE DEF out
  <2>4. IsListOf(sort, Sub(p), held'[i].want)
    BY <2>2, <2>3
  <2>5. Len(held'[i].want) = Cardinality(ToSet(held'[i].want))
    BY <2>4, OnceCount DEF IsListOf
  <2> QED BY <2>3, <2>4, <2>5 DEF IsListOf, HeldBy, Sub
<1>5. ASSUME NEW j \in DOMAIN held, Extend(j) PROVE FALSE
  <2>1. DOMAIN held' = DOMAIN held
    BY <1>5 DEF Extend
  <2> QED BY <2>1
<1>6. CASE held' = held
  BY <1>6
<1>7. CASE Lists
  BY <1>3, <1>4, <1>5, <1>7 DEF Lists, ListsNext
<1> QED BY <1>6, <1>7 DEF Next, Dependents, UnusedImports, vars

\* message.go:126-140, file.go:81-103: for any nesting, whatever callers have appended
\* to earlier answers and whatever room arrays have, what AllEnums and AllMessages give
\* has everything of the sort at any depth, and each once, and what Enums and Messages
\* give is the entity's own list.
THEOREM AnswersCorrect == Spec => AnswersAreAll
<1>1. ListsInv /\ [Next]_vars
        => [\A i \in DOMAIN held' \ DOMAIN held :
              LET h == held'[i]
              IN /\ h.all =>
                      /\ ToSet(h.want) = UNION {ToSet(Own[h.sort][p]) : p \in {h.of} \cup Below[h.of]}
                      /\ Len(h.want) = Cardinality(ToSet(h.want))
                 /\ ~h.all => h.want = Own[h.sort][h.of]]_listVars
  BY AnswerStep
<1>2. Init => ListsInv
  BY ListsStart DEF Init
<1> QED BY <1>1, <1>2, ListsStep, PTL DEF Spec, AnswersAreAll

-----------------------------------------------------------------------------
(* The imports that a file does not use.                                   *)

\* What is nested in a holder is in its file.
LEMMA SameFile == \A q \in Holders : \A r \in Sub(q) : FileOf[r] = FileOf[q]
<1> DEFINE Bad == {q \in Holders : ~\A r \in Sub(q) : FileOf[r] = FileOf[q]}
<1> SUFFICES ASSUME Bad # {} PROVE FALSE
  OBVIOUS
<1>1. PICK q \in Bad : Nested(q) \cap Bad = {}
  BY Innermost
<1>2. ASSUME NEW r \in Sub(q) PROVE FileOf[r] = FileOf[q]
  <2>1. CASE r = q
    BY <2>1
  <2>2. CASE r \in Below[q]
    <3>1. PICK m \in Nested(q) : r \in Sub(m)
      BY <2>2, BelowSub
    <3>2. m \in Holders /\ m \notin Bad
      BY <1>1, BelowSub
    <3>3. FileOf[m] = FileOf[q]
      BY FilesAssumption DEF Nested
    <3> QED BY <3>1, <3>2, <3>3
  <2> QED BY <2>1, <2>2 DEF Sub
<1> QED BY <1>1, <1>2

\* Every holder is a file or nested in one: from one that is not, one could go outwards
\* without end, each time with more nested.
LEMMA HasFile == \A q \in Holders : \E root \in Roots : q \in Sub(root)
<1> DEFINE Bad == {q \in Holders : ~\E root \in Roots : q \in Sub(root)}
           S == {n \in Nat : \E q \in Bad : Cardinality(Below[q]) >= n}
<1> SUFFICES ASSUME Bad # {} PROVE FALSE
  OBVIOUS
<1>1. \A q \in Holders : IsFiniteSet(Below[q]) /\ Cardinality(Below[q]) \in Nat
                         /\ Cardinality(Below[q]) <= Cardinality(Holders)
  BY BelowIs, FS_Subset, FS_CardinalityType, NestingAssumption
<1>2. ASSUME NEW q \in Bad
      PROVE  \E p \in Bad : Cardinality(Below[p]) > Cardinality(Below[q])
  <2>1. q \notin Roots
    BY DEF Sub
  <2>2. PICK p \in Holders : q \in Nested(p)
    BY <2>1, FilesAssumption DEF Nested
  <2>3. q \in Below[p] /\ Below[q] \subseteq Below[p] /\ q \notin Below[q]
    BY <2>2, BelowSub, NotBelow DEF Sub
  <2>4. p \in Bad
    <3> SUFFICES ASSUME NEW root \in Roots, p \in Sub(root) PROVE q \in Sub(root)
      BY <2>2
    <3>1. root \in Holders
      BY OwnAssumption
    <3> QED BY <2>3, <3>1, BelowBelow DEF Sub
  <2>5. Cardinality(Below[q]) < Cardinality(Below[p])
    <3>1. /\ Cardinality(Below[q]) <= Cardinality(Below[p])
          /\ Cardinality(Below[q]) = Cardinality(Below[p]) => Below[q] = Below[p]
      BY <1>1, <2>2, <2>3, FS_Subset
    <3>2. Below[q] # Below[p]
      BY <2>3
    <3> QED BY <1>1, <2>2, <3>1, <3>2
  <2> QED BY <2>4, <2>5
<1>3. 0 \in S
  BY <1>1
<1>4. ASSUME NEW n \in Nat, n \in S PROVE n + 1 \in S
  <2>1. PICK q \in Bad : Cardinality(Below[q]) >= n
    BY <1>4
  <2>2. PICK p \in Bad : Cardinality(Below[p]) > Cardinality(Below[q])
    BY <1>2
  <2>3. Cardinality(Below[p]) >= n + 1
    BY <1>1, <2>1, <2>2
  <2> QED BY <2>3
<1>5. Cardinality(Holders) + 1 \in S
  <2>1. Nat \subseteq S
    <3> HIDE DEF S
    <3> QED BY <1>3, <1>4, NatInduct
  <2>2. Cardinality(Holders) \in Nat
    BY FS_CardinalityType, NestingAssumption
  <2> QED BY <2>1, <2>2
<1>6. PICK q \in Bad : Cardinality(Below[q]) >= Cardinality(Holders) + 1
  BY <1>5
<1>7. Cardinality(Holders) \in Nat
  BY FS_CardinalityType, NestingAssumption
<1> QED BY <1>1, <1>6, <1>7

\* The holders of a file are the file and what is nested in it.
LEMMA InFile ==
  ASSUME NEW root \in Roots
  PROVE  /\ Sub(root) = {p \in Holders : FileOf[p] = FileOf[root]}
         /\ {q \in Roots : FileOf[q] = FileOf[root]} = {root}
<1>1. root \in Holders /\ Sub(root) \in SUBSET Holders
  BY OwnAssumption, BelowSub
<1>2. ASSUME NEW p \in Holders, FileOf[p] = FileOf[root] PROVE p \in Sub(root)
  <2>1. PICK q \in Roots : p \in Sub(q)
    BY HasFile
  <2>2. FileOf[p] = FileOf[q]
    BY <2>1, OwnAssumption, SameFile
  <2> QED BY <1>2, <2>1, <2>2, FilesAssumption
<1>3. \A p \in Sub(root) : FileOf[p] = FileOf[root]
  BY <1>1, SameFile
<1> QED BY <1>1, <1>2, <1>3, FilesAssumption

\* The messages that holders hold, with what is nested in them.
LEMMA MessagesBelow ==
  ASSUME NEW q \in Holders
  PROVE  HeldBy("msgs", Sub(q)) = Below[q]
<1>1. HeldBy("msgs", Sub(q)) = UNION {Nested(r) : r \in Sub(q)}
  BY DEF HeldBy, Nested
<1>2. \A r \in Sub(q) : Nested(r) \subseteq Below[q]
  BY BelowBelow, BelowIs
<1>3. \A m \in Below[q] : \E r \in Sub(q) : m \in Nested(r)
  BY HasParent
<1> QED BY <1>1, <1>2, <1>3

UnusedInv == graph \in Graphs /\ ListsInv /\ UnusedIsUnused

\* No field of p, nor a method of a service, names a type that file g declares.
NamesNone(gr, p, g) ==
    /\ \A t \in gr.fields[p] :
          /\ t.what = "single" => t.of # g
          /\ t.what \in {"list", "map"} => t.el # g
    /\ \A m \in gr.methods[p] : g # m.in /\ g # m.out

\* A holder imports the other files whose types it names.
LEMMA ImportsNamed ==
  ASSUME graph \in Graphs, NEW p \in Holders, NEW g, g # FileOf[p]
  PROVE  g \in ImportsOf(p) <=> ~NamesNone(graph, p, g)
<1>1. \A t \in graph.fields[p] : t.what \in {"single", "list", "map"}
  BY GraphsAssumption DEF FieldTypes
<1>2. ASSUME NEW t \in graph.fields[p]
      PROVE  g \in FieldImports(p, t)
               <=> ~ /\ t.what = "single" => t.of # g
                     /\ t.what \in {"list", "map"} => t.el # g
  BY <1>1 DEF FieldImports
<1>3. ASSUME NEW m \in graph.methods[p]
      PROVE  g \in MethodImports(p, m) <=> ~(g # m.in /\ g # m.out)
  BY DEF MethodImports
<1>4. g \in ImportsOf(p) <=> \/ \E t \in graph.fields[p] : g \in FieldImports(p, t)
                             \/ \E m \in graph.methods[p] : g \in MethodImports(p, m)
  <2>1. /\ g \in UNION {FieldImports(p, t) : t \in graph.fields[p]}
             <=> \E t \in graph.fields[p] : g \in FieldImports(p, t)
        /\ g \in UNION {MethodImports(p, m) : m \in graph.methods[p]}
             <=> \E m \in graph.methods[p] : g \in MethodImports(p, m)
    BY Zenon
  <2> QED BY <2>1, Zenon DEF ImportsOf
<1>5. NamesNone(graph, p, g)
        <=> /\ \A t \in graph.fields[p] : g \notin FieldImports(p, t)
            /\ \A m \in graph.methods[p] : g \notin MethodImports(p, m)
  BY <1>2, <1>3, Zenon DEF NamesNone
<1> QED BY <1>4, <1>5, Zenon

\* UnusedImports gives the imports that nothing in the file uses.
LEMMA UnusedStep ==
  ASSUME UnusedInv, NEW f \in FileIds, UnusedImports(f)
  PROVE  UnusedIsUnused'
<1>1. PICK room \in 0..MaxRoom, root \in Roots :
         /\ FileOf[root] = f
         /\ unused' = [file   |-> f,
                       answer |-> (Imports(f) \ graph.public[f])
                                     \ Used(f, ToSet(Contents(All(heap, root, "msgs", room).heap,
                                                              All(heap, root, "msgs", room).slice)))]
  BY DEF UnusedImports
<1> DEFINE messages == ToSet(Contents(All(heap, root, "msgs", room).heap,
                                      All(heap, root, "msgs", room).slice))
           inFile == {p \in Holders : FileOf[p] = f}
<1>2. messages = Below[root]
  <2>1. IsListOf("msgs", Sub(root), Contents(All(heap, root, "msgs", room).heap,
                                             All(heap, root, "msgs", room).slice))
    <3>1. root \in Holders /\ room \in Nat /\ "msgs" \in Sorts /\ IsHeap(heap)
      BY OwnAssumption, BoundsAssumption DEF Sorts, UnusedInv, ListsInv
    <3> QED BY <3>1, AllHas
  <2>2. messages = HeldBy("msgs", Sub(root))
    BY <2>1 DEF IsListOf
  <2> QED BY <2>2, OwnAssumption, MessagesBelow
<1>3. unused'.file = f /\ unused'.answer = (Imports(f) \ graph.public[f]) \ Used(f, messages)
  BY <1>1
<1> HIDE DEF messages
<1>4. messages \cup {q \in Roots : FileOf[q] = f} = inFile
  BY <1>1, <1>2, InFile DEF Sub
<1>5. Used(f, messages) = UNION {ImportsOf(p) : p \in inFile}
  BY <1>4 DEF Used
<1>6. ASSUME NEW g \in FileIds
      PROVE  g \in unused'.answer <=> /\ g \in Imports(f) \ graph.public[f]
                                      /\ \A p \in inFile : NamesNone(graph, p, g)
  <2>1. g \in Imports(f) => g # f
    <3>1. graph \in Graphs
      BY DEF UnusedInv
    <3>2. FileIds = 1..MaxFile /\ MaxFile \in Nat
      BY FilesAssumption DEF FileIds
    <3>3. \A d \in Imports(f) : d < f
      BY <3>1, ImportsAreBefore
    <3> QED BY <3>2, <3>3
  <2>2. g # f => (g \in Used(f, messages) <=> \E p \in inFile : ~NamesNone(graph, p, g))
    <3>1. graph \in Graphs /\ \A p \in inFile : p \in Holders /\ FileOf[p] = f
      BY DEF UnusedInv
    <3> HIDE DEF inFile
    <3>2. \A p \in inFile : g # f => (g \in ImportsOf(p) <=> ~NamesNone(graph, p, g))
      BY <3>1, ImportsNamed
    <3> QED BY <1>5, <3>2
  <2> HIDE DEF inFile
  <2> QED BY <1>3, <2>1, <2>2
<1>7. graph' = graph
  BY DEF UnusedImports
<1> SUFFICES ASSUME NEW g \in FileIds
             PROVE  g \in unused'.answer <=>
                       /\ g \in graph'.imports[unused'.file] \ graph'.public[unused'.file]
                       /\ \A p \in {q \in Holders : FileOf[q] = unused'.file} : NamesNone(graph', p, g)
  BY DEF UnusedIsUnused, Imports, NamesNone
<1>8. Imports(f) = graph.imports[f]
  BY DEF Imports
<1>9. {q \in Holders : FileOf[q] = unused'.file} = inFile
  BY <1>3
<1> HIDE DEF inFile
<1> QED BY <1>3, <1>6, <1>7, <1>8, <1>9

\* file.go:23-25: for any imports, any nesting and any uses, what UnusedImports gives are
\* the imports that are not public and that no message of the file, however deep, and no
\* service of it uses, whatever callers do with the lists of messages it goes through.
THEOREM UnusedCorrect == Spec => []UnusedIsUnused
<1>1. Init => UnusedInv
  <2> SUFFICES ASSUME Init PROVE UnusedInv
    OBVIOUS
  <2>1. graph \in Graphs /\ unused.file = Nil /\ ListsInit
    BY DEF Init
  <2> QED BY <2>1, ListsStart DEF UnusedInv, UnusedIsUnused
<1>2. UnusedInv /\ [Next]_vars => UnusedInv'
  <2> SUFFICES ASSUME UnusedInv, [Next]_vars PROVE UnusedInv'
    OBVIOUS
  <2>1. ListsInv'
    BY ListsStep DEF UnusedInv
  <2>2. graph' = graph
    BY DEF Next, Dependents, UnusedImports, Lists, vars
  <2>3. UnusedIsUnused'
    <3>1. CASE \E f \in FileIds : UnusedImports(f)
      BY <3>1, UnusedStep
    <3>2. CASE unused' = unused
      BY <2>2, <3>2 DEF UnusedInv, UnusedIsUnused, Imports
    <3> QED BY <3>1, <3>2 DEF Next, Dependents, Lists, vars
  <2> QED BY <2>1, <2>2, <2>3 DEF UnusedInv
<1>3. UnusedInv => UnusedIsUnused
  BY DEF UnusedInv
<1> QED BY <1>1, <1>2, <1>3, PTL DEF Spec

=============================================================================
