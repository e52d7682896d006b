----------------------------- MODULE ModuleProofs -----------------------------
(***************************************************************************)
(* Proofs about ModuleBase and its BuildContext: what modules push and pop *)
(* leaves them where they were, output paths are clean, and every artifact *)
(* gets to the persister once.                                             *)
(***************************************************************************)
EXTENDS ModuleBase, SequenceLemmas

-----------------------------------------------------------------------------
(* Paths.                                                                  *)

\* One element more leaves a path a path.
LEMMA CleanedType ==
  ASSUME NEW E, NEW abs \in BOOLEAN, NEW v \in Seq(E), NEW e \in E
  PROVE  Cleaned(abs, v, e) \in Seq(E)
<1>1. CASE e = ".." /\ v # <<>> /\ Last(v) # ".."
  BY <1>1 DEF Cleaned, Front
<1>2. CASE ~(e = ".." /\ v # <<>> /\ Last(v) # "..")
  <2>1. Cleaned(abs, v, e) \in {Append(v, e), v}
    BY <1>2 DEF Cleaned
  <2>2. Append(v, e) \in Seq(E)
    OBVIOUS
  <2> QED BY <2>1, <2>2
<1> QED BY <1>1, <1>2

CleanSteps(E, abs, s) == [i \in 1..Len(s) |-> [v \in Seq(E) |-> Cleaned(abs, v, s[i])]]

\* The steps of CleanElems.
LEMMA CleanStepsType ==
  ASSUME NEW E, NEW abs \in BOOLEAN, NEW s \in Seq(E)
  PROVE  CleanSteps(E, abs, s) \in Steps(Len(s), Seq(E))
<1>1. \A i \in 1..Len(s) : s[i] \in E
  OBVIOUS
<1> QED BY <1>1, CleanedType DEF CleanSteps, Steps

\* CleanElems goes through the elements one by one.
LEMMA CleanIterated ==
  ASSUME NEW E, NEW abs \in BOOLEAN, NEW s \in Seq(E)
  PROVE  CleanElems(abs, s) = Iterated(Len(s), Seq(E), CleanSteps(E, abs, s), <<>>)
<1> DEFINE V == Seq(E)
           n == Len(s)
           g == CleanSteps(E, abs, s)
           F(it) == it = [T \in SUBSET (DOMAIN s) |->
                      IF T = {} THEN <<>> ELSE Cleaned(abs, it[T \ {Max(T)}], s[Max(T)])]
           chosen == CHOOSE it : F(it)
<1>1. n \in Nat /\ DOMAIN s = 1..n /\ <<>> \in V /\ g \in Steps(n, V)
  BY CleanStepsType
<1>2. \A v \in V, i \in 1..n : g[i][v] = Cleaned(abs, v, s[i])
  BY DEF CleanSteps
<1>3. CleanElems(abs, s) = chosen[DOMAIN s]
  BY DEF CleanElems, FoldLeft, MapThenFoldSet
<1> HIDE DEF V, n, g
<1>4. \E it : F(it)
  <2>1. PICK it \in FoldsUpTo(n, n, V, g, <<>>) : TRUE
    BY <1>1, FoldsExist
  <2>2. it \in [SUBSET (1..n) -> V] /\ it[{}] = <<>>
    BY <2>1 DEF FoldsUpTo
  <2>3. ASSUME NEW T \in SUBSET (1..n), T # {}
        PROVE  it[T] = Cleaned(abs, it[T \ {Max(T)}], s[Max(T)])
    <3>1. Max(T) \in 1..n
      BY <1>1, <2>3, MaxPosition
    <3>2. it[T] = g[Max(T)][it[T \ {Max(T)}]]
      BY <2>1, <2>3 DEF FoldsUpTo
    <3>3. it[T \ {Max(T)}] \in V
      BY <2>2
    <3> QED BY <3>1, <3>2, <3>3, <1>2
  <2>4. \A T \in SUBSET (1..n) :
           it[T] = IF T = {} THEN <<>> ELSE Cleaned(abs, it[T \ {Max(T)}], s[Max(T)])
    BY <2>2, <2>3
  <2> QED BY <1>1, <2>2, <2>4
<1>5. F(chosen)
  BY <1>4
<1> HIDE DEF chosen
<1>6. \A T \in SUBSET (1..n) :
         chosen[T] = IF T = {} THEN <<>> ELSE Cleaned(abs, chosen[T \ {Max(T)}], s[Max(T)])
  BY <1>1, <1>5
<1>7. chosen[{}] = <<>>
  BY <1>6
<1>8. ASSUME NEW T \in SUBSET (1..n), T # {}, chosen[T \ {Max(T)}] \in V
      PROVE  chosen[T] = g[Max(T)][chosen[T \ {Max(T)}]]
  <2>1. Max(T) \in 1..n
    BY <1>1, <1>8, MaxPosition
  <2> QED BY <2>1, <1>2, <1>6, <1>8
<1>9. chosen[1..n] = Iterated(n, V, g, <<>>)
  BY <1>1, <1>7, <1>8, FoldIsIterated
<1> QED BY <1>1, <1>3, <1>9 DEF V, n, g

\* The path without elements is clean.
LEMMA CleanEmpty ==
  ASSUME NEW abs \in BOOLEAN
  PROVE  CleanElems(abs, <<>>) = <<>>
<1> DEFINE s == <<>>
           E == {}
<1>1. s \in Seq(E) /\ Len(s) = 0
  OBVIOUS
<1> HIDE DEF s, E
<1>2. CleanElems(abs, s) = Iterated(0, Seq(E), CleanSteps(E, abs, s), <<>>)
      /\ CleanSteps(E, abs, s) \in Steps(0, Seq(E))
  BY <1>1, CleanIterated, CleanStepsType
<1>3. <<>> \in Seq(E)
  OBVIOUS
<1>4. CleanElems(abs, s) = <<>>
  BY <1>2, <1>3, IteratedZero
<1> QED BY <1>4 DEF s

\* What CleanElems makes of one element more.
LEMMA CleanAppend ==
  ASSUME NEW E, NEW abs \in BOOLEAN, NEW s \in Seq(E), NEW e \in E
  PROVE  /\ CleanElems(abs, s) \in Seq(E)
         /\ Append(s, e) \in Seq(E)
         /\ CleanElems(abs, Append(s, e)) = Cleaned(abs, CleanElems(abs, s), e)
<1> DEFINE t == Append(s, e)
           n == Len(s)
           f == CleanSteps(E, abs, s)
           g == CleanSteps(E, abs, t)
           V == Seq(E)
<1>1. t \in V /\ n \in Nat /\ Len(t) = n + 1 /\ t[n + 1] = e /\ \A i \in 1..n : t[i] = s[i]
  OBVIOUS
<1> HIDE DEF t
<1>2. f \in Steps(n, V) /\ g \in Steps(n + 1, V) /\ <<>> \in V
  BY <1>1, CleanStepsType
<1>3. \A i \in 1..n : f[i] = g[i]
  <2> SUFFICES ASSUME NEW i \in 1..n PROVE f[i] = g[i]
    OBVIOUS
  <2>1. i \in 1..(n + 1) /\ t[i] = s[i]
    BY <1>1
  <2> QED BY <1>1, <2>1 DEF CleanSteps
<1>4. CleanElems(abs, s) = Iterated(n, V, f, <<>>)
      /\ CleanElems(abs, t) = Iterated(n + 1, V, g, <<>>)
  BY <1>1, CleanIterated
<1> HIDE DEF f, g, n
<1>5. Iterated(n, V, f, <<>>) \in V
      /\ Iterated(n + 1, V, g, <<>>) = g[n + 1][Iterated(n, V, f, <<>>)]
  BY <1>1, <1>2, <1>3, IteratedNext
<1>6. \A v \in V : g[n + 1][v] = Cleaned(abs, v, e)
  <2>1. n + 1 \in 1..(n + 1)
    BY <1>1
  <2> QED BY <1>1, <2>1 DEF g, CleanSteps
<1> QED BY <1>1, <1>4, <1>5, <1>6 DEF t

\* What has been cleaned is a path.
LEMMA CleanElemsType ==
  ASSUME NEW E, NEW abs \in BOOLEAN, NEW s \in Seq(E)
  PROVE  CleanElems(abs, s) \in Seq(E)
<1>1. <<>> \in Seq(E) /\ Len(s) \in Nat
  OBVIOUS
<1>2. CleanSteps(E, abs, s) \in Steps(Len(s), Seq(E))
  BY CleanStepsType
<1>3. Iterated(Len(s), Seq(E), CleanSteps(E, abs, s), <<>>) \in Seq(E)
  BY <1>1, <1>2, IteratedType
<1> QED BY <1>3, CleanIterated

\* Clean makes a path of a path.
LEMMA CleanType ==
  ASSUME NEW p \in PathType
  PROVE  CleanElems(p.abs, p.elems) \in Seq(STRING) /\ Clean(p) \in PathType
<1>1. p.abs \in BOOLEAN /\ p.elems \in Seq(STRING)
  BY DEF PathType
<1>2. CleanElems(p.abs, p.elems) \in Seq(STRING)
  BY <1>1, CleanElemsType
<1> QED BY <1>2 DEF Clean, PathType

-----------------------------------------------------------------------------
(* Clean paths.                                                            *)

\* No ".." but in front, and there only in a relative path.
IsCleaned(abs, s) ==
    \A i \in DOMAIN s : s[i] = ".." => ~abs /\ \A j \in 1..i : s[j] = ".."

\* An element more.
LEMMA CleanedLonger ==
  ASSUME NEW E, NEW abs \in BOOLEAN, NEW v \in Seq(E), NEW e \in E
  PROVE  IsCleaned(abs, Append(v, e))
           <=> IsCleaned(abs, v) /\ (e = ".." => ~abs /\ (v = <<>> \/ Last(v) = ".."))
<1> DEFINE t == Append(v, e)
           n == Len(v)
<1>1. /\ n \in Nat /\ DOMAIN v = 1..n /\ DOMAIN t = 1..(n + 1) /\ t[n + 1] = e
      /\ \A i \in 1..n : t[i] = v[i]
  OBVIOUS
<1>0. (v = <<>> <=> n = 0) /\ Last(v) = v[n]
  BY DEF Last
<1> HIDE DEF t, n
<1>2. ASSUME IsCleaned(abs, t) PROVE IsCleaned(abs, v)
  <2> SUFFICES ASSUME NEW i \in 1..n, v[i] = ".." PROVE ~abs /\ \A j \in 1..i : v[j] = ".."
    BY <1>0, <1>1 DEF IsCleaned
  <2>1. i \in 1..(n + 1) /\ \A j \in 1..i : j \in 1..n
    BY <1>0, <1>1
  <2> QED BY <1>0, <1>1, <1>2, <2>1 DEF IsCleaned
<1>3. ASSUME IsCleaned(abs, t), e = ".." PROVE ~abs /\ (v = <<>> \/ Last(v) = "..")
  <2>1. n + 1 \in 1..(n + 1) /\ (n # 0 => n \in 1..n /\ n \in 1..(n + 1))
    BY <1>0, <1>1
  <2> QED BY <1>0, <1>1, <1>3, <2>1 DEF IsCleaned
<1>4. ASSUME IsCleaned(abs, v), e = ".." => ~abs /\ (v = <<>> \/ Last(v) = ".."),
             NEW i \in 1..(n + 1), t[i] = ".."
      PROVE  ~abs /\ \A j \in 1..i : t[j] = ".."
  <2>1. CASE i \in 1..n
    <3>1. \A j \in 1..i : j \in 1..n
      BY <1>0, <1>1, <2>1
    <3> QED BY <1>0, <1>1, <1>4, <2>1, <3>1 DEF IsCleaned
  <2>2. CASE i = n + 1
    <3>1. \A j \in 1..n : v[j] = ".."
      <4>1. n # 0 => n \in 1..n
        BY <1>0, <1>1
      <4>2. n = 0 => 1..n = {}
        OBVIOUS
      <4> QED BY <1>0, <1>1, <1>4, <2>2, <4>1, <4>2 DEF IsCleaned
    <3>2. \A j \in 1..i : j \in 1..n \/ j = n + 1
      BY <1>0, <1>1, <2>2
    <3> QED BY <1>0, <1>1, <1>4, <2>2, <3>1, <3>2
  <2> QED BY <1>0, <1>1, <2>1, <2>2
<1>5. IsCleaned(abs, t) <=> \A i \in 1..(n + 1) : t[i] = ".." => ~abs /\ \A j \in 1..i : t[j] = ".."
  BY <1>0, <1>1 DEF IsCleaned
<1> QED BY <1>2, <1>3, <1>4, <1>5 DEF t

\* What an element more makes of a clean path is one.
LEMMA CleanedIsCleaned ==
  ASSUME NEW E, NEW abs \in BOOLEAN, NEW v \in Seq(E), NEW e \in E, IsCleaned(abs, v)
  PROVE  IsCleaned(abs, Cleaned(abs, v, e))
<1>1. CASE Cleaned(abs, v, e) = v
  BY <1>1
<1>2. CASE e = ".." /\ v # <<>> /\ Last(v) # ".."
  <2>1. Cleaned(abs, v, e) = SubSeq(v, 1, Len(v) - 1)
    BY <1>2 DEF Cleaned, Front
  <2> QED BY <1>2, <2>1 DEF IsCleaned
<1>3. CASE Cleaned(abs, v, e) = Append(v, e) /\ e # ".."
  BY <1>3, CleanedLonger
<1>4. CASE Cleaned(abs, v, e) = Append(v, e) /\ (v = <<>> \/ Last(v) = "..") /\ ~abs
  BY <1>4, CleanedLonger
<1> QED BY <1>1, <1>2, <1>3, <1>4 DEF Cleaned

\* What has been cleaned is clean.
LEMMA CleanIsCleaned ==
  ASSUME NEW E, NEW abs \in BOOLEAN, NEW s \in Seq(E)
  PROVE  IsCleaned(abs, CleanElems(abs, s))
<1> DEFINE S == {t \in Seq(E) : IsCleaned(abs, CleanElems(abs, t))}
<1>1. <<>> \in S
  BY CleanEmpty DEF IsCleaned
<1>2. ASSUME NEW t \in Seq(E), NEW e \in E, t \in S PROVE Append(t, e) \in S
  <2>1. IsCleaned(abs, CleanElems(abs, t)) /\ CleanElems(abs, t) \in Seq(E)
    BY <1>2, CleanElemsType
  <2>2. IsCleaned(abs, Cleaned(abs, CleanElems(abs, t), e))
    BY <2>1, CleanedIsCleaned
  <2> QED BY <2>2, CleanAppend
<1> HIDE DEF S
<1>3. Seq(E) \subseteq S
  BY <1>1, <1>2, SeqInduct
<1> QED BY <1>3 DEF S

\* What is clean stays as it is.
LEMMA CleanedStays ==
  ASSUME NEW E, NEW abs \in BOOLEAN, NEW s \in Seq(E), IsCleaned(abs, s)
  PROVE  CleanElems(abs, s) = s
<1> DEFINE S == {t \in Seq(E) : IsCleaned(abs, t) => CleanElems(abs, t) = t}
<1>1. <<>> \in S
  BY CleanEmpty
<1>2. ASSUME NEW t \in Seq(E), NEW e \in E, t \in S PROVE Append(t, e) \in S
  <2> SUFFICES ASSUME IsCleaned(abs, Append(t, e))
               PROVE  CleanElems(abs, Append(t, e)) = Append(t, e)
    BY CleanAppend
  <2>1. Cleaned(abs, t, e) = Append(t, e)
    BY CleanedLonger DEF Cleaned
  <2>2. CleanElems(abs, t) = t
    BY <1>2, CleanedLonger
  <2> QED BY <2>1, <2>2, CleanAppend
<1> HIDE DEF S
<1>3. Seq(E) \subseteq S
  BY <1>1, <1>2, SeqInduct
<1> QED BY <1>3 DEF S

\* Cleaning twice is cleaning once, also when more comes in between.
LEMMA CleanInSteps ==
  ASSUME NEW E, NEW abs \in BOOLEAN, NEW s \in Seq(E), NEW t \in Seq(E)
  PROVE  CleanElems(abs, CleanElems(abs, s) \o t) = CleanElems(abs, s \o t)
<1> DEFINE c == CleanElems(abs, s)
           S == {u \in Seq(E) : CleanElems(abs, c \o u) = CleanElems(abs, s \o u)}
<1>1. c \in Seq(E) /\ CleanElems(abs, c) = c
  BY CleanElemsType, CleanIsCleaned, CleanedStays
<1>2. c = CleanElems(abs, s)
  OBVIOUS
<1> HIDE DEF c
<1>3. <<>> \in S
  <2>1. c \o <<>> = c /\ s \o <<>> = s /\ <<>> \in Seq(E)
    BY <1>1, ConcatEmptySeq
  <2> QED BY <1>1, <1>2, <2>1
<1>4. ASSUME NEW u \in Seq(E), NEW e \in E, u \in S PROVE Append(u, e) \in S
  <2>1. c \o Append(u, e) = Append(c \o u, e) /\ s \o Append(u, e) = Append(s \o u, e)
    BY <1>1, ConcatAppend
  <2>2. c \o u \in Seq(E) /\ s \o u \in Seq(E) /\ Append(u, e) \in Seq(E)
    BY <1>1, ConcatProperties, AppendProperties
  <2>3. CleanElems(abs, c \o u) = CleanElems(abs, s \o u)
    BY <1>4
  <2>4. \A w \in Seq(E) : CleanElems(abs, Append(w, e)) = Cleaned(abs, CleanElems(abs, w), e)
    BY CleanAppend
  <2>5. CleanElems(abs, Append(c \o u, e)) = CleanElems(abs, Append(s \o u, e))
    BY <2>2, <2>3, <2>4
  <2> QED BY <2>1, <2>2, <2>5
<1> HIDE DEF S
<1>5. Seq(E) \subseteq S
  BY <1>3, <1>4, SeqInduct
<1> QED BY <1>2, <1>5 DEF S

-----------------------------------------------------------------------------
(* Output paths.                                                           *)

\* The path below a directory.
LEMMA JoinType ==
  ASSUME NEW p \in PathType, NEW q \in PathType
  PROVE  Join(p, q) \in PathType /\ Join(p, q).abs = p.abs
         /\ Join(p, q).elems = CleanElems(p.abs, p.elems \o q.elems)
<1> DEFINE r == [abs |-> p.abs, elems |-> p.elems \o q.elems]
<1>1. p.abs \in BOOLEAN /\ p.elems \in Seq(STRING) /\ q.elems \in Seq(STRING)
  BY DEF PathType
<1>2. p.elems \o q.elems \in Seq(STRING)
  BY <1>1, ConcatProperties
<1>3. r \in PathType /\ r.abs = p.abs /\ r.elems = p.elems \o q.elems
  BY <1>1, <1>2 DEF PathType
<1>4. Join(p, q) = Clean(r)
  BY DEF Join
<1> HIDE DEF r
<1>5. Clean(r) \in PathType /\ Clean(r).abs = r.abs
      /\ Clean(r).elems = CleanElems(r.abs, r.elems)
  <2>1. DOMAIN r = {"abs", "elems"}
    BY <1>3 DEF PathType
  <2> QED BY <1>3, <2>1, CleanType DEF Clean
<1> QED BY <1>3, <1>4, <1>5

\* What is below a path is one.
LEMMA BelowType ==
  ASSUME NEW p \in PathType, NEW f \in Frames
  PROVE  Below(p, f) \in PathType
<1>1. CASE f \in [kind : {"root", "dir"}, dir : PathType]
  <2>1. f.dir \in PathType /\ f.kind \in {"root", "dir"}
    BY <1>1
  <2> QED BY <2>1, JoinType DEF Below
<1>2. CASE f \in [kind : {"prefix"}, prefix : Modules \cup Tags]
  BY <1>2 DEF Below
<1> QED BY <1>1, <1>2 DEF Frames

PathSteps(c) == [i \in 1..Len(c) |-> [v \in PathType |-> Below(v, c[i])]]

\* The steps of OutputPath.
LEMMA PathStepsType ==
  ASSUME NEW c \in Seq(Frames)
  PROVE  PathSteps(c) \in Steps(Len(c), PathType)
<1>1. \A i \in 1..Len(c) : c[i] \in Frames
  OBVIOUS
<1> QED BY <1>1, BelowType DEF PathSteps, Steps

\* Where OutputPath begins.
LEMMA NoPathType == NoPath \in PathType
<1>1. <<>> \in Seq(STRING)
  OBVIOUS
<1> QED BY <1>1 DEF NoPath, PathType

\* OutputPath goes through the frames one by one, the root first.
LEMMA PathIterated ==
  ASSUME NEW c \in Seq(Frames)
  PROVE  OutputPath(c) = Iterated(Len(c), PathType, PathSteps(c), NoPath)
<1> DEFINE V == PathType
           n == Len(c)
           g == PathSteps(c)
           F(it) == it = [T \in SUBSET (DOMAIN c) |->
                      IF T = {} THEN NoPath ELSE Below(it[T \ {Max(T)}], c[Max(T)])]
           chosen == CHOOSE it : F(it)
<1>1. n \in Nat /\ DOMAIN c = 1..n /\ NoPath \in V /\ g \in Steps(n, V)
  BY PathStepsType, NoPathType
<1>2. \A v \in V, i \in 1..n : g[i][v] = Below(v, c[i])
  BY DEF PathSteps
<1>3. OutputPath(c) = chosen[DOMAIN c]
  BY DEF OutputPath, FoldLeft, MapThenFoldSet
<1> HIDE DEF V, n, g
<1>4. \E it : F(it)
  <2>1. PICK it \in FoldsUpTo(n, n, V, g, NoPath) : TRUE
    BY <1>1, FoldsExist
  <2>2. it \in [SUBSET (1..n) -> V] /\ it[{}] = NoPath
    BY <2>1 DEF FoldsUpTo
  <2>3. ASSUME NEW T \in SUBSET (1..n), T # {}
        PROVE  it[T] = Below(it[T \ {Max(T)}], c[Max(T)])
    <3>1. Max(T) \in 1..n
      BY <1>1, <2>3, MaxPosition
    <3>2. it[T] = g[Max(T)][it[T \ {Max(T)}]]
      BY <2>1, <2>3 DEF FoldsUpTo
    <3>3. it[T \ {Max(T)}] \in V
      BY <2>2
    <3> QED BY <3>1, <3>2, <3>3, <1>2
  <2>4. \A T \in SUBSET (1..n) :
           it[T] = IF T = {} THEN NoPath ELSE Below(it[T \ {Max(T)}], c[Max(T)])
    BY <2>2, <2>3
  <2> QED BY <1>1, <2>2, <2>4
<1>5. F(chosen)
  BY <1>4
<1> HIDE DEF chosen
<1>6. \A T \in SUBSET (1..n) :
         chosen[T] = IF T = {} THEN NoPath ELSE Below(chosen[T \ {Max(T)}], c[Max(T)])
  BY <1>1, <1>5
<1>7. chosen[{}] = NoPath
  BY <1>6
<1>8. ASSUME NEW T \in SUBSET (1..n), T # {}, chosen[T \ {Max(T)}] \in V
      PROVE  chosen[T] = g[Max(T)][chosen[T \ {Max(T)}]]
  <2>1. Max(T) \in 1..n
    BY <1>1, <1>8, MaxPosition
  <2> QED BY <2>1, <1>2, <1>6, <1>8
<1>9. chosen[1..n] = Iterated(n, V, g, NoPath)
  BY <1>1, <1>7, <1>8, FoldIsIterated
<1> QED BY <1>1, <1>3, <1>9 DEF V, n, g

\* An output path is a path.
LEMMA OutputPathType ==
  ASSUME NEW c \in Seq(Frames)
  PROVE  OutputPath(c) \in PathType
<1>1. Len(c) \in Nat /\ PathSteps(c) \in Steps(Len(c), PathType)
  BY PathStepsType
<1>2. Iterated(Len(c), PathType, PathSteps(c), NoPath) \in PathType
  BY <1>1, NoPathType, IteratedType
<1> QED BY <1>2, PathIterated

\* The path of one frame more.
LEMMA PathAppend ==
  ASSUME NEW c \in Seq(Frames), NEW f \in Frames
  PROVE  OutputPath(Append(c, f)) = Below(OutputPath(c), f)
<1> DEFINE t == Append(c, f)
           n == Len(c)
           h == PathSteps(c)
           g == PathSteps(t)
           V == PathType
<1>1. t \in Seq(Frames) /\ n \in Nat /\ Len(t) = n + 1 /\ t[n + 1] = f
      /\ \A i \in 1..n : t[i] = c[i]
  BY AppendProperties, LenProperties
<1> HIDE DEF t
<1>2. h \in Steps(n, V) /\ g \in Steps(n + 1, V) /\ NoPath \in V
  BY <1>1, PathStepsType, NoPathType
<1>3. \A i \in 1..n : h[i] = g[i]
  <2> SUFFICES ASSUME NEW i \in 1..n PROVE h[i] = g[i]
    OBVIOUS
  <2>1. i \in 1..(n + 1) /\ t[i] = c[i]
    BY <1>1
  <2> QED BY <1>1, <2>1 DEF PathSteps
<1>4. OutputPath(c) = Iterated(n, V, h, NoPath)
      /\ OutputPath(t) = Iterated(n + 1, V, g, NoPath)
  BY <1>1, PathIterated
<1> HIDE DEF h, g, n
<1>5. Iterated(n, V, h, NoPath) \in V
      /\ Iterated(n + 1, V, g, NoPath) = g[n + 1][Iterated(n, V, h, NoPath)]
  BY <1>1, <1>2, <1>3, IteratedNext
<1>6. \A v \in V : g[n + 1][v] = Below(v, f)
  <2>1. n + 1 \in 1..(n + 1)
    BY <1>1
  <2> QED BY <1>1, <2>1 DEF g, PathSteps
<1> QED BY <1>4, <1>5, <1>6 DEF t

\* No frames have the path it begins with.
LEMMA PathEmpty == OutputPath(<<>>) = NoPath
<1> DEFINE c == <<>>
<1>1. c \in Seq(Frames) /\ Len(c) = 0
  OBVIOUS
<1> HIDE DEF c
<1>2. OutputPath(c) = Iterated(0, PathType, PathSteps(c), NoPath)
      /\ PathSteps(c) \in Steps(0, PathType)
  BY <1>1, PathIterated, PathStepsType
<1>3. OutputPath(c) = NoPath
  BY <1>2, NoPathType, IteratedZero
<1> QED BY <1>3 DEF c

\* What the directories of one frame more are.
DirOf(f) == IF f.kind = "prefix" THEN <<>> ELSE f.dir.elems

\* A frame's directory is a sequence of elements.
LEMMA DirType ==
  ASSUME NEW f \in Frames
  PROVE  DirOf(f) \in Seq(STRING)
<1>1. <<>> \in Seq(STRING)
  OBVIOUS
<1>2. CASE f \in [kind : {"root", "dir"}, dir : PathType]
  BY <1>1, <1>2 DEF DirOf, PathType
<1>3. CASE f \in [kind : {"prefix"}, prefix : Modules \cup Tags]
  BY <1>1, <1>3 DEF DirOf
<1> QED BY <1>2, <1>3 DEF Frames

DirsOf(c) == [i \in DOMAIN c |-> DirOf(c[i])]

\* AllElems, by the directories of the frames.
LEMMA AllElemsIsFlat ==
  ASSUME NEW c
  PROVE  AllElems(c) = FlattenSeq(DirsOf(c))
BY DEF AllElems, DirsOf, DirOf

\* Each frame has a directory.
LEMMA DirsType ==
  ASSUME NEW c \in Seq(Frames)
  PROVE  DirsOf(c) \in Seq(Seq(STRING))
<1>1. \A i \in DOMAIN c : DirOf(c[i]) \in Seq(STRING)
  BY DirType, LenProperties, ElementOfSeq
<1>2. DOMAIN c = 1..Len(c) /\ Len(c) \in Nat
  BY LenProperties
<1> HIDE DEF DirOf
<1> QED BY <1>1, <1>2 DEF DirsOf

\* The elements of one frame more.
LEMMA AllElemsAppend ==
  ASSUME NEW c \in Seq(Frames), NEW f \in Frames
  PROVE  AllElems(Append(c, f)) = AllElems(c) \o DirOf(f) /\ AllElems(c) \in Seq(STRING)
<1> DEFINE t == Append(c, f)
           n == Len(c)
<1>1. t \in Seq(Frames) /\ n \in Nat /\ Len(t) = n + 1 /\ t[n + 1] = f
      /\ DOMAIN c = 1..n /\ DOMAIN t = 1..(n + 1) /\ \A i \in 1..n : t[i] = c[i]
  BY AppendProperties, LenProperties
<1> HIDE DEF t, n
<1>2. DirsOf(t) = Append(DirsOf(c), DirOf(f))
  <2> DEFINE d == DirsOf(c)
             e == DirOf(f)
  <2>1. d \in Seq(Seq(STRING)) /\ e \in Seq(STRING) /\ DirsOf(t) \in Seq(Seq(STRING))
    BY <1>1, DirsType, DirType
  <2>2. Len(d) = n /\ Len(DirsOf(t)) = n + 1
    <3>1. DOMAIN d = 1..n /\ DOMAIN DirsOf(t) = 1..(n + 1)
      BY <1>1 DEF DirsOf
    <3> QED BY <1>1, <2>1, <3>1, LenProperties
  <2>3. \A i \in 1..n : DirsOf(t)[i] = d[i]
    BY <1>1 DEF DirsOf
  <2>4. DirsOf(t)[n + 1] = e
    BY <1>1 DEF DirsOf
  <2> HIDE DEF d, e
  <2>5. DirsOf(t) = Append(d, e)
    BY <2>1, <2>2, <2>3, <2>4, IsAppend
  <2> QED BY <2>5 DEF d, e
<1>3. DirsOf(c) \in Seq(Seq(STRING)) /\ DirOf(f) \in Seq(STRING)
  BY DirsType, DirType
<1>4. FlattenSeq(DirsOf(t)) = FlattenSeq(DirsOf(c)) \o DirOf(f)
      /\ FlattenSeq(DirsOf(c)) \in Seq(STRING)
  BY <1>2, <1>3, FlattenAppend, FlattenType
<1> QED BY <1>4, AllElemsIsFlat DEF t

\* The frames of a context: the root is at its bottom, and nowhere else.
IsContext(c, r) == /\ c \in Seq(Frames) /\ c # <<>> /\ c[1] = r
                   /\ \A i \in DOMAIN c : c[i].kind = "root" <=> i = 1

\* A context without its last frame.
LEMMA ShorterContext ==
  ASSUME NEW c \in Seq(Frames), NEW f \in Frames, NEW r, IsContext(Append(c, f), r)
  PROVE  \/ c = <<>> /\ f = r
         \/ IsContext(c, r) /\ f.kind # "root"
<1> DEFINE t == Append(c, f)
           n == Len(c)
<1>1. n \in Nat /\ t[n + 1] = f /\ DOMAIN c = 1..n /\ DOMAIN t = 1..(n + 1)
      /\ \A i \in 1..n : t[i] = c[i]
  OBVIOUS
<1>2. c = <<>> <=> n = 0
  OBVIOUS
<1> HIDE DEF t, n
<1>3. t[1] = r /\ \A i \in 1..(n + 1) : t[i].kind = "root" <=> i = 1
  BY <1>1 DEF IsContext, t
<1>4. CASE n = 0
  BY <1>1, <1>2, <1>3, <1>4
<1>5. CASE n # 0
  <2>1. 1 \in 1..n /\ n + 1 \in 1..(n + 1) /\ n + 1 # 1 /\ \A i \in 1..n : i \in 1..(n + 1)
    BY <1>1, <1>5
  <2>2. c[1] = r /\ \A i \in 1..n : c[i].kind = "root" <=> i = 1
    BY <1>1, <1>3, <2>1
  <2>3. f.kind # "root"
    BY <1>1, <1>3, <2>1
  <2> QED BY <1>1, <1>2, <1>5, <2>2, <2>3 DEF IsContext
<1> QED BY <1>4, <1>5

\* Joining directory by directory gives what cleaning at once does.
LEMMA PathOfContext ==
  ASSUME NEW out \in PathType, NEW c, IsContext(c, Root(out))
  PROVE  OutputPath(c).abs = out.abs /\ OutputPath(c).elems = CleanElems(out.abs, AllElems(c))
<1> DEFINE r == Root(out)
           P(u) == OutputPath(u).abs = out.abs
                   /\ OutputPath(u).elems = CleanElems(out.abs, AllElems(u))
           S == {u \in Seq(Frames) : IsContext(u, r) => P(u)}
<1>0. out.abs \in BOOLEAN /\ out.elems \in Seq(STRING)
  BY DEF PathType
<1>1. <<>> \in S
  BY DEF IsContext
<1>2. ASSUME NEW u \in Seq(Frames), NEW f \in Frames, u \in S PROVE Append(u, f) \in S
  <2>0. Append(u, f) \in Seq(Frames)
    BY AppendProperties
  <2> SUFFICES ASSUME IsContext(Append(u, f), r) PROVE P(Append(u, f))
    BY <2>0
  <2> DEFINE p == OutputPath(u)
             a == AllElems(u)
             d == DirOf(f)
  <2>1. OutputPath(Append(u, f)) = Below(p, f) /\ AllElems(Append(u, f)) = a \o d
        /\ p \in PathType /\ a \in Seq(STRING) /\ d \in Seq(STRING)
    BY PathAppend, AllElemsAppend, OutputPathType, DirType
  <2>2. CASE u = <<>> /\ f = r
    <3>1. a = <<>>
      <4>1. DirsOf(u) = <<>>
        BY <2>2 DEF DirsOf
      <4> QED BY <4>1, AllElemsIsFlat, FlattenEmpty
    <3>2. f.kind = "root" /\ f.dir = Clean(out)
      BY <2>2 DEF Root
    <3>3. Below(p, f) = Clean(out)
      BY <3>2 DEF Below
    <3>4. d = Clean(out).elems /\ a \o d = d
      BY <2>1, <3>1, <3>2, ConcatEmptySeq DEF DirOf
    <3> HIDE DEF a, d
    <3>5. Clean(out).abs = out.abs /\ Clean(out).elems = CleanElems(out.abs, out.elems)
      BY DEF Clean, PathType
    <3>6. CleanElems(out.abs, d) = d
      BY <1>0, <3>4, <3>5, CleanElemsType, CleanIsCleaned, CleanedStays
    <3> QED BY <2>1, <3>3, <3>4, <3>5, <3>6
  <2>3. CASE IsContext(u, r) /\ f.kind # "root"
    <3>1. p.abs = out.abs /\ p.elems = CleanElems(out.abs, a)
      BY <1>2, <2>3
    <3> HIDE DEF p, a, d
    <3>2. CASE f.kind = "prefix"
      <4>1. Below(p, f) = p /\ d = <<>>
        BY <3>2 DEF Below, d, DirOf
      <4>2. a \o d = a
        BY <2>1, <4>1, ConcatEmptySeq
      <4> QED BY <2>1, <3>1, <4>1, <4>2
    <3>3. CASE f.kind # "prefix"
      <4>1. f.kind = "dir" /\ f.dir \in PathType
        BY <2>3, <3>3 DEF Frames
      <4>2. Below(p, f) = Join(p, f.dir) /\ d = f.dir.elems
        BY <4>1 DEF Below, d, DirOf
      <4>3. Join(p, f.dir).abs = p.abs
            /\ Join(p, f.dir).elems = CleanElems(p.abs, p.elems \o f.dir.elems)
        BY <2>1, <4>1, JoinType
      <4>4. CleanElems(out.abs, CleanElems(out.abs, a) \o d) = CleanElems(out.abs, a \o d)
        BY <1>0, <2>1, CleanInSteps
      <4> QED BY <2>1, <3>1, <4>2, <4>3, <4>4
    <3> QED BY <3>2, <3>3
  <2> QED BY <2>2, <2>3, ShorterContext
<1> HIDE DEF S
<1>3. Seq(Frames) \subseteq S
  BY <1>1, <1>2, SeqInduct
<1> QED BY <1>3 DEF S, IsContext

\* PathsAreClean, of one context.
LEMMA PathIsClean ==
  ASSUME NEW out \in PathType, NEW c, IsContext(c, Root(out)),
         NEW i \in 1..(Len(OutputPath(c).elems) - 1), OutputPath(c).elems[i] # ".."
  PROVE  OutputPath(c).elems[i + 1] # ".."
<1> DEFINE e == OutputPath(c).elems
<1>1. out.abs \in BOOLEAN /\ c \in Seq(Frames) /\ e = CleanElems(out.abs, AllElems(c))
  BY PathOfContext DEF PathType, IsContext
<1>2. e \in Seq(STRING)
  BY <1>1, OutputPathType DEF PathType
<1>3. AllElems(c) \in Seq(STRING)
  BY <1>1, AllElemsIsFlat, DirsType, FlattenType
<1>4. IsCleaned(out.abs, e)
  BY <1>1, <1>3, CleanIsCleaned
<1> HIDE DEF e
<1>5. i + 1 \in DOMAIN e /\ i \in 1..(i + 1)
  <2>1. Len(e) \in Nat /\ DOMAIN e = 1..Len(e)
    BY <1>2, LenProperties
  <2>2. i \in 1..(Len(e) - 1)
    BY DEF e
  <2> QED BY <2>1, <2>2
<1> QED BY <1>4, <1>5 DEF IsCleaned, e

-----------------------------------------------------------------------------
(* Pushing and popping.                                                    *)

\* What is open on a context.
IsOpen(c, o) == \E b \in 1..2 : IsBase(c, b) /\ o = OpenedAbove(c, b)

\* The last directory, unless there are prefixes only.
LEMMA LastDirExists ==
  ASSUME NEW s, NEW n \in Nat, DOMAIN s = 1..n, Len(s) = n
  PROVE  /\ LastDir(s) = {} <=> \A i \in 1..n : s[i].kind = "prefix"
         /\ \A i, j \in LastDir(s) : i = j
<1>1. ASSUME NEW k \in 1..n, s[k].kind # "prefix" PROVE LastDir(s) # {}
  <2> DEFINE T == {i \in 1..n : s[i].kind # "prefix"}
  <2>1. T \in SUBSET (1..n) /\ T # {}
    BY <1>1
  <2> HIDE DEF T
  <2>2. Max(T) \in T /\ \A i \in T : i <= Max(T)
    BY <2>1, MaxPosition
  <2>3. PICK m \in T : \A i \in T : i <= m
    BY <2>2
  <2>4. m \in 1..n /\ s[m].kind # "prefix"
    BY <2>3 DEF T
  <2>5. \A j \in (m + 1)..n : s[j].kind = "prefix"
    <3> SUFFICES ASSUME NEW j \in (m + 1)..n, s[j].kind # "prefix" PROVE FALSE
      OBVIOUS
    <3>1. j \in 1..n /\ ~(j <= m)
      BY <2>4
    <3> QED BY <2>3, <3>1 DEF T
  <2>6. m \in LastDir(s)
    BY <2>4, <2>5 DEF LastDir
  <2> QED BY <2>6
<1>2. ASSUME NEW i \in LastDir(s) PROVE i \in 1..n /\ s[i].kind # "prefix"
  BY <1>2 DEF LastDir
<1>3. ASSUME NEW i \in LastDir(s), NEW j \in LastDir(s), i < j PROVE FALSE
  <2>1. i \in 1..n /\ j \in 1..n /\ s[j].kind # "prefix" /\ \A k \in (i + 1)..n : s[k].kind = "prefix"
    BY <1>3 DEF LastDir
  <2>2. j \in (i + 1)..n
    BY <1>3, <2>1
  <2> QED BY <2>1, <2>2
<1>4. \A i, j \in LastDir(s) : i = j
  <2> SUFFICES ASSUME NEW i \in LastDir(s), NEW j \in LastDir(s), i # j PROVE FALSE
    OBVIOUS
  <2>1. i < j \/ j < i
    BY <1>2
  <2> QED BY <1>3, <2>1
<1> QED BY <1>1, <1>2, <1>4

\* What is open knows what was pushed.
LEMMA BeforeKind ==
  ASSUME NEW c, NEW kind
  PROVE  Before(c, kind).kind = kind
BY DEF Before

\* What is open are the frames above the base.
LEMMA OpenedIsSeq ==
  ASSUME NEW c \in Seq(Frames), NEW b \in 1..2, IsBase(c, b)
  PROVE  /\ Len(c) - b \in Nat /\ Len(OpenedAbove(c, b)) = Len(c) - b
         /\ DOMAIN OpenedAbove(c, b) = 1..(Len(c) - b)
         /\ \A i \in 1..(Len(c) - b) :
               /\ b + i \in 2..Len(c)
               /\ OpenedAbove(c, b)[i] = Before(SubSeq(c, 1, b + i - 1), c[b + i].kind)
               /\ OpenedAbove(c, b)[i].kind = c[b + i].kind
         /\ OpenedAbove(c, b) \in Seq({OpenedAbove(c, b)[i] : i \in 1..(Len(c) - b)})
<1> DEFINE o == OpenedAbove(c, b)
           n == Len(c) - b
           X == {o[i] : i \in 1..n}
<1>1. n \in Nat /\ \A i \in 1..n : b + i \in 2..Len(c)
  BY DEF IsBase
<1>2. o = [i \in 1..n |-> OpenedBy(c, b + i)]
  BY DEF OpenedAbove
<1> HIDE DEF o, n
<1>3. o \in [1..n -> X]
  BY <1>2
<1>4. o \in Seq(X) /\ Len(o) = n
  <2> HIDE DEF X
  <2> QED BY <1>1, <1>3
<1>5. \A i \in 1..n : o[i] = Before(SubSeq(c, 1, b + i - 1), c[b + i].kind)
  <2> SUFFICES ASSUME NEW i \in 1..n
               PROVE  o[i] = Before(SubSeq(c, 1, b + i - 1), c[b + i].kind)
    OBVIOUS
  <2>1. PICK d : d = SubSeq(c, 1, b + i - 1)
    OBVIOUS
  <2>2. b + i \in Int
    BY <1>1
  <2> QED BY <1>2, <2>1, <2>2 DEF OpenedBy
<1>6. ASSUME NEW i \in 1..n PROVE o[i].kind = c[b + i].kind
  <2>1. PICK d : d = SubSeq(c, 1, b + i - 1)
    OBVIOUS
  <2>2. o[i] = Before(d, c[b + i].kind)
    BY <1>5, <2>1
  <2> QED BY <2>2, BeforeKind
<1> QED BY <1>1, <1>2, <1>4, <1>5, <1>6 DEF o, n

\* A beginning of a context.
LEMMA BeginningIsContext ==
  ASSUME NEW r, NEW c, IsContext(c, r), NEW n \in 1..Len(c)
  PROVE  IsContext(SubSeq(c, 1, n), r) /\ Len(SubSeq(c, 1, n)) = n
         /\ \A i \in 1..n : SubSeq(c, 1, n)[i] = c[i]
<1> DEFINE d == SubSeq(c, 1, n)
<1>1. c \in Seq(Frames) /\ n \in Nat /\ n # 0 /\ DOMAIN c = 1..Len(c)
      /\ \A i \in 1..n : i \in 1..Len(c) /\ c[i] \in Frames
  BY DEF IsContext
<1>2. d = [i \in 1..n |-> c[i]]
  BY <1>1
<1> HIDE DEF d
<1>3. d \in Seq(Frames) /\ Len(d) = n /\ DOMAIN d = 1..n /\ \A i \in 1..n : d[i] = c[i]
  BY <1>1, <1>2
<1>4. d # <<>> /\ 1 \in 1..n
  BY <1>1, <1>3
<1> QED BY <1>1, <1>3, <1>4 DEF IsContext, d

\* What is open on a beginning of a context that the base is in.
LEMMA OpenedOnBeginning ==
  ASSUME NEW r, NEW c, IsContext(c, r), NEW b \in 1..2, IsBase(c, b), NEW n \in b..Len(c)
  PROVE  /\ IsBase(SubSeq(c, 1, n), b)
         /\ OpenedAbove(SubSeq(c, 1, n), b) = SubSeq(OpenedAbove(c, b), 1, n - b)
<1> DEFINE d == SubSeq(c, 1, n)
           o == OpenedAbove(c, b)
           k == n - b
<1>1. c \in Seq(Frames) /\ Len(c) \in Nat /\ n \in 1..Len(c) /\ k \in Nat /\ b <= n
      /\ k <= Len(c) - b /\ n - b = k
  BY DEF IsContext, IsBase
<1>2. Len(d) = n /\ d \in Seq(Frames) /\ \A i \in 1..n : d[i] = c[i]
  BY <1>1, BeginningIsContext DEF IsContext
<1> HIDE DEF d
<1>3. IsBase(d, b)
  <2>1. b = 2 => 2 \in 1..n
    BY <1>1
  <2> QED BY <1>1, <1>2, <2>1 DEF IsBase
<1>4. SubSeq(o, 1, k) = [i \in 1..k |-> o[i]]
  BY <1>1
<1>5. ASSUME NEW i \in 1..k PROVE o[i] = OpenedBy(d, b + i)
  <2>1. b + i \in Int /\ i \in 1..(Len(c) - b) /\ b + i \in 1..n /\ b + i - 1 \in 0..n /\ n \in 0..Len(c)
    BY <1>1
  <2>2. o[i] = OpenedBy(c, b + i)
    BY <2>1 DEF OpenedAbove
  <2>3. SubSeq(d, 1, b + i - 1) = SubSeq(c, 1, b + i - 1)
    BY <1>1, <2>1, BeginningTwice DEF d
  <2>4. PICK e : e = SubSeq(c, 1, b + i - 1)
    OBVIOUS
  <2>5. OpenedBy(d, b + i) = Before(e, d[b + i].kind)
    <3>1. e = SubSeq(d, 1, b + i - 1)
      BY <2>3, <2>4
    <3> QED BY <3>1 DEF OpenedBy
  <2>6. OpenedBy(c, b + i) = Before(e, c[b + i].kind)
    BY <2>1, <2>4 DEF OpenedBy
  <2> QED BY <1>2, <2>1, <2>2, <2>5, <2>6
<1>6. OpenedAbove(d, b) = [i \in 1..k |-> OpenedBy(d, b + i)]
  BY <1>1, <1>2 DEF OpenedAbove
<1> HIDE DEF o, k
<1>7. OpenedAbove(d, b) = SubSeq(o, 1, k)
  BY <1>4, <1>5, <1>6
<1> QED BY <1>3, <1>7 DEF d, o, k

\* A push adds to what is open.
LEMMA Pushed ==
  ASSUME NEW r, NEW c, IsContext(c, r), NEW o, IsOpen(c, o),
         NEW f \in Frames, f.kind # "root"
  PROVE  IsContext(Append(c, f), r) /\ IsOpen(Append(c, f), Append(o, Before(c, f.kind)))
<1> DEFINE t == Append(c, f)
           n == Len(c)
           x == Before(c, f.kind)
<1>1. c \in Seq(Frames) /\ n \in Nat /\ n # 0 /\ DOMAIN c = 1..n
  BY DEF IsContext
<1>2. t \in Seq(Frames) /\ Len(t) = n + 1 /\ t[n + 1] = f /\ DOMAIN t = 1..(n + 1)
      /\ t # <<>> /\ \A i \in 1..n : t[i] = c[i]
  BY <1>1, AppendProperties, LenProperties
<1>3. \A i \in 0..n : SubSeq(t, 1, i) = SubSeq(c, 1, i)
  BY <1>1, BeginningOfAppend
<1>4. SubSeq(t, 1, n) = c
  <2>1. n \in 0..n
    BY <1>1
  <2> QED BY <1>1, <1>3, <2>1, SubSeqFull
<1> HIDE DEF t
<1>5. IsContext(t, r)
  <2>1. 1 \in 1..n /\ \A i \in 1..(n + 1) : i \in 1..n \/ (i = n + 1 /\ i # 1)
    BY <1>1
  <2>2. t[1] = r
    BY <1>2, <2>1 DEF IsContext
  <2>3. \A i \in 1..(n + 1) : t[i].kind = "root" <=> i = 1
    BY <1>1, <1>2, <2>1 DEF IsContext
  <2> QED BY <1>2, <2>2, <2>3 DEF IsContext
<1>6. PICK b \in 1..2 : IsBase(c, b) /\ o = OpenedAbove(c, b)
  BY DEF IsOpen
<1> DEFINE k == n - b
           X == {o[i] : i \in 1..k} \cup {x}
<1>7. k \in Nat /\ Len(o) = k /\ DOMAIN o = 1..k /\ o \in Seq(X)
  <2>1. LET a == OpenedAbove(c, b) IN
           /\ Len(c) - b \in Nat /\ Len(a) = Len(c) - b /\ DOMAIN a = 1..(Len(c) - b)
           /\ a \in Seq({a[i] : i \in 1..(Len(c) - b)})
    BY <1>1, <1>6, OpenedIsSeq
  <2>2. k \in Nat /\ Len(o) = k /\ DOMAIN o = 1..k /\ o \in Seq({o[i] : i \in 1..k})
    BY <1>6, <2>1
  <2> QED BY <2>2, SeqMonotonic
<1>8. IsBase(t, b) /\ b <= n
  <2>1. b <= n /\ (b = 2 => 2 \in 1..n)
    BY <1>1, <1>6 DEF IsBase
  <2> QED BY <1>1, <1>2, <1>6, <2>1 DEF IsBase
<1>9. OpenedAbove(t, b) = [i \in 1..(k + 1) |-> OpenedBy(t, b + i)]
  <2>1. Len(t) - b = k + 1
    BY <1>1, <1>2
  <2> QED BY <2>1 DEF OpenedAbove
<1>10. ASSUME NEW i \in 1..k PROVE OpenedBy(t, b + i) = o[i]
  <2>1. b + i \in Int /\ b + i \in 1..n /\ b + i - 1 \in 0..n
    BY <1>1, <1>8
  <2>2. o[i] = OpenedBy(c, b + i)
    BY <1>6 DEF OpenedAbove
  <2>3. PICK e : e = SubSeq(c, 1, b + i - 1)
    OBVIOUS
  <2>4. OpenedBy(t, b + i) = Before(e, t[b + i].kind)
    <3>1. e = SubSeq(t, 1, b + i - 1)
      BY <1>3, <2>1, <2>3
    <3> QED BY <3>1 DEF OpenedBy
  <2>5. OpenedBy(c, b + i) = Before(e, c[b + i].kind)
    BY <2>1, <2>3 DEF OpenedBy
  <2> QED BY <1>2, <2>1, <2>2, <2>4, <2>5
<1>11. OpenedBy(t, b + (k + 1)) = x
  <2>1. b + (k + 1) = n + 1 /\ (n + 1) - 1 = n /\ n + 1 \in Int
    BY <1>1
  <2>2. c = SubSeq(t, 1, (n + 1) - 1)
    BY <1>4, <2>1
  <2>3. OpenedBy(t, n + 1) = Before(c, t[n + 1].kind)
    BY <2>1, <2>2 DEF OpenedBy
  <2>4. OpenedBy(t, n + 1) = x
    BY <1>2, <2>3
  <2> QED BY <2>1, <2>4
<1>12. Append(o, x) = [i \in 1..(k + 1) |-> IF i = k + 1 THEN x ELSE o[i]]
  <2>1. x \in X
    OBVIOUS
  <2> HIDE DEF k, X, x
  <2>2. Len(o) = k /\ o \in Seq(X) /\ k \in Nat
    BY <1>7
  <2> DEFINE a == Append(o, x)
  <2>3. a \in Seq(X) /\ Len(a) = k + 1 /\ a[k + 1] = x /\ \A i \in 1..k : a[i] = o[i]
    BY <2>1, <2>2, AppendProperties
  <2> HIDE DEF a
  <2>4. a = [i \in 1..(k + 1) |-> a[i]]
    BY <2>3, LenProperties
  <2>5. \A i \in 1..(k + 1) : a[i] = IF i = k + 1 THEN x ELSE o[i]
    BY <2>2, <2>3
  <2> QED BY <2>4, <2>5 DEF a
<1> HIDE DEF x, k, X
<1>13. \A i \in 1..(k + 1) : i = k + 1 \/ (i # k + 1 /\ i \in 1..k)
  BY <1>7
<1>14. OpenedAbove(t, b) = Append(o, x)
  BY <1>9, <1>10, <1>11, <1>12, <1>13
<1> QED BY <1>5, <1>8, <1>14 DEF IsOpen, t, x

\* A pop or a PopDir takes one back to what was there before a push that is open.
IsUndone(c, o, d, p) ==
    Len(d) < Len(c) /\ o # <<>> =>
       LET before == o[Len(p) + 1]
       IN /\ OutputPath(d) = before.path
          /\ before.kind = "dir" \/ Len(d) = Len(c) - 1 => PrefixesOf(d) = before.prefixes

\* Going back to below a frame that is open.
LEMMA BackTo ==
  ASSUME NEW r, NEW c, IsContext(c, r), NEW b \in 1..2, IsBase(c, b),
         NEW k \in 1..(Len(c) - b)
  PROVE  LET o == OpenedAbove(c, b)
             d == SubSeq(c, 1, b + k - 1)
             p == SubSeq(o, 1, k - 1)
         IN IsContext(d, r) /\ IsOpen(d, p) /\ IsUndone(c, o, d, p)
<1> DEFINE o == OpenedAbove(c, b)
           n == b + k - 1
           d == SubSeq(c, 1, n)
           p == SubSeq(o, 1, k - 1)
<1>1. c \in Seq(Frames) /\ Len(c) \in Nat /\ n \in 1..Len(c) /\ n \in b..Len(c) /\ n - b = k - 1
      /\ k \in 1..(Len(c) - b) /\ k - 1 \in Nat
  BY DEF IsContext
<1>2. IsContext(d, r) /\ Len(d) = n
  BY <1>1, BeginningIsContext
<1>3. IsBase(d, b) /\ OpenedAbove(d, b) = SubSeq(o, 1, n - b)
  BY <1>1, OpenedOnBeginning
<1>4. OpenedAbove(d, b) = p
  BY <1>1, <1>3
<1>5. IsOpen(d, p)
  BY <1>3, <1>4 DEF IsOpen
<1>6. Len(p) = k - 1
  <2>1. Len(OpenedAbove(d, b)) = Len(d) - b
    BY <1>2, <1>3, OpenedIsSeq DEF IsContext
  <2> QED BY <1>1, <1>2, <1>4, <2>1
<1>7. o[k] = Before(d, c[b + k].kind)
  BY <1>1, OpenedIsSeq
<1> HIDE DEF o, d, p, n
<1>8. o[Len(p) + 1] = Before(d, c[b + k].kind)
  <2>1. Len(p) + 1 = k
    BY <1>6
  <2> QED BY <1>7, <2>1
<1>9. IsUndone(c, o, d, p)
  BY <1>8 DEF IsUndone, Before
<1> QED BY <1>2, <1>5, <1>9 DEF o, d, p, n

\* ModuleBase.Pop.
LEMMA Popped ==
  ASSUME NEW r, NEW c, IsContext(c, r), NEW o, IsOpen(c, o), Len(c) > 1
  PROVE  LET d == Front(c)
             p == IF o = <<>> THEN o ELSE Front(o)
         IN IsContext(d, r) /\ IsOpen(d, p) /\ IsUndone(c, o, d, p)
<1>1. PICK b \in 1..2 : IsBase(c, b) /\ o = OpenedAbove(c, b)
  BY DEF IsOpen
<1>2. c \in Seq(Frames) /\ Len(c) \in Nat
  BY DEF IsContext
<1> DEFINE k == Len(c) - b
<1>3. k \in Nat /\ Len(o) = k
  BY <1>1, <1>2, OpenedIsSeq
<1>4. Front(c) = SubSeq(c, 1, Len(c) - 1)
  BY DEF Front
<1>5. CASE k = 0
  <2>1. Len(c) = 2 /\ b = 2
    BY <1>1, <1>2, <1>5 DEF IsBase
  <2>2. o = <<>>
    <3>1. o = [i \in 1..0 |-> OpenedBy(c, b + i)]
      BY <1>1, <1>5 DEF OpenedAbove
    <3> QED BY <3>1
  <2> DEFINE d == SubSeq(c, 1, 1)
  <2>3. Front(c) = d
    BY <1>4, <2>1
  <2>4. IsContext(d, r) /\ Len(d) = 1
    BY <2>1, BeginningIsContext
  <2> HIDE DEF d
  <2>5. IsBase(d, 1) /\ OpenedAbove(d, 1) = <<>>
    <3>1. OpenedAbove(d, 1) = [i \in 1..0 |-> OpenedBy(d, 1 + i)]
      BY <2>4 DEF OpenedAbove
    <3> QED BY <2>4, <3>1 DEF IsBase
  <2>6. IsOpen(d, o)
    BY <2>2, <2>5 DEF IsOpen
  <2>7. IsUndone(c, o, d, o)
    BY <2>2 DEF IsUndone
  <2> QED BY <2>2, <2>3, <2>4, <2>6, <2>7
<1>6. CASE k # 0
  <2>1. o # <<>>
    BY <1>3, <1>6
  <2>2. k \in 1..(Len(c) - b) /\ b + k - 1 = Len(c) - 1
    BY <1>2, <1>3, <1>6
  <2>3. Front(o) = SubSeq(o, 1, k - 1)
    BY <1>3 DEF Front
  <2> HIDE DEF k
  <2>4. Front(c) = SubSeq(c, 1, b + k - 1)
    BY <1>4, <2>2
  <2>5. LET a == OpenedAbove(c, b)
             d == SubSeq(c, 1, b + k - 1)
             p == SubSeq(a, 1, k - 1)
         IN IsContext(d, r) /\ IsOpen(d, p) /\ IsUndone(c, a, d, p)
    BY <1>1, <2>2, BackTo
  <2> QED BY <1>1, <2>1, <2>3, <2>4, <2>5
<1> QED BY <1>5, <1>6

\* ModuleBase.PopDir.
LEMMA PoppedToDir ==
  ASSUME NEW r, NEW c, IsContext(c, r), r.kind = "root", NEW o, IsOpen(c, o)
  PROVE  IsContext(PoppedDir(c), r) /\ IsOpen(PoppedDir(c), Closed(o))
         /\ IsUndone(c, o, PoppedDir(c), Closed(o))
<1>1. PICK b \in 1..2 : IsBase(c, b) /\ o = OpenedAbove(c, b)
  BY DEF IsOpen
<1> DEFINE n == Len(c)
           k == n - b
<1>2. c \in Seq(Frames) /\ n \in Nat /\ DOMAIN c = 1..n /\ n # 0 /\ 1 \in 1..n /\ c[1].kind = "root"
  BY DEF IsContext
<1>3. k \in Nat /\ Len(o) = k /\ DOMAIN o = 1..k
      /\ \A i \in 1..k : b + i \in 2..n /\ o[i].kind = c[b + i].kind
  BY <1>1, <1>2, OpenedIsSeq
<1> HIDE DEF n, k
<1>4. LastDir(c) # {} /\ \A i, j \in LastDir(c) : i = j
  BY <1>2, LastDirExists DEF n
<1>5. PICK i \in LastDir(c) : i = CHOOSE j \in LastDir(c) : TRUE
  BY <1>4
<1>6. PoppedDir(c) = SubSeq(c, 1, IF i = 1 THEN 1 ELSE i - 1)
  BY <1>5 DEF PoppedDir
<1>7. CASE LastDir(o) # {}
  <2>1. PICK j \in LastDir(o) : j = CHOOSE h \in LastDir(o) : TRUE
    BY <1>7
  <2>2. j \in 1..k /\ o[j].kind # "prefix" /\ \A h \in (j + 1)..k : o[h].kind = "prefix"
    BY <1>3, <2>1 DEF LastDir
  <2>3. b + j \in LastDir(c)
    <3>1. b + j \in 1..n /\ c[b + j].kind # "prefix"
      BY <1>3, <2>2
    <3>2. ASSUME NEW h \in ((b + j) + 1)..n PROVE c[h].kind = "prefix"
      <4>1. h - b \in (j + 1)..k /\ h - b \in 1..k /\ b + (h - b) = h
        BY <1>2, <1>3, <2>2 DEF k
      <4> QED BY <1>3, <2>2, <4>1
    <3> QED BY <1>2, <3>1, <3>2 DEF LastDir, n
  <2>4. i = b + j /\ i # 1
    BY <1>4, <2>2, <2>3
  <2>5. PoppedDir(c) = SubSeq(c, 1, b + j - 1)
    BY <1>6, <2>4
  <2>6. Closed(o) = SubSeq(o, 1, j - 1)
    BY <1>7, <2>1 DEF Closed
  <2>7. j \in 1..(Len(c) - b)
    BY <2>2 DEF k, n
  <2>8. LET a == OpenedAbove(c, b)
             d == SubSeq(c, 1, b + j - 1)
             p == SubSeq(a, 1, j - 1)
         IN IsContext(d, r) /\ IsOpen(d, p) /\ IsUndone(c, a, d, p)
    BY <1>1, <2>7, BackTo
  <2> QED BY <1>1, <2>5, <2>6, <2>8
<1>8. CASE LastDir(o) = {}
  <2>1. \A j \in 1..k : o[j].kind = "prefix"
    BY <1>3, <1>8, LastDirExists
  <2>2. \A h \in 2..n : c[h].kind = "prefix"
    <3> SUFFICES ASSUME NEW h \in 2..n PROVE c[h].kind = "prefix"
      OBVIOUS
    <3>1. CASE h <= b
      <4>1. h = 2 /\ b = 2
        BY <3>1
      <4> QED BY <1>1, <4>1 DEF IsBase
    <3>2. CASE h > b
      <4>1. h - b \in 1..k /\ b + (h - b) = h
        BY <1>2, <3>2 DEF k
      <4> QED BY <1>3, <2>1, <4>1
    <3> QED BY <3>1, <3>2
  <2>3. i = 1
    <3>1. i \in 1..n /\ c[i].kind # "prefix"
      BY <1>2, <1>5 DEF LastDir
    <3>2. i # 1 => i \in 2..n
      BY <1>2, <3>1
    <3> QED BY <2>2, <3>1, <3>2
  <2> DEFINE d == SubSeq(c, 1, 1)
  <2>4. PoppedDir(c) = d /\ Closed(o) = <<>>
    BY <1>6, <1>8, <2>3 DEF Closed
  <2>5. IsContext(d, r) /\ Len(d) = 1 /\ d \in Seq(Frames)
    BY <1>2, BeginningIsContext DEF n, IsContext
  <2>6. SubSeq(c, 1, b) = IF b = 1 THEN d ELSE Append(d, c[2])
    <3>1. CASE b = 1
      BY <3>1
    <3>2. CASE b = 2
      <4>1. 2 <= n
        BY <1>1, <3>2 DEF IsBase, n
      <4>2. SubSeq(c, 1, 2) = SubSeq(c, 1, 2 - 1) \o <<c[2]>>
        <5>1. 1 \in 1..Len(c) /\ 2 \in 1..Len(c)
          BY <1>2, <4>1 DEF n
        <5> QED BY <1>2, <5>1, SubSeqRecursiveSecond
      <4>3. c[2] \in Frames
        BY <1>2, <4>1 DEF n
      <4>4. Append(d, c[2]) = d \o <<c[2]>>
        <5> HIDE DEF d
        <5> QED BY <2>5, <4>3, AppendIsConcat
      <4>5. 2 - 1 = 1
        OBVIOUS
      <4> QED BY <3>2, <4>2, <4>4, <4>5
    <3> QED BY <3>1, <3>2
  <2> HIDE DEF d
  <2>7. IsOpen(d, <<>>)
    <3>1. OpenedAbove(d, 1) = [j \in 1..0 |-> OpenedBy(d, 1 + j)]
      BY <2>5 DEF OpenedAbove
    <3>2. IsBase(d, 1) /\ OpenedAbove(d, 1) = <<>>
      BY <2>5, <3>1 DEF IsBase
    <3> QED BY <3>2 DEF IsOpen
  <2>8. ASSUME Len(d) < Len(c), o # <<>>
        PROVE  /\ OutputPath(d) = o[Len(<<>>) + 1].path
               /\ o[Len(<<>>) + 1].kind # "dir"
               /\ Len(d) = Len(c) - 1 => PrefixesOf(d) = o[Len(<<>>) + 1].prefixes
    <3>1. k # 0 /\ 1 \in 1..k /\ Len(<<>>) + 1 = 1
      <4>1. k = 0 => o = <<>>
        <5>1. o = [j \in 1..k |-> OpenedBy(c, b + j)]
          BY <1>1 DEF OpenedAbove, k, n
        <5> QED BY <5>1
      <4> QED BY <1>3, <2>8, <4>1
    <3>2. o[1] = Before(SubSeq(c, 1, b), c[b + 1].kind) /\ o[1].kind = "prefix"
      <4>1. o[1] = Before(SubSeq(c, 1, b + 1 - 1), c[b + 1].kind)
        BY <1>1, <1>2, <3>1, OpenedIsSeq DEF k, n
      <4>2. b + 1 - 1 = b
        OBVIOUS
      <4> QED BY <2>1, <3>1, <4>1, <4>2
    <3>3. OutputPath(SubSeq(c, 1, b)) = OutputPath(d)
      <4>1. CASE b = 1
        BY <2>6, <4>1
      <4>2. CASE b = 2
        <5>1. 2 \in 1..n /\ c[2] \in Frames /\ c[2].kind = "prefix"
          BY <1>1, <1>2, <4>2 DEF IsBase, n
        <5>2. OutputPath(Append(d, c[2])) = Below(OutputPath(d), c[2])
          BY <2>5, <5>1, PathAppend
        <5>3. Below(OutputPath(d), c[2]) = OutputPath(d)
          BY <5>1 DEF Below
        <5> QED BY <2>6, <4>2, <5>2, <5>3
      <4> QED BY <4>1, <4>2
    <3>4. ASSUME Len(d) = Len(c) - 1 PROVE SubSeq(c, 1, b) = d
      <4>0. n = 2
        <5>1. n \in Nat /\ 1 = n - 1
          BY <1>2, <2>5, <3>4 DEF n
        <5> QED BY <5>1
      <4>1. b = 1
        BY <1>3, <3>1, <4>0 DEF k
      <4> QED BY <2>6, <4>1
    <3>5. PICK e : e = SubSeq(c, 1, b)
      OBVIOUS
    <3>6. o[1].path = OutputPath(e) /\ o[1].prefixes = PrefixesOf(e)
      BY <3>2, <3>5 DEF Before
    <3> QED BY <3>1, <3>2, <3>3, <3>4, <3>5, <3>6
  <2>9. IsUndone(c, o, d, <<>>)
    BY <2>8 DEF IsUndone
  <2> QED BY <2>4, <2>5, <2>7, <2>9
<1> QED BY <1>7, <1>8

-----------------------------------------------------------------------------
(* The context.                                                            *)

\* The root is a frame.
LEMMA RootType ==
  ASSUME NEW out \in PathType
  PROVE  Root(out) \in Frames /\ Root(out).kind = "root"
<1>1. Clean(out) \in PathType
  BY CleanType
<1> QED BY <1>1 DEF Root, Frames

\* The invariant, context by context.
LEMMA ContextInvMeans ==
  ContextInv <=> /\ output \in PathType /\ alive \in BOOLEAN
                 /\ ctx \in [Modules -> Seq(Frames)]
                 /\ opens = [m \in Modules |-> opens[m]]
                 /\ \A m \in Modules : IsContext(ctx[m], Root(output)) /\ IsOpen(ctx[m], opens[m])
BY DEF ContextInv, ContextTypeOK, Rooted, OpensAreFrames, IsContext, IsOpen

\* A step of a module: its context becomes d, and what is open on it p.
LEMMA ContextMoves ==
  ASSUME ContextInv, NEW m \in Modules, NEW d, NEW p,
         IsContext(d, Root(output)), IsOpen(d, p), IsUndone(ctx[m], opens[m], d, p),
         ctx' = [ctx EXCEPT ![m] = d], opens' = [opens EXCEPT ![m] = p],
         UNCHANGED <<output, alive>>
  PROVE  ContextInv' /\ \A x \in Modules : IsUndone(ctx[x], opens[x], ctx'[x], opens'[x])
<1> DEFINE r == Root(output)
<1>1. /\ output \in PathType /\ alive \in BOOLEAN
      /\ ctx \in [Modules -> Seq(Frames)] /\ opens = [x \in Modules |-> opens[x]]
      /\ \A x \in Modules : IsContext(ctx[x], r) /\ IsOpen(ctx[x], opens[x])
  BY ContextInvMeans
<1>2. d \in Seq(Frames) /\ output' = output /\ alive' = alive
  BY DEF IsContext
<1>3. ctx' \in [Modules -> Seq(Frames)]
      /\ \A x \in Modules : ctx'[x] = IF x = m THEN d ELSE ctx[x]
  BY <1>1, <1>2
<1>4. opens' = [x \in Modules |-> opens'[x]]
      /\ \A x \in Modules : opens'[x] = IF x = m THEN p ELSE opens[x]
  BY <1>1
<1>5. Root(output)' = r
  BY <1>2 DEF Root, Clean
<1> HIDE DEF r
<1>6. \A x \in Modules : IsContext(ctx'[x], r) /\ IsOpen(ctx'[x], opens'[x])
  BY <1>1, <1>3, <1>4 DEF r
<1>7. ContextInv'
  BY <1>1, <1>2, <1>3, <1>4, <1>5, <1>6
     DEF ContextInv, ContextTypeOK, Rooted, OpensAreFrames, IsContext, IsOpen
<1>8. ASSUME NEW x \in Modules, x # m PROVE IsUndone(ctx[x], opens[x], ctx'[x], opens'[x])
  <2>1. Len(ctx[x]) \in Nat /\ ctx'[x] = ctx[x]
    BY <1>1, <1>3, <1>8
  <2> QED BY <2>1 DEF IsUndone
<1> QED BY <1>3, <1>4, <1>7, <1>8

\* Nothing happens to the contexts.
LEMMA ContextStays ==
  ASSUME ContextInv, UNCHANGED <<ctx, output, opens>>, alive' \in BOOLEAN
  PROVE  ContextInv' /\ \A x \in Modules : IsUndone(ctx[x], opens[x], ctx'[x], opens'[x])
<1>1. ctx' = ctx /\ output' = output /\ opens' = opens
  OBVIOUS
<1>2. ContextInv'
  <2>1. Root(output)' = Root(output)
    BY <1>1 DEF Root, Clean
  <2> QED BY <1>1, <2>1 DEF ContextInv, ContextTypeOK, Rooted, OpensAreFrames
<1>3. ASSUME NEW x \in Modules PROVE IsUndone(ctx[x], opens[x], ctx'[x], opens'[x])
  <2>1. Len(ctx[x]) \in Nat
    BY DEF ContextInv, ContextTypeOK
  <2> QED BY <1>1, <2>1 DEF IsUndone
<1> QED BY <1>2, <1>3

\* What a module does to its context.
LEMMA ContextStep ==
  ASSUME ContextInv, NEW m \in Modules, ContextNext(m)
  PROVE  ContextInv' /\ \A x \in Modules : IsUndone(ctx[x], opens[x], ctx'[x], opens'[x])
<1> DEFINE c == ctx[m]
           o == opens[m]
           r == Root(output)
<1>1. IsContext(c, r) /\ IsOpen(c, o) /\ r.kind = "root" /\ alive \in BOOLEAN
  BY ContextInvMeans, RootType
<1>2. c \in Seq(Frames) /\ Len(c) \in Nat
  BY <1>1 DEF IsContext
<1>3. ASSUME NEW f \in Frames, f.kind # "root", PushFrame(m, f)
      PROVE  ContextInv' /\ \A x \in Modules : IsUndone(ctx[x], opens[x], ctx'[x], opens'[x])
  <2> DEFINE d == Append(c, f)
             p == Append(o, Before(c, f.kind))
  <2>1. IsContext(d, r) /\ IsOpen(d, p)
    BY <1>1, <1>3, Pushed
  <2>2. Len(d) = Len(c) + 1
    BY <1>2, AppendProperties
  <2>3. ctx' = [ctx EXCEPT ![m] = d] /\ opens' = [opens EXCEPT ![m] = p] /\ UNCHANGED <<output, alive>>
    BY <1>3 DEF PushFrame
  <2> HIDE DEF d, p, c, o, r
  <2>4. IsUndone(c, o, d, p)
    BY <1>2, <2>2 DEF IsUndone
  <2> QED BY <2>1, <2>3, <2>4, ContextMoves DEF c, o, r
<1>4. CASE \E x \in Tags : Push(m, x)
  <2>1. PICK x \in Tags : PushFrame(m, PrefixFrame(x))
    BY <1>4 DEF Push
  <2>2. PrefixFrame(x) \in Frames /\ PrefixFrame(x).kind # "root"
    BY DEF PrefixFrame, Frames
  <2> QED BY <1>3, <2>1, <2>2
<1>5. CASE \E x \in Dirs : PushDir(m, x)
  <2>1. PICK x \in Dirs : PushFrame(m, DirFrame(x))
    BY <1>5 DEF PushDir
  <2>2. Clean(x) \in PathType
    BY DirsAssumption, CleanType
  <2>3. DirFrame(x) \in Frames /\ DirFrame(x).kind # "root"
    BY <2>2 DEF DirFrame, Frames
  <2> QED BY <1>3, <2>1, <2>3
<1>6. CASE Pop(m) /\ Len(c) > 1
  <2> DEFINE d == Front(c)
             p == IF o = <<>> THEN o ELSE Front(o)
  <2>1. IsContext(d, r) /\ IsOpen(d, p) /\ IsUndone(c, o, d, p)
    BY <1>1, <1>6, Popped
  <2>2. ctx' = [ctx EXCEPT ![m] = d] /\ opens' = [opens EXCEPT ![m] = p] /\ UNCHANGED <<output, alive>>
    BY <1>6 DEF Pop
  <2> HIDE DEF d, p
  <2> QED BY <2>1, <2>2, ContextMoves
<1>7. CASE Pop(m) /\ ~(Len(c) > 1)
  <2>1. UNCHANGED <<ctx, output, opens>> /\ alive' \in BOOLEAN
    BY <1>7 DEF Pop
  <2> QED BY <2>1, ContextStays
<1>8. CASE PopDir(m)
  <2> DEFINE d == PoppedDir(c)
             p == Closed(o)
  <2>1. IsContext(d, r) /\ IsOpen(d, p) /\ IsUndone(c, o, d, p)
    BY <1>1, PoppedToDir
  <2>2. ctx' = [ctx EXCEPT ![m] = d] /\ opens' = [opens EXCEPT ![m] = p] /\ UNCHANGED <<output, alive>>
    BY <1>8 DEF PopDir
  <2> HIDE DEF d, p
  <2> QED BY <2>1, <2>2, ContextMoves
<1> QED BY <1>4, <1>5, <1>6, <1>7, <1>8 DEF ContextNext

\* A module's context at the start.
LEMMA ContextStarts ==
  ASSUME ContextInit
  PROVE  ContextInv
<1> DEFINE r == Root(output)
<1>1. output \in PathType /\ alive = TRUE /\ ctx = [m \in Modules |-> <<r, PrefixFrame(m)>>]
      /\ opens = [m \in Modules |-> <<>>]
  BY DirsAssumption DEF ContextInit
<1>2. r \in Frames /\ r.kind = "root"
  BY <1>1, RootType
<1> HIDE DEF r
<1>3. ASSUME NEW m \in Modules PROVE IsContext(ctx[m], r) /\ IsOpen(ctx[m], opens[m])
  <2> DEFINE f == PrefixFrame(m)
             c == <<r, f>>
  <2>1. f \in Frames /\ f.kind = "prefix"
    BY DEF PrefixFrame, Frames
  <2> HIDE DEF f
  <2>2. ctx[m] = c /\ opens[m] = <<>>
    BY <1>1 DEF f
  <2>3. c \in Seq(Frames) /\ Len(c) = 2 /\ c[1] = r /\ c[2] = f /\ c # <<>> /\ DOMAIN c = 1..2
    BY <1>2, <2>1
  <2>4. IsContext(c, r)
    BY <1>2, <2>1, <2>3 DEF IsContext
  <2> HIDE DEF c
  <2>5. IsBase(c, 2)
    BY <2>1, <2>3 DEF IsBase
  <2>6. OpenedAbove(c, 2) = <<>>
    <3>1. OpenedAbove(c, 2) = [i \in 1..0 |-> OpenedBy(c, 2 + i)]
      BY <2>3 DEF OpenedAbove
    <3> QED BY <3>1
  <2>7. 2 \in 1..2
    OBVIOUS
  <2>8. IsOpen(c, <<>>)
    BY <2>5, <2>6, <2>7 DEF IsOpen
  <2> QED BY <2>2, <2>4, <2>8
<1>4. ctx \in [Modules -> Seq(Frames)]
  BY <1>1, <1>3 DEF IsContext
<1> QED BY <1>1, <1>3, <1>4, ContextInvMeans DEF r

-----------------------------------------------------------------------------
(* Artifacts.                                                              *)

Artifact == [by : Modules, nr : 1..MaxAdded]

\* What of a sequence is by one module, each in a sequence of its own.
Singles(s, m) == [i \in DOMAIN s |-> IF s[i].by = m THEN <<s[i]>> ELSE <<>>]

ByModule(s, m) == FlattenSeq(Singles(s, m))

\* Each artifact is in a sequence of its own, or is left out.
LEMMA SinglesType ==
  ASSUME NEW s \in Seq(Artifact), NEW m
  PROVE  Singles(s, m) \in Seq(Seq(Artifact)) /\ Len(Singles(s, m)) = Len(s)
<1>1. \A i \in 1..Len(s) : s[i] \in Artifact
  BY ElementOfSeq
<1>2. \A i \in 1..Len(s) : (IF s[i].by = m THEN <<s[i]>> ELSE <<>>) \in Seq(Artifact)
  <2> HIDE DEF Artifact
  <2> QED BY <1>1
<1>3. DOMAIN s = 1..Len(s) /\ Len(s) \in Nat
  BY LenProperties
<1> DEFINE t == Singles(s, m)
<1>4. t \in [1..Len(s) -> Seq(Artifact)]
  BY <1>2, <1>3 DEF Singles
<1> HIDE DEF t
<1>5. t \in Seq(Seq(Artifact)) /\ Len(t) = Len(s)
  BY <1>3, <1>4
<1> QED BY <1>5 DEF t

\* What is by a module are artifacts.
LEMMA ByModuleType ==
  ASSUME NEW s \in Seq(Artifact), NEW m
  PROVE  ByModule(s, m) \in Seq(Artifact)
BY SinglesType, FlattenType DEF ByModule

\* What one artifact more makes of it.
LEMMA ByModuleAppend ==
  ASSUME NEW s \in Seq(Artifact), NEW a \in Artifact, NEW m
  PROVE  ByModule(Append(s, a), m) = IF a.by = m THEN Append(ByModule(s, m), a)
                                     ELSE ByModule(s, m)
<1> DEFINE t == Append(s, a)
           n == Len(s)
           x == IF a.by = m THEN <<a>> ELSE <<>>
<1>1. t \in Seq(Artifact) /\ n \in Nat /\ Len(t) = n + 1 /\ t[n + 1] = a
      /\ DOMAIN s = 1..n /\ DOMAIN t = 1..(n + 1) /\ \A i \in 1..n : t[i] = s[i]
  BY AppendProperties, LenProperties
<1>2. x \in Seq(Artifact)
  OBVIOUS
<1> HIDE DEF t, n
<1>3. Singles(t, m) = Append(Singles(s, m), x)
  <2> DEFINE u == Singles(s, m)
             v == Singles(t, m)
  <2>1. u \in Seq(Seq(Artifact)) /\ v \in Seq(Seq(Artifact)) /\ Len(u) = n /\ Len(v) = n + 1
    BY <1>1, SinglesType DEF n
  <2>2. v[n + 1] = x /\ \A i \in 1..n : v[i] = u[i]
    BY <1>1 DEF Singles
  <2> HIDE DEF u, v, x
  <2>3. v = Append(u, x)
    BY <2>1, <2>2, IsAppend
  <2> QED BY <2>3 DEF u, v
<1> HIDE DEF x
<1>4. ByModule(t, m) = ByModule(s, m) \o x
  BY <1>2, <1>3, SinglesType, FlattenAppend DEF ByModule
<1>5. ByModule(s, m) \in Seq(Artifact)
  BY ByModuleType
<1>6. CASE a.by = m
  BY <1>4, <1>5, <1>6, AppendIsConcat DEF x, t
<1>7. CASE a.by # m
  BY <1>4, <1>5, <1>7, ConcatEmptySeq DEF x, t
<1> QED BY <1>6, <1>7

\* Of nothing, nothing is by a module.
LEMMA ByModuleEmpty ==
  ASSUME NEW m
  PROVE  ByModule(<<>>, m) = <<>>
<1>1. Singles(<<>>, m) = <<>>
  BY DEF Singles
<1> QED BY <1>1, FlattenEmpty DEF ByModule

\* AddedBy, of a value in place of the state.
LEMMA AddedByIs ==
  ASSUME NEW m
  PROVE  AddedBy(m) = ByModule(added, m)
BY DEF AddedBy, ByModule, Singles

\* What the first modules added.
OfFirst(s, n) == [i \in 1..n |-> ByModule(s, Order[i])]

\* AddedByFirst, of a value in place of the state.
LEMMA AddedByFirstIs ==
  ASSUME NEW n
  PROVE  AddedByFirst(n) = FlattenSeq(OfFirst(added, n))
<1>1. OfFirst(added, n) = [i \in 1..n |-> AddedBy(Order[i])]
  BY AddedByIs DEF OfFirst
<1> QED BY <1>1 DEF AddedByFirst

\* One sequence of artifacts for each of the first modules.
LEMMA OfFirstType ==
  ASSUME NEW s \in Seq(Artifact), NEW n \in Nat
  PROVE  OfFirst(s, n) \in Seq(Seq(Artifact)) /\ Len(OfFirst(s, n)) = n
<1> DEFINE t == OfFirst(s, n)
<1>1. t \in [1..n -> Seq(Artifact)]
  BY ByModuleType DEF OfFirst
<1> HIDE DEF t
<1>2. t \in Seq(Seq(Artifact)) /\ Len(t) = n
  BY <1>1
<1> QED BY <1>2 DEF t

\* What one module more added.
LEMMA OfFirstNext ==
  ASSUME NEW s \in Seq(Artifact), NEW n \in Nat
  PROVE  FlattenSeq(OfFirst(s, n + 1)) = FlattenSeq(OfFirst(s, n)) \o ByModule(s, Order[n + 1])
<1> DEFINE u == OfFirst(s, n)
           v == OfFirst(s, n + 1)
           x == ByModule(s, Order[n + 1])
<1>1. /\ u \in Seq(Seq(Artifact)) /\ Len(u) = n /\ x \in Seq(Artifact)
      /\ v \in Seq(Seq(Artifact)) /\ Len(v) = n + 1
  <2>1. n + 1 \in Nat
    OBVIOUS
  <2> QED BY <2>1, OfFirstType, ByModuleType
<1>2. v[n + 1] = x /\ \A i \in 1..n : v[i] = u[i]
  BY DEF OfFirst
<1> HIDE DEF u, v, x
<1>3. v = Append(u, x)
  BY <1>1, <1>2, IsAppend
<1>4. FlattenSeq(v) = FlattenSeq(u) \o x
  BY <1>1, <1>3, FlattenAppend
<1> QED BY <1>4 DEF u, v, x

-----------------------------------------------------------------------------
(* The types.                                                              *)

\* The types at the start.
LEMMA TypeInit ==
  ASSUME Init
  PROVE  TypeOK
<1>1. ContextTypeOK
  BY ContextStarts DEF Init, ContextInv
<1>2. todo \in Seq(Modules) /\ phase = "init"
  BY OrderAssumption DEF Init
<1>3. <<>> \in Artifacts
  BY DEF Artifacts
<1>4. artifacts \in [Modules -> Artifacts] /\ kept \in Artifacts /\ collected \in Artifacts
      /\ added \in Artifacts
  BY <1>3 DEF Init
<1> QED BY <1>1, <1>2, <1>4 DEF TypeOK

\* The types after a step.
LEMMA TypeNext ==
  ASSUME TypeOK, ContextTypeOK', [Next]_vars
  PROVE  TypeOK'
<1> USE DEF TypeOK
<1>0. \A s, t \in Artifacts : s \o t \in Artifacts
  BY ConcatProperties DEF Artifacts
<1>1. <<>> \in Artifacts
  BY DEF Artifacts
<1> SUFFICES ASSUME TRUE
             PROVE /\ phase' \in {"init", "execute", "done"}
                   /\ todo' \in Seq(Modules)
                   /\ artifacts' \in [Modules -> Artifacts]
                   /\ kept' \in Artifacts /\ collected' \in Artifacts /\ added' \in Artifacts
  OBVIOUS
<1>2. CASE UNCHANGED vars
  BY <1>2 DEF vars
<1>3. ASSUME NEW m \in Modules, Move(m) \/ NotImplemented(m)
      PROVE  UNCHANGED <<phase, todo, artifacts, kept, collected, added>>
  BY <1>3 DEF Move, NotImplemented, moduleVars
<1>4. ASSUME NEW m \in Modules, Add(m)
      PROVE  /\ artifacts' \in [Modules -> Artifacts] /\ added' \in Artifacts
             /\ UNCHANGED <<phase, todo, kept, collected>>
  <2> DEFINE a == [by |-> m, nr |-> Len(added) + 1]
  <2>1. Len(added) + 1 \in 1..MaxAdded
    <3>1. Len(added) \in Nat /\ Len(added) < MaxAdded /\ MaxAdded \in Nat
      BY <1>4, OrderAssumption DEF Add, Artifacts
    <3> QED BY <3>1
  <2>2. a \in [by : Modules, nr : 1..MaxAdded]
    BY <2>1
  <2>3. artifacts' = [artifacts EXCEPT ![m] = Append(@, a)] /\ added' = Append(added, a)
        /\ UNCHANGED <<phase, todo, kept, collected>>
    BY <1>4 DEF Add
  <2> HIDE DEF a
  <2>4. \A s \in Artifacts : Append(s, a) \in Artifacts
    BY <2>2, AppendProperties DEF Artifacts
  <2> QED BY <2>3, <2>4
<1>5. ASSUME NEW m \in Modules, Take(m)
      PROVE  /\ artifacts' \in [Modules -> Artifacts] /\ kept' \in Artifacts
             /\ UNCHANGED <<phase, todo, collected, added>>
  BY <1>0, <1>1, <1>5 DEF Take
<1>6. ASSUME NEW m \in Modules, Initialized(m)
      PROVE  /\ phase' \in {"init", "execute"} /\ todo' \in Seq(Modules)
             /\ UNCHANGED <<artifacts, kept, collected, added>>
  <2>1. Tail(todo) \in Seq(Modules)
    BY <1>6 DEF Initialized, Running
  <2> QED BY <1>6, <2>1, OrderAssumption DEF Initialized
<1>7. ASSUME NEW m \in Modules, Executed(m)
      PROVE  /\ phase' \in {"done", "execute"} /\ todo' \in Seq(Modules)
             /\ artifacts' \in [Modules -> Artifacts] /\ kept' \in Artifacts
             /\ collected' \in Artifacts /\ UNCHANGED added
  <2>1. Tail(todo) \in Seq(Modules)
    BY <1>7 DEF Executed, Running
  <2> QED BY <1>0, <1>1, <1>7, <2>1 DEF Executed
<1> QED BY <1>2, <1>3, <1>4, <1>5, <1>6, <1>7 DEF Next

\* The context after a step.
LEMMA ContextNextStep ==
  ASSUME ContextInv, [Next]_vars
  PROVE  ContextInv' /\ \A x \in Modules : IsUndone(ctx[x], opens[x], ctx'[x], opens'[x])
<1>0. alive \in BOOLEAN
  BY DEF ContextInv, ContextTypeOK
<1>1. CASE UNCHANGED vars
  <2>1. UNCHANGED <<ctx, output, opens>> /\ alive' \in BOOLEAN
    BY <1>0, <1>1 DEF vars
  <2> QED BY <2>1, ContextStays
<1>2. ASSUME NEW m \in Modules, Move(m)
      PROVE  ContextInv' /\ \A x \in Modules : IsUndone(ctx[x], opens[x], ctx'[x], opens'[x])
  BY <1>2, ContextStep DEF Move
<1>3. ASSUME NEW m \in Modules,
             Add(m) \/ Take(m) \/ Initialized(m) \/ Executed(m) \/ NotImplemented(m)
      PROVE  ContextInv' /\ \A x \in Modules : IsUndone(ctx[x], opens[x], ctx'[x], opens'[x])
  <2>1. UNCHANGED <<ctx, output, opens>> /\ alive' \in BOOLEAN
    BY <1>0, <1>3 DEF Add, Take, Initialized, Executed, NotImplemented
  <2> QED BY <2>1, ContextStays
<1> QED BY <1>1, <1>2, <1>3 DEF Next

-----------------------------------------------------------------------------
(* No artifact is lost.  The invariant, of values in place of the state.   *)

\* n modules have been called.
IsRest(td, n) == /\ n \in Nat /\ td \in Seq(Modules) /\ n + Len(td) = Len(Order)
                 /\ \A j \in 1..Len(td) : td[j] = Order[n + j]

\* Where the artifacts of a module are.
IsWith(m, ph, td, art, kp, s, n) ==
    \/ ph = "execute" /\ m = Head(td) /\ ByModule(s, m) = kp \o art[m]
    \/ ph = "execute" /\ m # Head(td) /\ ByModule(s, m) = art[m]
    \/ ph = "init" /\ ByModule(s, m) = art[m]
    \/ ph # "init" /\ \E i \in 1..n : m = Order[i]

IsKept(ph, td, art, kp, col, s, n) ==
    /\ ph = "init" => kp = <<>> /\ col = <<>>
    /\ ph # "init" => col = FlattenSeq(OfFirst(s, n))
    /\ \A m \in Modules : IsWith(m, ph, td, art, kp, s, n)

\* TodoIsRest says that those to do are the rest.
LEMMA TodoMeans ==
  ASSUME todo \in Seq(Modules), TodoIsRest
  PROVE  IsRest(todo, Called)
<1>1. Len(Order) \in Nat /\ Len(todo) \in Nat /\ Called \in Nat
  BY OrderAssumption DEF TodoIsRest
<1>2. Called + Len(todo) = Len(Order)
  BY <1>1 DEF Called
<1>3. \A j \in 1..Len(todo) : todo[j] = Order[Called + j]
  BY DEF TodoIsRest
<1> QED BY <1>1, <1>2, <1>3 DEF IsRest

\* The rest, as TodoIsRest has it.
LEMMA RestMeans ==
  ASSUME NEW td, NEW n, IsRest(td, n)
  PROVE  /\ n = Len(Order) - Len(td)
         /\ td = [j \in 1..Len(td) |-> Order[n + j]]
<1>1. Len(Order) \in Nat /\ Len(td) \in Nat /\ n \in Nat
  BY OrderAssumption DEF IsRest
<1>2. td = [j \in 1..Len(td) |-> td[j]]
  BY LenProperties DEF IsRest
<1> QED BY <1>1, <1>2 DEF IsRest

\* NothingLost, of values in place of the state.
LEMMA LostMeans ==
  NothingLost <=> IsKept(phase, todo, artifacts, kept, collected, added, Called)
<1>1. \A m : AddedBy(m) = ByModule(added, m)
  BY AddedByIs
<1>2. AddedByFirst(Called) = FlattenSeq(OfFirst(added, Called))
  BY AddedByFirstIs
<1> QED BY <1>1, <1>2 DEF NothingLost, IsKept, IsWith

\* The same of the next state.
LEMMA LostMeansNext ==
  IsKept(phase', todo', artifacts', kept', collected', added', Called') => NothingLost'
<1>1. \A m : AddedBy(m)' = ByModule(added', m)
  BY DEF AddedBy, ByModule, Singles
<1>2. AddedByFirst(Called)' = FlattenSeq(OfFirst(added', Called'))
  <2>1. AddedByFirst(Called)' = FlattenSeq([i \in 1..Called' |-> AddedBy(Order[i])'])
    BY DEF AddedByFirst
  <2>2. OfFirst(added', Called') = [i \in 1..Called' |-> AddedBy(Order[i])']
    BY <1>1 DEF OfFirst
  <2> QED BY <2>1, <2>2
<1> QED BY <1>1, <1>2 DEF NothingLost, IsKept, IsWith

\* The current module has not been called before.
LEMMA CurrentIsNew ==
  ASSUME NEW td, NEW n, IsRest(td, n), td # <<>>
  PROVE  /\ Head(td) = Order[n + 1] /\ Head(td) \in Modules
         /\ \A i \in 1..n : Order[i] # Head(td)
         /\ n + 1 \in DOMAIN Order
<1>1. n \in Nat /\ Len(td) \in Nat /\ Len(td) # 0 /\ td \in Seq(Modules)
  BY DEF IsRest
<1>2. Order \in Seq(Modules) /\ DOMAIN Order = 1..Len(Order) /\ Len(Order) \in Nat
  BY OrderAssumption
<1>3. 1 \in 1..Len(td) /\ Head(td) = td[1]
  BY <1>1
<1>4. Head(td) = Order[n + 1]
  BY <1>3 DEF IsRest
<1>5. n + 1 \in 1..Len(Order) /\ \A i \in 1..n : i \in 1..Len(Order) /\ i # n + 1
  <2>1. n + Len(td) = Len(Order)
    BY DEF IsRest
  <2> QED BY <1>1, <1>2, <2>1
<1>6. \A i \in 1..n : Order[i] # Order[n + 1]
  BY <1>2, <1>5, OrderAssumption
<1>7. Head(td) \in Modules
  BY <1>1, <1>3
<1> QED BY <1>2, <1>4, <1>5, <1>6, <1>7

\* An artifact more, of the current module.
LEMMA KeptAdd ==
  ASSUME NEW ph \in {"init", "execute"}, NEW td, NEW n, IsRest(td, n), td # <<>>,
         NEW art \in [Modules -> Seq(Artifact)], NEW kp \in Seq(Artifact), NEW col,
         NEW s \in Seq(Artifact), NEW a \in Artifact, a.by = Head(td),
         IsKept(ph, td, art, kp, col, s, n)
  PROVE  IsKept(ph, td, [art EXCEPT ![Head(td)] = Append(@, a)], kp, col, Append(s, a), n)
<1> DEFINE h == Head(td)
           t == Append(s, a)
           new == [art EXCEPT ![h] = Append(@, a)]
<1>1. h = Order[n + 1] /\ h \in Modules /\ \A i \in 1..n : Order[i] # h
  BY CurrentIsNew
<1>2. \A m : ByModule(t, m) = IF h = m THEN Append(ByModule(s, m), a) ELSE ByModule(s, m)
  BY ByModuleAppend
<1>3. \A m \in Modules : new[m] = IF m = h THEN Append(art[h], a) ELSE art[m]
  BY <1>1
<1>4. OfFirst(t, n) = OfFirst(s, n)
  BY <1>1, <1>2 DEF OfFirst
<1> HIDE DEF t, new, h
<1>5. ASSUME NEW m \in Modules PROVE IsWith(m, ph, td, new, kp, t, n)
  <2>1. IsWith(m, ph, td, art, kp, s, n)
    BY DEF IsKept
  <2>2. CASE m = h
    <3>1. ByModule(t, m) = Append(ByModule(s, m), a) /\ new[m] = Append(art[m], a)
      BY <1>2, <1>3, <2>2
    <3>2. Append(kp \o art[m], a) = kp \o Append(art[m], a)
      <4>1. PICK am \in Seq(Artifact) : am = art[m]
        OBVIOUS
      <4>2. kp \o Append(am, a) = Append(kp \o am, a)
        <5>1. \A s1, s2 \in Seq(Artifact), x \in Artifact : s1 \o Append(s2, x) = Append(s1 \o s2, x)
          BY ConcatAppend
        <5> QED BY <5>1
      <4> QED BY <4>1, <4>2
    <3>3. ~\E i \in 1..n : m = Order[i]
      BY <1>1, <2>2
    <3>4. CASE ph = "init"
      BY <2>1, <3>1, <3>3, <3>4 DEF IsWith
    <3>5. CASE ph = "execute"
      <4>1. ByModule(s, m) = kp \o art[m]
        BY <2>1, <2>2, <3>3, <3>5 DEF IsWith, h
      <4>2. ByModule(t, m) = kp \o new[m]
        BY <3>1, <3>2, <4>1
      <4> QED BY <2>2, <3>5, <4>2 DEF IsWith, h
    <3> QED BY <3>4, <3>5
  <2>3. CASE m # h
    <3>1. ByModule(t, m) = ByModule(s, m) /\ new[m] = art[m]
      BY <1>2, <1>3, <2>3
    <3> QED BY <2>1, <3>1 DEF IsWith
  <2> QED BY <2>2, <2>3
<1>6. IsKept(ph, td, new, kp, col, t, n)
  BY <1>4, <1>5 DEF IsKept
<1> QED BY <1>6 DEF new, h, t

\* The current module takes its artifacts.
LEMMA KeptTake ==
  ASSUME NEW td, NEW n, IsRest(td, n), td # <<>>,
         NEW art \in [Modules -> Seq(Artifact)], NEW kp \in Seq(Artifact), NEW col, NEW s,
         IsKept("execute", td, art, kp, col, s, n)
  PROVE  IsKept("execute", td, [art EXCEPT ![Head(td)] = <<>>], kp \o art[Head(td)], col, s, n)
<1> DEFINE h == Head(td)
           new == [art EXCEPT ![h] = <<>>]
           more == kp \o art[h]
<1>1. h \in Modules /\ \A i \in 1..n : Order[i] # h
  BY CurrentIsNew
<1>2. \A m \in Modules : new[m] = IF m = h THEN <<>> ELSE art[m]
  BY <1>1
<1>3. more \in Seq(Artifact)
  BY <1>1, ConcatProperties
<1>4. more \o <<>> = more
  BY <1>3, ConcatEmptySeq
<1>5. \A m \in Modules : IsWith(m, "execute", td, art, kp, s, n)
  BY DEF IsKept
<1>6. ByModule(s, h) = more
  BY <1>1, <1>5 DEF IsWith
<1> HIDE DEF new, more, h
<1>7. ASSUME NEW m \in Modules PROVE IsWith(m, "execute", td, new, more, s, n)
  <2>1. CASE m = h
    <3>1. ByModule(s, m) = more \o new[m]
      BY <1>2, <1>4, <1>6, <2>1
    <3> QED BY <2>1, <3>1 DEF IsWith, h
  <2>2. CASE m # h
    <3>1. new[m] = art[m]
      BY <1>2, <2>2
    <3> QED BY <1>5, <2>2, <3>1 DEF IsWith, h
  <2> QED BY <2>1, <2>2
<1>8. IsKept("execute", td, new, more, col, s, n)
  BY <1>7 DEF IsKept
<1> QED BY <1>8 DEF new, more, h

\* The first module is executed.
LEMMA KeptBegin ==
  ASSUME NEW td, NEW n, NEW art \in [Modules -> Seq(Artifact)], NEW s, NEW kp, NEW col,
         IsKept("init", td, art, kp, col, s, n), NEW new
  PROVE  IsKept("execute", new, art, kp, col, s, 0)
<1>1. kp = <<>> /\ col = <<>>
  BY DEF IsKept
<1>2. OfFirst(s, 0) = <<>>
  BY DEF OfFirst
<1>3. FlattenSeq(OfFirst(s, 0)) = <<>>
  BY <1>2, FlattenEmpty
<1>4. ASSUME NEW m \in Modules PROVE IsWith(m, "execute", new, art, kp, s, 0)
  <2>1. IsWith(m, "init", td, art, kp, s, n)
    BY DEF IsKept
  <2>2. ByModule(s, m) = art[m]
    BY <2>1 DEF IsWith
  <2>3. kp \o art[m] = art[m]
    BY <1>1, ConcatEmptySeq
  <2> QED BY <2>2, <2>3 DEF IsWith
<1> QED BY <1>1, <1>3, <1>4 DEF IsKept

\* The current module has been executed.
LEMMA KeptExecuted ==
  ASSUME NEW td, NEW n, IsRest(td, n), td # <<>>,
         NEW art \in [Modules -> Seq(Artifact)], NEW kp \in Seq(Artifact),
         NEW col \in Seq(Artifact), NEW s \in Seq(Artifact),
         IsKept("execute", td, art, kp, col, s, n), 
         NEW ph, ph = IF Len(td) = 1 THEN "done" ELSE "execute"
  PROVE  IsKept(ph, Tail(td), [art EXCEPT ![Head(td)] = <<>>], <<>>,
                col \o kp \o art[Head(td)], s, n + 1)
<1> DEFINE h == Head(td)
           new == [art EXCEPT ![h] = <<>>]
           more == col \o kp \o art[h]
<1>1. h = Order[n + 1] /\ h \in Modules /\ (\A i \in 1..n : Order[i] # h) /\ n \in Nat
      /\ n + Len(td) = Len(Order) /\ Len(td) \in Nat
  <2>1. n \in Nat /\ n + Len(td) = Len(Order) /\ Len(td) \in Nat
    BY DEF IsRest
  <2> QED BY <2>1, CurrentIsNew
<1>2. \A m \in Modules : new[m] = IF m = h THEN <<>> ELSE art[m]
  BY <1>1
<1>3. \A m \in Modules : IsWith(m, "execute", td, art, kp, s, n)
  BY DEF IsKept
<1>4. ByModule(s, h) = kp \o art[h]
  BY <1>1, <1>3 DEF IsWith
<1>5. col = FlattenSeq(OfFirst(s, n))
  BY DEF IsKept
<1>6. more = col \o (kp \o art[h])
  <2>1. PICK ah \in Seq(Artifact) : ah = art[h]
    BY <1>1
  <2>2. (col \o kp) \o ah = col \o (kp \o ah)
    BY ConcatAssociative
  <2> QED BY <2>1, <2>2
<1> HIDE DEF new, more, h
<1>7. more = FlattenSeq(OfFirst(s, n + 1))
  <2>1. FlattenSeq(OfFirst(s, n + 1)) = FlattenSeq(OfFirst(s, n)) \o ByModule(s, Order[n + 1])
    BY <1>1, OfFirstNext
  <2> QED BY <1>1, <1>4, <1>5, <1>6, <2>1
<1>8. ASSUME NEW m \in Modules PROVE IsWith(m, ph, Tail(td), new, <<>>, s, n + 1)
  <2>1. ASSUME \E i \in 1..(n + 1) : m = Order[i]
        PROVE  IsWith(m, ph, Tail(td), new, <<>>, s, n + 1)
    BY <2>1 DEF IsWith
  <2>2. CASE m = h
    <3>1. n + 1 \in 1..(n + 1)
      BY <1>1
    <3> QED BY <1>1, <2>1, <2>2, <3>1
  <2>3. CASE \E i \in 1..n : m = Order[i]
    <3>1. \A i \in 1..n : i \in 1..(n + 1)
      BY <1>1
    <3> QED BY <2>1, <2>3, <3>1
  <2>4. CASE m # h /\ ByModule(s, m) = art[m]
    <3>1. ByModule(s, m) = new[m] /\ new[m] \in Seq(Artifact)
      BY <1>2, <2>4
    <3>2. <<>> \o new[m] = new[m]
      BY <3>1, ConcatEmptySeq
    <3>3. CASE ph = "execute"
      BY <3>1, <3>2, <3>3 DEF IsWith
    <3>4. CASE ph # "execute"
      <4>1. Len(Order) = n + 1
        BY <1>1, <3>4
      <4>2. \E i \in DOMAIN Order : m = Order[i]
        BY OrderAssumption DEF ToSet
      <4>3. DOMAIN Order = 1..(n + 1)
        BY <4>1, OrderAssumption
      <4> QED BY <2>1, <4>2, <4>3
    <3> QED BY <3>3, <3>4
  <2> QED BY <1>3, <2>2, <2>3, <2>4 DEF IsWith, h
<1>9. IsKept(ph, Tail(td), new, <<>>, more, s, n + 1)
  <2>1. ph # "init"
    OBVIOUS
  <2> QED BY <1>7, <1>8, <2>1 DEF IsKept
<1> QED BY <1>9 DEF new, more, h

\* Nobody else is called.
LEMMA RestStays ==
  ASSUME TodoIsRest, UNCHANGED <<todo, phase>>
  PROVE  TodoIsRest' /\ Called' = Called
BY DEF TodoIsRest, Called

\* What is called next is the rest.
LEMMA RestNext ==
  ASSUME NEW td, NEW n, IsRest(td, n), td # <<>>
  PROVE  IsRest(Tail(td), n + 1) /\ (Tail(td) = <<>> <=> Len(td) = 1)
<1>1. n \in Nat /\ td \in Seq(Modules) /\ n + Len(td) = Len(Order) /\ Len(td) \in Nat /\ Len(td) # 0
  BY DEF IsRest
<1>2. Len(Order) \in Nat
  BY OrderAssumption
<1>3. Tail(td) \in Seq(Modules) /\ Len(Tail(td)) = Len(td) - 1
      /\ \A j \in 1..Len(Tail(td)) : Tail(td)[j] = td[j + 1]
  BY <1>1, HeadTailProperties
<1>4. ASSUME NEW j \in 1..Len(Tail(td)) PROVE Tail(td)[j] = Order[(n + 1) + j]
  <2>1. j + 1 \in 1..Len(td) /\ n + (j + 1) = (n + 1) + j
    BY <1>1, <1>3
  <2>2. td[j + 1] = Order[n + (j + 1)]
    BY <2>1 DEF IsRest
  <2> QED BY <1>3, <2>1, <2>2
<1>5. (n + 1) + Len(Tail(td)) = Len(Order)
  BY <1>1, <1>2, <1>3
<1>6. Tail(td) = <<>> <=> Len(td) = 1
  <2>1. PICK u \in Seq(Modules) : u = Tail(td)
    BY <1>3
  <2>2. u = <<>> <=> Len(u) = 0
    OBVIOUS
  <2> QED BY <1>1, <1>3, <2>1, <2>2
<1> QED BY <1>1, <1>3, <1>4, <1>5, <1>6, SMTT(30) DEF IsRest

\* TodoIsRest, of the next state.
LEMMA TodoMeansNext ==
  ASSUME NEW n, IsRest(todo', n),
         phase' = "execute" => todo' # <<>>, phase' = "done" => todo' = <<>>
  PROVE  TodoIsRest' /\ Called' = n
<1>1. n = Len(Order) - Len(todo') /\ todo' = [j \in 1..Len(todo') |-> Order[n + j]]
  BY RestMeans
<1>2. n \in Nat
  BY DEF IsRest
<1> QED BY <1>1, <1>2 DEF TodoIsRest, Called

\* The artifacts' type.
LEMMA ArtifactsAre == Artifacts = Seq(Artifact)
BY DEF Artifacts, Artifact

\* The artifacts after a step.
LEMMA ArtifactsStep ==
  ASSUME TypeOK, TodoIsRest, NothingLost, [Next]_vars
  PROVE  TodoIsRest' /\ NothingLost'
<1> DEFINE S == Seq(Artifact)
           P == TodoIsRest' /\ NothingLost'
<1>1. /\ phase \in {"init", "execute", "done"} /\ todo \in Seq(Modules)
      /\ artifacts \in [Modules -> S] /\ kept \in S /\ collected \in S /\ added \in S
  BY ArtifactsAre DEF TypeOK
<1>2. PICK n : n = Called
  OBVIOUS
<1>3. IsRest(todo, n) /\ IsKept(phase, todo, artifacts, kept, collected, added, n)
      /\ (phase = "done" => todo = <<>>)
  BY <1>1, <1>2, TodoMeans, LostMeans DEF TodoIsRest
<1> HIDE DEF S
<1>4. ASSUME UNCHANGED moduleVars PROVE P
  <2>1. TodoIsRest' /\ Called' = n
    BY <1>2, <1>4, RestStays DEF moduleVars
  <2>2. IsKept(phase', todo', artifacts', kept', collected', added', Called')
    BY <1>3, <1>4, <2>1 DEF moduleVars
  <2> QED BY <2>1, <2>2, LostMeansNext
<1>5. CASE UNCHANGED vars
  BY <1>4, <1>5 DEF vars, moduleVars
<1>6. ASSUME NEW m \in Modules, Move(m) \/ NotImplemented(m) PROVE P
  BY <1>4, <1>6 DEF Move, NotImplemented, moduleVars
<1>7. ASSUME NEW m \in Modules, Running(m)
      PROVE  todo # <<>> /\ m = Head(todo) /\ phase \in {"init", "execute"}
  BY <1>1, <1>3, <1>7 DEF Running
<1>8. ASSUME NEW m \in Modules, Add(m) PROVE P
  <2> DEFINE a == [by |-> m, nr |-> Len(added) + 1]
  <2>1. Len(added) + 1 \in 1..MaxAdded
    <3>1. Len(added) \in Nat /\ Len(added) < MaxAdded /\ MaxAdded \in Nat
      BY <1>1, <1>8, OrderAssumption DEF Add, S
    <3> QED BY <3>1
  <2>2. a \in Artifact /\ a.by = m
    BY <2>1 DEF Artifact
  <2>3. Running(m) /\ artifacts' = [artifacts EXCEPT ![m] = Append(@, a)] /\ added' = Append(added, a)
        /\ UNCHANGED <<phase, todo, kept, collected>>
    BY <1>8 DEF Add
  <2> HIDE DEF a
  <2>4. todo # <<>> /\ m = Head(todo) /\ phase \in {"init", "execute"}
    BY <1>7, <2>3
  <2>5. TodoIsRest' /\ Called' = n
    BY <1>2, <2>3, RestStays
  <2>6. IsKept(phase, todo, [artifacts EXCEPT ![Head(todo)] = Append(@, a)], kept, collected,
               Append(added, a), n)
    BY <1>1, <1>3, <2>2, <2>4, KeptAdd DEF S
  <2>7. IsKept(phase', todo', artifacts', kept', collected', added', Called')
    BY <2>3, <2>4, <2>5, <2>6
  <2> QED BY <2>5, <2>7, LostMeansNext
<1>9. ASSUME NEW m \in Modules, Take(m) PROVE P
  <2>1. Running(m) /\ phase = "execute" /\ kept' = kept \o artifacts[m]
        /\ artifacts' = [artifacts EXCEPT ![m] = <<>>]
        /\ UNCHANGED <<phase, todo, collected, added>>
    BY <1>9 DEF Take
  <2>2. todo # <<>> /\ m = Head(todo)
    BY <1>7, <2>1
  <2>3. TodoIsRest' /\ Called' = n
    BY <1>2, <2>1, RestStays
  <2>4. IsKept("execute", todo, [artifacts EXCEPT ![Head(todo)] = <<>>],
               kept \o artifacts[Head(todo)], collected, added, n)
    BY <1>1, <1>3, <2>1, <2>2, KeptTake DEF S
  <2>5. IsKept(phase', todo', artifacts', kept', collected', added', Called')
    BY <2>1, <2>2, <2>3, <2>4
  <2> QED BY <2>3, <2>5, LostMeansNext
<1>10. ASSUME NEW m \in Modules, Initialized(m) PROVE P
  <2>1. Running(m) /\ phase = "init" /\ UNCHANGED <<artifacts, kept, collected, added>>
        /\ phase' = (IF Len(todo) = 1 THEN "execute" ELSE "init")
        /\ todo' = (IF Len(todo) = 1 THEN Order ELSE Tail(todo))
    BY <1>10 DEF Initialized
  <2>2. todo # <<>>
    BY <1>7, <2>1
  <2>3. CASE Len(todo) = 1
    <3>1. phase' = "execute" /\ todo' = Order
      BY <2>1, <2>3
    <3>2. IsRest(Order, 0)
      BY OrderAssumption DEF IsRest
    <3>3. Order # <<>>
      BY <1>3, <2>2, CurrentIsNew
    <3>4. TodoIsRest' /\ Called' = 0
      BY <3>1, <3>2, <3>3, TodoMeansNext
    <3>5. IsKept("execute", Order, artifacts, kept, collected, added, 0)
      BY <1>1, <1>3, <2>1, KeptBegin DEF S
    <3>6. IsKept(phase', todo', artifacts', kept', collected', added', Called')
      BY <2>1, <3>1, <3>4, <3>5
    <3> QED BY <3>4, <3>6, LostMeansNext
  <2>4. CASE Len(todo) # 1
    <3>1. phase' = "init" /\ todo' = Tail(todo)
      BY <2>1, <2>4
    <3>2. IsRest(Tail(todo), n + 1)
      BY <1>3, <2>2, RestNext
    <3>3. TodoIsRest'
      BY <3>1, <3>2, TodoMeansNext
    <3>4. IsKept("init", Tail(todo), artifacts, kept, collected, added, Called')
      BY <1>3, <2>1 DEF IsKept, IsWith
    <3>5. IsKept(phase', todo', artifacts', kept', collected', added', Called')
      BY <2>1, <3>1, <3>4
    <3> QED BY <3>3, <3>5, LostMeansNext
  <2> QED BY <2>3, <2>4
<1>11. ASSUME NEW m \in Modules, Executed(m) PROVE P
  <2>1. Running(m) /\ phase = "execute" /\ UNCHANGED added
        /\ collected' = collected \o kept \o artifacts[m]
        /\ artifacts' = [artifacts EXCEPT ![m] = <<>>] /\ kept' = <<>>
        /\ todo' = Tail(todo) /\ phase' = (IF Len(todo) = 1 THEN "done" ELSE "execute")
    BY <1>11 DEF Executed
  <2>2. todo # <<>> /\ m = Head(todo)
    BY <1>7, <2>1
  <2>3. IsRest(Tail(todo), n + 1) /\ (Tail(todo) = <<>> <=> Len(todo) = 1)
    BY <1>3, <2>2, RestNext
  <2>4. TodoIsRest' /\ Called' = n + 1
    BY <2>1, <2>3, TodoMeansNext
  <2>5. PICK ph : ph = IF Len(todo) = 1 THEN "done" ELSE "execute"
    OBVIOUS
  <2>6. IsKept(ph, Tail(todo), [artifacts EXCEPT ![Head(todo)] = <<>>], <<>>,
               collected \o kept \o artifacts[Head(todo)], added, n + 1)
    BY <1>1, <1>3, <2>1, <2>2, <2>5, KeptExecuted DEF S
  <2>7. IsKept(phase', todo', artifacts', kept', collected', added', Called')
    BY <2>1, <2>2, <2>4, <2>5, <2>6
  <2> QED BY <2>4, <2>7, LostMeansNext
<1> QED BY <1>5, <1>6, <1>8, <1>9, <1>10, <1>11 DEF Next

\* Nothing is lost at the start.
LEMMA ArtifactsInit ==
  ASSUME Init
  PROVE  TodoIsRest /\ NothingLost
<1>1. todo = Order /\ phase = "init" /\ artifacts = [m \in Modules |-> <<>>]
      /\ kept = <<>> /\ collected = <<>> /\ added = <<>>
  BY DEF Init
<1>2. Order \in Seq(Modules) /\ Len(Order) \in Nat
  BY OrderAssumption
<1>3. TodoIsRest
  <2>1. Called = 0
    BY <1>1, <1>2 DEF Called
  <2>2. Order = [j \in 1..Len(Order) |-> Order[j]] /\ \A j \in 1..Len(Order) : 0 + j = j
    BY <1>2, LenProperties
  <2>3. todo = [j \in 1..Len(todo) |-> Order[Called + j]]
    BY <1>1, <2>1, <2>2
  <2> QED BY <1>1, <2>1, <2>3 DEF TodoIsRest
<1>4. ASSUME NEW m \in Modules PROVE AddedBy(m) = artifacts[m]
  <2>1. AddedBy(m) = ByModule(<<>>, m)
    BY <1>1, AddedByIs
  <2> QED BY <1>1, <2>1, ByModuleEmpty
<1>5. NothingLost
  BY <1>1, <1>4 DEF NothingLost
<1> QED BY <1>3, <1>5

-----------------------------------------------------------------------------
(* The theorems.                                                           *)

\* The inductive invariant holds throughout.
THEOREM Inductive == Spec => []ModuleInv
<1>1. Init => ModuleInv
  BY ContextStarts, TypeInit, ArtifactsInit DEF Init, ModuleInv
<1>2. ModuleInv /\ [Next]_vars => ModuleInv'
  <2> SUFFICES ASSUME ModuleInv, [Next]_vars PROVE ModuleInv'
    OBVIOUS
  <2>1. ContextInv'
    BY ContextNextStep DEF ModuleInv
  <2>2. TypeOK'
    BY <2>1, TypeNext DEF ModuleInv, ContextInv
  <2>3. TodoIsRest' /\ NothingLost'
    BY ArtifactsStep DEF ModuleInv
  <2> QED BY <2>1, <2>2, <2>3 DEF ModuleInv
<1> QED BY <1>1, <1>2, PTL DEF Spec

\* The types hold throughout: module.go and build_context.go.
THEOREM TypeCorrect == Spec => []TypeOK
<1>1. ModuleInv => TypeOK
  BY DEF ModuleInv
<1> QED BY <1>1, Inductive, PTL

\* build_context.go:34-42: a Pop undoes the last push that is open, a PopDir the
\* last PushDir with the prefixes pushed since, whatever was pushed and popped in
\* between, however deep and by whichever module.
THEOREM PopsUndo == Spec => PopsUndoPushes
<1>1. ModuleInv /\ [Next]_vars =>
        [\A m \in Modules :
          Len(ctx'[m]) < Len(ctx[m]) /\ opens[m] # <<>> =>
             LET before == opens[m][Len(opens'[m]) + 1]
             IN /\ OutputPath(ctx'[m]) = before.path
                /\ before.kind = "dir" \/ Len(ctx'[m]) = Len(ctx[m]) - 1
                     => PrefixesOf(ctx'[m]) = before.prefixes]_contextVars
  <2> SUFFICES ASSUME ModuleInv, [Next]_vars
               PROVE  \A m \in Modules : IsUndone(ctx[m], opens[m], ctx'[m], opens'[m])
    BY DEF IsUndone
  <2> QED BY ContextNextStep DEF ModuleInv
<1> QED BY <1>1, Inductive, PTL DEF Spec, PopsUndoPushes

\* build_context.go:8-17, 26-28: however many relative directories are pushed on
\* a context, its OutputPath is what cleaning all of them at once gives, and no
\* path keeps a ".." after a name.
THEOREM PathsClean == Spec => []PathsAreClean
<1>1. ModuleInv => PathsAreClean
  <2> SUFFICES ASSUME ContextInv, NEW m \in Modules, OnlyRelative(ctx[m])
               PROVE  LET path == OutputPath(ctx[m])
                      IN /\ path.elems = CleanElems(output.abs, AllElems(ctx[m]))
                         /\ path.abs = output.abs
                         /\ \A i \in 1..(Len(path.elems) - 1) :
                               path.elems[i] # ".." => path.elems[i + 1] # ".."
    BY DEF ModuleInv, PathsAreClean
  <2>1. output \in PathType /\ IsContext(ctx[m], Root(output))
    BY ContextInvMeans
  <2> QED BY <2>1, PathOfContext, PathIsClean
<1> QED BY <1>1, Inductive, PTL

\* module.go:91-94, workflow.go:59-62: whatever modules add, in whichever of their
\* two calls and however often they take their artifacts, gets to the persister
\* once, in the order of the modules and then of time.
THEOREM ArriveOnce == Spec => []ArtifactsArriveOnce
<1>1. ModuleInv => ArtifactsArriveOnce
  <2> SUFFICES ASSUME TodoIsRest, NothingLost, phase = "done"
               PROVE  collected = AddedByFirst(Len(Order))
    BY DEF ModuleInv, ArtifactsArriveOnce
  <2>1. todo = <<>> /\ Len(Order) \in Nat
    BY OrderAssumption DEF TodoIsRest
  <2>2. Called = Len(Order)
    BY <2>1 DEF Called
  <2>3. collected = AddedByFirst(Called)
    BY DEF NothingLost
  <2> QED BY <2>2, <2>3
<1> QED BY <1>1, Inductive, PTL
=============================================================================
