---------------------------- MODULE SequenceLemmas ----------------------------
(***************************************************************************)
(* Lemmas about numbers, sequences and recursive functions that the proofs *)
(* about the models share.  What induction they need is got from a fact    *)
(* about finite sets (FS_PigeonHole): NatInduct and SeqInduct are stated   *)
(* for a set in place of a predicate, so that a proof gives them the set   *)
(* of all numbers, or sequences, that have the property it is about.       *)
(***************************************************************************)
EXTENDS Integers, Sequences, SequencesExt, FiniteSetTheorems, SequenceTheorems, TLAPS

\* No set of positive numbers is closed under taking the one before: n |-> n - 1
\* would put it, one to one, into itself without its largest member.
LEMMA Descent ==
  ASSUME NEW k \in Nat, NEW B \in SUBSET (1..k), k \in B,
         \A i \in B : i - 1 \in B
  PROVE  FALSE
<1> DEFINE f == [i \in B |-> i - 1]
<1>1. IsFiniteSet(B) /\ Cardinality(B) \in Nat
  <2>1. IsFiniteSet(1..k) BY FS_Interval
  <2> QED BY <2>1, FS_Subset, FS_CardinalityType
<1>2. IsFiniteSet(B \ {k}) /\ Cardinality(B \ {k}) < Cardinality(B)
  BY <1>1, FS_RemoveElement
<1>3. f \in [B -> B \ {k}]
  OBVIOUS
<1>4. \E x, y \in B : x # y /\ f[x] = f[y]
  <2> HIDE DEF f
  <2> QED BY <1>1, <1>2, <1>3, FS_PigeonHole
<1> QED BY <1>4

\* Induction over the natural numbers.
LEMMA NatInduct ==
  ASSUME NEW S, 0 \in S, \A n \in Nat : n \in S => n + 1 \in S
  PROVE  Nat \subseteq S
<1> SUFFICES ASSUME NEW k \in Nat, k \notin S PROVE FALSE
  OBVIOUS
<1> DEFINE B == {i \in 1..k : i \notin S}
<1>1. \A i \in B : i - 1 \in B
  OBVIOUS
<1>2. k \in B
  OBVIOUS
<1> QED BY <1>1, <1>2, Descent

-----------------------------------------------------------------------------
\* n functions on V, the i-th being step i.
Steps(n, V) == [1..n -> [V -> V]]

\* The values that v0 is taken through.
Iterates(n, V, g, v0) ==
    {h \in [0..n -> V] : h[0] = v0 /\ \A i \in 1..n : h[i] = g[i][h[i - 1]]}

\* A value can be taken through any number of steps: what is defined by a step from
\* the one before exists.
LEMMA Recursion ==
  ASSUME NEW V, NEW v0 \in V, NEW n \in Nat, NEW g \in Steps(n, V)
  PROVE  Iterates(n, V, g, v0) # {}
<1> USE DEF Steps, Iterates
<1> DEFINE Ok(h, k) == h[0] = v0 /\ \A i \in 1..k : h[i] = g[i][h[i - 1]]
           S == {k \in Nat : k <= n => \E h \in [0..k -> V] : Ok(h, k)}
<1>1. 0 \in S
  <2> DEFINE h == [i \in 0..0 |-> v0]
  <2>1. h \in [0..0 -> V] /\ Ok(h, 0)  OBVIOUS
  <2> QED BY <2>1
<1>2. \A k \in Nat : k \in S => k + 1 \in S
  <2> SUFFICES ASSUME NEW k \in Nat, k \in S, k + 1 <= n
               PROVE  \E h \in [0..(k + 1) -> V] : Ok(h, k + 1)
    BY SMTT(30)
  <2>1. PICK h \in [0..k -> V] : Ok(h, k)
    OBVIOUS
  <2> DEFINE next == g[k + 1][h[k]]
             j    == [i \in 0..(k + 1) |-> IF i = k + 1 THEN next ELSE h[i]]
  <2>2. next \in V
    OBVIOUS
  <2>3. j \in [0..(k + 1) -> V]
    BY <2>2
  <2>4. Ok(j, k + 1)
    BY <2>1
  <2> QED BY <2>3, <2>4
<1>3. n \in S
  <2> HIDE DEF S
  <2> QED BY <1>1, <1>2, NatInduct
<1> QED BY <1>3

\* What FlattenSeq has put together after each of the sequences.
PartialConcats(X, ss) ==
    {h \in [1..Len(ss) -> Seq(X)] :
        /\ h[1] = ss[1]
        /\ \A i \in 2..Len(ss) : h[i] = h[i - 1] \o ss[i]
        /\ FlattenSeq(ss) = h[Len(ss)]}

\* FlattenSeq, which is defined by recursion, is what its equation says.
LEMMA FlattenDef ==
  ASSUME NEW X, NEW ss \in Seq(Seq(X)), ss # <<>>
  PROVE  PartialConcats(X, ss) # {}
<1> USE DEF PartialConcats
<1> DEFINE n == Len(ss)
           F(h) == h = [i \in 1..n |-> IF i = 1 THEN ss[i] ELSE h[i - 1] \o ss[i]]
<1>1. n \in Nat \ {0} /\ \A i \in 1..n : ss[i] \in Seq(X)
  OBVIOUS
<1>2. \E h \in [1..n -> Seq(X)] : F(h)
  <2> DEFINE g == [i \in 1..n |-> [v \in Seq(X) |-> v \o ss[i]]]
  <2> HIDE DEF n
  <2>1. g \in [1..n -> [Seq(X) -> Seq(X)]]
    BY <1>1
  <2>2. PICK h \in [0..n -> Seq(X)] : h[0] = <<>> /\ \A i \in 1..n : h[i] = g[i][h[i - 1]]
    <3> DEFINE V == Seq(X)
               e == <<>>
    <3>1. e \in V /\ n \in Nat
      BY <1>1
    <3> HIDE DEF g, V, e
    <3>2. g \in Steps(n, V)
      BY <2>1 DEF V, Steps
    <3>3. Iterates(n, V, g, e) # {}
      BY <3>1, <3>2, Recursion
    <3> QED BY <3>3 DEF V, e, Iterates
  <2> DEFINE j == [i \in 1..n |-> h[i]]
  <2>3. ASSUME NEW i \in 1..n PROVE h[i] = h[i - 1] \o ss[i] /\ h[i - 1] \in Seq(X)
    <3>1. h[i - 1] \in Seq(X)
      BY <1>1
    <3>2. g[i][h[i - 1]] = h[i - 1] \o ss[i]
      BY <3>1
    <3> HIDE DEF g
    <3> QED BY <3>1, <3>2, <2>2
  <2>4. h[1] = ss[1]
    <3>1. 1 \in 1..n /\ 1 - 1 = 0
      BY <1>1
    <3>2. h[1] = h[0] \o ss[1]
      BY <2>3, <3>1
    <3> HIDE DEF g
    <3>3. h[0] = <<>>
      BY <2>2
    <3> QED BY <3>1, <3>2, <3>3, <1>1
  <2> HIDE DEF g
  <2>5. F(j)
    <3>1. \A i \in 1..n : i # 1 => i - 1 \in 1..n
      BY <1>1
    <3>2. \A i \in 1..n : j[i] = IF i = 1 THEN ss[i] ELSE j[i - 1] \o ss[i]
      BY <2>3, <2>4, <3>1
    <3> QED BY <3>2
  <2>6. j \in [1..n -> Seq(X)]
    BY <1>1
  <2> QED BY <2>5, <2>6
<1>3. F(CHOOSE h : F(h))
  BY <1>2
<1> DEFINE H == CHOOSE h : F(h)
<1>4. FlattenSeq(ss) = H[n]
  BY <1>1 DEF FlattenSeq
<1>5. H = [i \in 1..n |-> IF i = 1 THEN ss[i] ELSE H[i - 1] \o ss[i]]
  BY <1>3
<1> HIDE DEF H, n
<1>6. H[1] = ss[1] /\ \A i \in 2..n : H[i] = H[i - 1] \o ss[i]
  <2>1. \A i \in 1..n : H[i] = IF i = 1 THEN ss[i] ELSE H[i - 1] \o ss[i]
    BY <1>5
  <2>2. 1 \in 1..n /\ \A i \in 2..n : i \in 1..n /\ i # 1
    BY <1>1
  <2> QED BY <2>1, <2>2
<1>7. H \in [1..n -> Seq(X)]
  <2> DEFINE S == {k \in Nat : k + 1 <= n => H[k + 1] \in Seq(X)}
  <2>1. 0 \in S
    BY <1>6, <1>1
  <2>2. ASSUME NEW k \in Nat, k \in S PROVE k + 1 \in S
    <3> SUFFICES ASSUME k + 2 <= n PROVE H[k + 2] \in Seq(X)
      OBVIOUS
    <3>1. H[k + 1] \in Seq(X)
      BY <2>2, <1>1
    <3>2. H[k + 2] = H[k + 1] \o ss[k + 2]
      <4>1. k + 2 \in 2..n /\ (k + 2) - 1 = k + 1
        BY <1>1
      <4> HIDE DEF S
      <4> QED BY <1>6, <4>1
    <3> QED BY <3>1, <3>2, <1>1
  <2>3. Nat \subseteq S
    <3> HIDE DEF S
    <3> QED BY <2>1, <2>2, NatInduct
  <2>4. ASSUME NEW i \in 1..n PROVE H[i] \in Seq(X)
    <3>1. i - 1 \in Nat BY <1>1
    <3>2. i - 1 \in S BY <2>3, <3>1
    <3> QED BY <3>2, <1>1
  <2> QED BY <2>4, <1>5
<1> USE DEF n
<1> QED BY <1>4, <1>6, <1>7

\* FlattenSeq of no sequences.
LEMMA FlattenEmpty ==
  ASSUME NEW ss, ss = <<>>
  PROVE  FlattenSeq(ss) = <<>>
BY DEF FlattenSeq

\* FlattenSeq makes a sequence of the elements of sequences.
LEMMA FlattenType ==
  ASSUME NEW X, NEW ss \in Seq(Seq(X))
  PROVE  FlattenSeq(ss) \in Seq(X)
<1>1. CASE ss = <<>>
  <2>1. FlattenSeq(ss) = <<>>
    BY <1>1, FlattenEmpty
  <2> QED BY <2>1
<1>2. CASE ss # <<>>
  <2>1. Len(ss) \in 1..Len(ss)
    BY <1>2
  <2>2. PICK h \in PartialConcats(X, ss) : TRUE
    BY <1>2, FlattenDef
  <2> QED BY <2>1, <2>2 DEF PartialConcats
<1> QED BY <1>1, <1>2

\* One more sequence comes after what the others make.
LEMMA FlattenAppend ==
  ASSUME NEW X, NEW ss \in Seq(Seq(X)), NEW s \in Seq(X)
  PROVE  FlattenSeq(Append(ss, s)) = FlattenSeq(ss) \o s
<1> DEFINE n == Len(ss)
           tt == Append(ss, s)
<1>1. n \in Nat /\ tt \in Seq(Seq(X)) /\ tt # <<>> /\ Len(tt) = n + 1 /\ tt[n + 1] = s
      /\ \A i \in 1..n : tt[i] = ss[i]
  <2> HIDE DEF tt
  <2>1. ss \in Seq(Seq(X)) /\ s \in Seq(X)
    OBVIOUS
  <2> QED BY <2>1, AppendProperties DEF tt
<1> HIDE DEF n, tt
<1>2. PICK h \in [1..(n + 1) -> Seq(X)] :
            /\ h[1] = tt[1]
            /\ \A i \in 2..(n + 1) : h[i] = h[i - 1] \o tt[i]
            /\ FlattenSeq(tt) = h[n + 1]
  <2>1. PICK h \in PartialConcats(X, tt) : TRUE
    BY <1>1, FlattenDef
  <2> QED BY <2>1, <1>1 DEF PartialConcats
<1>3. CASE ss = <<>>
  <2>1. n = 0
    BY <1>3 DEF n
  <2> QED BY <2>1, <1>1, <1>2, <1>3, FlattenEmpty DEF tt
<1>4. CASE ss # <<>>
  <2>1. n >= 1
    BY <1>4 DEF n
  <2>2. PICK j \in [1..n -> Seq(X)] :
            /\ j[1] = ss[1]
            /\ \A i \in 2..n : j[i] = j[i - 1] \o ss[i]
            /\ FlattenSeq(ss) = j[n]
    <3>1. PICK j \in PartialConcats(X, ss) : TRUE
      BY <1>4, FlattenDef
    <3> QED BY <3>1 DEF PartialConcats, n
  <2> DEFINE S == {k \in Nat : k + 1 <= n => h[k + 1] = j[k + 1]}
  <2>3. 0 \in S
    BY <1>1, <1>2, <2>1, <2>2
  <2>4. ASSUME NEW k \in Nat, k \in S PROVE k + 1 \in S
    <3> SUFFICES ASSUME k + 2 <= n PROVE h[k + 2] = j[k + 2]
      OBVIOUS
    <3>1. k + 2 \in 2..n /\ k + 2 \in 2..(n + 1) /\ (k + 2) - 1 = k + 1 /\ k + 2 \in 1..n
      BY <1>1
    <3>2. h[k + 1] = j[k + 1]
      BY <2>4, <1>1
    <3>3. h[k + 2] = h[k + 1] \o tt[k + 2] /\ j[k + 2] = j[k + 1] \o ss[k + 2]
      BY <1>2, <2>2, <3>1
    <3> QED BY <1>1, <3>1, <3>2, <3>3
  <2>5. n - 1 \in S
    <3> HIDE DEF S
    <3>1. n - 1 \in Nat
      BY <1>1, <2>1
    <3> QED BY <2>3, <2>4, <3>1, NatInduct
  <2>6. h[n] = j[n]
    BY <2>5, <1>1, <2>1
  <2>7. n + 1 \in 2..(n + 1) /\ (n + 1) - 1 = n
    BY <1>1, <2>1
  <2>8. h[n + 1] = h[n] \o tt[n + 1]
    BY <1>2, <2>7
  <2> QED BY <1>1, <1>2, <2>2, <2>6, <2>8 DEF tt
<1> QED BY <1>3, <1>4

\* Induction over sequences, from the front to the back.
LEMMA SeqInduct ==
  ASSUME NEW X, NEW S, <<>> \in S, \A s \in Seq(X), x \in X : s \in S => Append(s, x) \in S
  PROVE  Seq(X) \subseteq S
<1> DEFINE N == {n \in Nat : \A s \in Seq(X) : Len(s) = n => s \in S}
<1>1. 0 \in N
  <2> SUFFICES ASSUME NEW s \in Seq(X), Len(s) = 0 PROVE s \in S
    OBVIOUS
  <2>1. s = <<>>
    OBVIOUS
  <2> QED BY <2>1
<1>2. ASSUME NEW n \in Nat, n \in N PROVE n + 1 \in N
  <2> SUFFICES ASSUME NEW s \in Seq(X), Len(s) = n + 1 PROVE s \in S
    OBVIOUS
  <2>1. s # <<>>
    OBVIOUS
  <2>2. PICK t \in Seq(X), x \in X : s = Append(t, x)
    BY <2>1, SequenceEmptyOrAppend
  <2>3. Len(t) = n
    BY <2>2, AppendProperties
  <2>4. t \in S
    BY <1>2, <2>3
  <2> QED BY <2>2, <2>4
<1>3. Nat \subseteq N
  <2> HIDE DEF N
  <2> QED BY <1>1, <1>2, NatInduct
<1> SUFFICES ASSUME NEW s \in Seq(X) PROVE s \in S
  OBVIOUS
<1>4. Len(s) \in N
  BY <1>3
<1> QED BY <1>4

\* The elements of a sequence and one more.
LEMMA ToSetAppend ==
  ASSUME NEW X, NEW s \in Seq(X), NEW x \in X
  PROVE  ToSet(Append(s, x)) = ToSet(s) \cup {x}
<1>1. /\ Len(s) \in Nat /\ DOMAIN s = 1..Len(s) /\ DOMAIN Append(s, x) = 1..(Len(s) + 1)
      /\ \A i \in 1..Len(s) : Append(s, x)[i] = s[i]
      /\ Append(s, x)[Len(s) + 1] = x
  BY AppendProperties
<1> QED BY <1>1 DEF ToSet

\* The elements of two sequences.
LEMMA ToSetConcat ==
  ASSUME NEW X, NEW s \in Seq(X), NEW t \in Seq(X)
  PROVE  ToSet(s \o t) = ToSet(s) \cup ToSet(t)
<1>1. /\ Len(s) \in Nat /\ Len(t) \in Nat
      /\ DOMAIN s = 1..Len(s) /\ DOMAIN t = 1..Len(t) /\ DOMAIN (s \o t) = 1..(Len(s) + Len(t))
      /\ \A i \in 1..Len(s) : (s \o t)[i] = s[i]
      /\ \A i \in (Len(s) + 1)..(Len(s) + Len(t)) : (s \o t)[i] = t[i - Len(s)]
  BY ConcatProperties
<1>2. ASSUME NEW x \in ToSet(s \o t) PROVE x \in ToSet(s) \cup ToSet(t)
  BY <1>1 DEF ToSet
<1>3. ASSUME NEW x \in ToSet(s) PROVE x \in ToSet(s \o t)
  BY <1>1 DEF ToSet
<1>4. ASSUME NEW x \in ToSet(t) PROVE x \in ToSet(s \o t)
  <2>1. PICK i \in 1..Len(t) : t[i] = x
    BY <1>1 DEF ToSet
  <2>2. (s \o t)[i + Len(s)] = x
    BY <1>1, <2>1
  <2> QED BY <1>1, <2>2, SMTT(30) DEF ToSet
<1> QED BY <1>2, <1>3, <1>4

\* FlattenSeq loses nothing and adds nothing.
LEMMA FlattenElements ==
  ASSUME NEW X, NEW ss \in Seq(Seq(X))
  PROVE  ToSet(FlattenSeq(ss)) = UNION {ToSet(ss[i]) : i \in DOMAIN ss}
<1> DEFINE All(r) == UNION {ToSet(r[i]) : i \in DOMAIN r}
           S == {r \in Seq(Seq(X)) : ToSet(FlattenSeq(r)) = All(r)}
<1>1. <<>> \in S
  BY FlattenEmpty DEF ToSet
<1>2. ASSUME NEW r \in Seq(Seq(X)), NEW s \in Seq(X), r \in S PROVE Append(r, s) \in S
  <2> DEFINE t == Append(r, s)
  <2>1. /\ t \in Seq(Seq(X)) /\ Len(t) = Len(r) + 1 /\ t[Len(r) + 1] = s
        /\ \A i \in 1..Len(r) : t[i] = r[i]
        /\ DOMAIN t = 1..Len(t) /\ DOMAIN r = 1..Len(r) /\ Len(r) \in Nat
    <3>1. r \in Seq(Seq(X)) /\ s \in Seq(X) OBVIOUS
    <3> QED BY <3>1, AppendProperties, LenProperties
  <2>2. FlattenSeq(t) = FlattenSeq(r) \o s
    BY FlattenAppend
  <2>3. ToSet(FlattenSeq(t)) = All(r) \cup ToSet(s)
    BY <1>2, <2>2, FlattenType, ToSetConcat
  <2> HIDE DEF t
  <2>4. All(t) = All(r) \cup ToSet(s)
    <3>1. \A i \in DOMAIN r : i \in DOMAIN t /\ t[i] = r[i]
      BY <2>1
    <3>2. Len(r) + 1 \in DOMAIN t
      BY <2>1
    <3>3. \A i \in DOMAIN t : i \in DOMAIN r \/ i = Len(r) + 1
      BY <2>1
    <3> QED BY <3>1, <3>2, <3>3, <2>1
  <2> QED BY <2>1, <2>3, <2>4 DEF t
<1>3. Seq(Seq(X)) \subseteq S
  <2> DEFINE Y == Seq(X)
  <2> HIDE DEF S, Y
  <2>1. \A r \in Seq(Y), s \in Y : r \in S => Append(r, s) \in S
    BY <1>2 DEF Y
  <2>2. Seq(Y) \subseteq S
    BY <1>1, <2>1, SeqInduct
  <2> QED BY <2>2 DEF Y
<1> QED BY <1>3

\* Where an element of a flattened sequence comes from: the block it is in has
\* been moved there as a whole.
IsBlock(ss, flat, k, i, o) ==
    /\ k \in (o + 1)..(o + Len(ss[i]))
    /\ \A j \in 1..Len(ss[i]) : o + j \in DOMAIN flat /\ flat[o + j] = ss[i][j]

\* Each element of a flattened sequence is in such a block.
LEMMA FlattenBlock ==
  ASSUME NEW X, NEW ss \in Seq(Seq(X)), NEW k \in DOMAIN FlattenSeq(ss)
  PROVE  \E i \in DOMAIN ss, o \in Nat : IsBlock(ss, FlattenSeq(ss), k, i, o)
<1> DEFINE Has(r, kk) == \E i \in DOMAIN r, o \in Nat : IsBlock(r, FlattenSeq(r), kk, i, o)
           S == {r \in Seq(Seq(X)) : \A kk \in DOMAIN FlattenSeq(r) : Has(r, kk)}
<1>1. <<>> \in S
  BY FlattenEmpty
<1>2. ASSUME NEW r \in Seq(Seq(X)), NEW s \in Seq(X), r \in S PROVE Append(r, s) \in S
  <2> DEFINE t == Append(r, s)
             f == FlattenSeq(r)
             g == FlattenSeq(t)
  <2>1. /\ t \in Seq(Seq(X)) /\ Len(t) = Len(r) + 1 /\ t[Len(r) + 1] = s
        /\ \A i \in 1..Len(r) : t[i] = r[i]
        /\ DOMAIN t = 1..Len(t) /\ DOMAIN r = 1..Len(r) /\ Len(r) \in Nat
    <3>1. r \in Seq(Seq(X)) /\ s \in Seq(X) OBVIOUS
    <3> QED BY <3>1, AppendProperties, LenProperties
  <2>2. g = f \o s /\ f \in Seq(X)
    BY FlattenAppend, FlattenType
  <2>3. /\ Len(f) \in Nat /\ Len(s) \in Nat /\ DOMAIN f = 1..Len(f)
        /\ DOMAIN g = 1..(Len(f) + Len(s))
        /\ \A j \in 1..Len(f) : g[j] = f[j]
        /\ \A j \in 1..Len(s) : g[Len(f) + j] = s[j]
    BY <2>2, ConcatProperties
  <2> SUFFICES ASSUME NEW kk \in DOMAIN g PROVE Has(t, kk)
    BY <2>1
  <2>4. CASE kk <= Len(f)
    <3>1. kk \in DOMAIN f
      BY <2>3, <2>4
    <3>2. PICK i \in DOMAIN r, o \in Nat : IsBlock(r, f, kk, i, o)
      BY <1>2, <3>1
    <3>3. i \in DOMAIN t /\ t[i] = r[i]
      BY <2>1
    <3> HIDE DEF f, g, t
    <3>4. \A j \in DOMAIN f : j \in DOMAIN g /\ g[j] = f[j]
      BY <2>3
    <3>5. IsBlock(t, g, kk, i, o)
      BY <3>2, <3>3, <3>4 DEF IsBlock
    <3> QED BY <3>3, <3>5 DEF g
  <2>5. CASE kk > Len(f)
    <3> HIDE DEF f, g, t
    <3>1. Len(r) + 1 \in DOMAIN t
      BY <2>1
    <3>2. IsBlock(t, g, kk, Len(r) + 1, Len(f))
      BY <2>1, <2>3, <2>5 DEF IsBlock
    <3> QED BY <3>1, <3>2, <2>3 DEF g
  <2>6. kk \in Int /\ Len(f) \in Int
    BY <2>3
  <2> QED BY <2>4, <2>5, <2>6
<1>3. Seq(Seq(X)) \subseteq S
  <2> DEFINE Y == Seq(X)
  <2> HIDE DEF S, Y
  <2>1. \A r \in Seq(Y), s \in Y : r \in S => Append(r, s) \in S
    BY <1>2 DEF Y
  <2>2. Seq(Y) \subseteq S
    BY <1>1, <2>1, SeqInduct
  <2> QED BY <2>2 DEF Y
<1> QED BY <1>3

\* A sequence and what is appended to another.
LEMMA ConcatAppend ==
  ASSUME NEW X, NEW s \in Seq(X), NEW t \in Seq(X), NEW x \in X
  PROVE  s \o Append(t, x) = Append(s \o t, x)
<1>1. Append(t, x) = t \o <<x>> /\ s \o t \in Seq(X) /\ <<x>> \in Seq(X)
  BY AppendIsConcat, ConcatProperties
<1>2. Append(s \o t, x) = (s \o t) \o <<x>>
  BY <1>1, AppendIsConcat
<1> QED BY <1>1, <1>2, ConcatAssociative

\* The beginnings of a sequence are those of a longer one.
LEMMA BeginningOfAppend ==
  ASSUME NEW X, NEW s \in Seq(X), NEW x \in X, NEW n \in 0..Len(s)
  PROVE  SubSeq(Append(s, x), 1, n) = SubSeq(s, 1, n)
<1>1. /\ n \in Int /\ 1 \in Int /\ n <= Len(s) /\ Len(s) \in Nat
      /\ \A i \in 1..n : i \in 1..Len(s)
  OBVIOUS
<1>2. \A i \in 1..n : Append(s, x)[i] = s[i] /\ s[i] \in X /\ Append(s, x)[i] \in X
  BY <1>1, AppendProperties, ElementOfSeq
<1>3. /\ SubSeq(Append(s, x), 1, n) \in Seq(X) /\ SubSeq(s, 1, n) \in Seq(X)
      /\ Len(SubSeq(Append(s, x), 1, n)) = Len(SubSeq(s, 1, n))
      /\ \A i \in 1..(n - 1 + 1) : SubSeq(Append(s, x), 1, n)[i] = Append(s, x)[1 + i - 1]
                                   /\ SubSeq(s, 1, n)[i] = s[1 + i - 1]
  BY <1>1, <1>2, SubSeqProperties
<1>4. \A i \in 1..Len(SubSeq(s, 1, n)) : i \in 1..n
  BY <1>1, <1>2, SubSeqProperties
<1>5. \A i \in 1..n : SubSeq(Append(s, x), 1, n)[i] = SubSeq(s, 1, n)[i]
  <2> SUFFICES ASSUME NEW i \in 1..n PROVE SubSeq(Append(s, x), 1, n)[i] = SubSeq(s, 1, n)[i]
    OBVIOUS
  <2>1. i \in 1..(n - 1 + 1) /\ 1 + i - 1 = i
    BY <1>1
  <2> QED BY <1>2, <1>3, <2>1
<1> QED BY <1>3, <1>4, <1>5, SeqEqual

\* A beginning of a beginning.
LEMMA BeginningTwice ==
  ASSUME NEW X, NEW s \in Seq(X), NEW n \in 0..Len(s), NEW k \in 0..n
  PROVE  SubSeq(SubSeq(s, 1, n), 1, k) = SubSeq(s, 1, k)
<1>1. n \in Int /\ k \in Int /\ k <= n /\ n \in Nat /\ k \in Nat
  OBVIOUS
<1>2. SubSeq(s, 1, n) = [i \in 1..n |-> s[i]] /\ SubSeq(s, 1, k) = [i \in 1..k |-> s[i]]
  BY <1>1
<1>3. SubSeq(SubSeq(s, 1, n), 1, k) = [i \in 1..k |-> SubSeq(s, 1, n)[i]]
  BY <1>1
<1>4. \A i \in 1..k : i \in 1..n
  BY <1>1
<1> QED BY <1>2, <1>3, <1>4

\* What one element more makes of a sequence.
LEMMA IsAppend ==
  ASSUME NEW X, NEW s \in Seq(X), NEW t \in Seq(X), Len(t) = Len(s) + 1,
         \A i \in 1..Len(s) : t[i] = s[i]
  PROVE  t = Append(s, t[Len(s) + 1])
<1> DEFINE x == t[Len(s) + 1]
           a == Append(s, x)
<1>1. Len(s) \in Nat /\ x \in X /\ \A i \in 1..(Len(s) + 1) : i = Len(s) + 1 \/ i \in 1..Len(s)
  OBVIOUS
<1> HIDE DEF x
<1>2. a \in Seq(X) /\ Len(a) = Len(s) + 1 /\ a[Len(s) + 1] = x /\ \A i \in 1..Len(s) : a[i] = s[i]
  BY <1>1, AppendProperties
<1> HIDE DEF a
<1>3. \A i \in 1..Len(t) : t[i] = a[i]
  BY <1>1, <1>2 DEF x
<1>4. t = a
  BY <1>2, <1>3, SeqEqual
<1> QED BY <1>4 DEF a, x

-----------------------------------------------------------------------------
(* FoldLeft.  Its definition takes any operator, and so cannot be the subject  *)
(* of a lemma; what can be are steps given by functions.  For each operator    *)
(* that is folded, its module shows that the fold is Iterated by its steps.    *)

\* Where v0 is taken by n steps.
Iterated(n, V, g, v0) == (CHOOSE h \in Iterates(n, V, g, v0) : TRUE)[n]

\* There is one way only to take the same steps.
LEMMA IteratesAgree ==
  ASSUME NEW V, NEW v0 \in V, NEW n \in Nat, NEW g \in Steps(n, V),
         NEW k \in Nat, k <= n, NEW f \in Steps(k, V), \A i \in 1..k : f[i] = g[i],
         NEW h \in Iterates(n, V, g, v0), NEW j \in Iterates(k, V, f, v0)
  PROVE  h[k] = j[k]
<1> DEFINE S == {m \in Nat : m <= k => h[m] = j[m]}
<1>1. 0 \in S
  BY DEF Iterates
<1>2. ASSUME NEW m \in Nat, m \in S PROVE m + 1 \in S
  <2> SUFFICES ASSUME m + 1 <= k PROVE h[m + 1] = j[m + 1]
    OBVIOUS
  <2>1. m + 1 \in 1..n /\ m + 1 \in 1..k /\ (m + 1) - 1 = m
    OBVIOUS
  <2>2. h[m] = j[m]
    BY <1>2
  <2>3. h[m + 1] = g[m + 1][h[m]] /\ j[m + 1] = f[m + 1][j[m]]
    BY <2>1 DEF Iterates
  <2> QED BY <2>1, <2>2, <2>3
<1>3. k \in S
  <2> HIDE DEF S
  <2> QED BY <1>1, <1>2, NatInduct
<1> QED BY <1>3

\* The steps lead to something of the kind they begin with.
LEMMA IteratedType ==
  ASSUME NEW V, NEW v0 \in V, NEW n \in Nat, NEW g \in Steps(n, V)
  PROVE  Iterated(n, V, g, v0) \in V
<1>1. Iterates(n, V, g, v0) # {} /\ n \in 0..n
  BY Recursion
<1> QED BY <1>1 DEF Iterates, Iterated

\* No steps lead nowhere.
LEMMA IteratedZero ==
  ASSUME NEW V, NEW v0 \in V, NEW g \in Steps(0, V)
  PROVE  Iterated(0, V, g, v0) = v0
<1>1. Iterates(0, V, g, v0) # {}
  BY Recursion
<1> QED BY <1>1 DEF Iterates, Iterated

\* One more step.
LEMMA IteratedNext ==
  ASSUME NEW V, NEW v0 \in V, NEW n \in Nat, NEW g \in Steps(n + 1, V),
         NEW f \in Steps(n, V), \A i \in 1..n : f[i] = g[i]
  PROVE  /\ Iterated(n, V, f, v0) \in V
         /\ Iterated(n + 1, V, g, v0) = g[n + 1][Iterated(n, V, f, v0)]
<1>1. Iterates(n + 1, V, g, v0) # {} /\ Iterates(n, V, f, v0) # {}
  BY Recursion
<1> DEFINE h == CHOOSE h \in Iterates(n + 1, V, g, v0) : TRUE
           j == CHOOSE j \in Iterates(n, V, f, v0) : TRUE
<1>2. h \in Iterates(n + 1, V, g, v0) /\ j \in Iterates(n, V, f, v0)
  BY <1>1
<1>3. Iterated(n + 1, V, g, v0) = h[n + 1] /\ Iterated(n, V, f, v0) = j[n]
  BY DEF Iterated
<1> HIDE DEF h, j
<1>4. h[n] = j[n]
  <2>1. n + 1 \in Nat /\ n <= n + 1
    OBVIOUS
  <2> QED BY <1>2, <2>1, IteratesAgree
<1>5. n + 1 \in 1..(n + 1) /\ (n + 1) - 1 = n /\ n \in 0..n
  OBVIOUS
<1>6. h[n + 1] = g[n + 1][h[n]] /\ j[n] \in V
  BY <1>2, <1>5 DEF Iterates
<1> QED BY <1>3, <1>4, <1>6

\* What MapThenFoldSet computes: for each set of the first k positions the fold
\* over it.
FoldsUpTo(k, n, V, g, v0) ==
    {it \in [SUBSET (1..n) -> V] :
        \A T \in SUBSET (1..k) : it[T] = IF T = {} THEN v0 ELSE g[Max(T)][it[T \ {Max(T)}]]}

\* The largest of some positions.
LEMMA MaxPosition ==
  ASSUME NEW n \in Nat, NEW T \in SUBSET (1..n), T # {}
  PROVE  /\ Max(T) \in T
         /\ \A i \in T : i <= Max(T)
<1> DEFINE S == {k \in Nat : (\E i \in T : i <= k) => \E m \in T : \A i \in T : i <= k => i <= m}
<1>1. 0 \in S
  OBVIOUS
<1>2. ASSUME NEW k \in Nat, k \in S PROVE k + 1 \in S
  <2>1. CASE k + 1 \in T
    BY <2>1
  <2>2. CASE k + 1 \notin T
    <3>1. \A i \in T : i <= k + 1 => i <= k
      BY <2>2
    <3> QED BY <1>2, <3>1
  <2> QED BY <2>1, <2>2
<1>3. n \in S
  <2> HIDE DEF S
  <2> QED BY <1>1, <1>2, NatInduct
<1>4. \E m \in T : \A i \in T : m >= i
  <2>1. \A i \in T : i \in 1..n /\ i <= n
    OBVIOUS
  <2>2. PICK m \in T : \A i \in T : i <= n => i <= m
    BY <1>3, <2>1
  <2> QED BY <2>1, <2>2
<1>5. Max(T) \in T /\ \A i \in T : Max(T) >= i
  BY <1>4 DEF Max
<1> QED BY <1>5

\* The fold over sets of positions exists.
LEMMA FoldsExist ==
  ASSUME NEW V, NEW v0 \in V, NEW n \in Nat, NEW g \in Steps(n, V)
  PROVE  FoldsUpTo(n, n, V, g, v0) # {}
<1> DEFINE S == {k \in Nat : k <= n => FoldsUpTo(k, n, V, g, v0) # {}}
<1>1. 0 \in S
  <2> DEFINE it == [T \in SUBSET (1..n) |-> v0]
  <2>1. it \in [SUBSET (1..n) -> V]
    OBVIOUS
  <2>2. \A T \in SUBSET (1..0) : it[T] = v0 /\ T = {}
    <3>1. 1..0 = {} /\ {} \in SUBSET (1..n)
      OBVIOUS
    <3> QED BY <3>1
  <2> HIDE DEF it
  <2>3. it \in FoldsUpTo(0, n, V, g, v0)
    BY <2>1, <2>2 DEF FoldsUpTo
  <2> QED BY <2>3
<1>2. ASSUME NEW k \in Nat, k \in S PROVE k + 1 \in S
  <2> SUFFICES ASSUME k + 1 <= n PROVE FoldsUpTo(k + 1, n, V, g, v0) # {}
    OBVIOUS
  <2>1. PICK old \in FoldsUpTo(k, n, V, g, v0) : TRUE
    BY <1>2
  <2> DEFINE P  == SUBSET (1..n)
             it == [T \in P |-> IF k + 1 \in T THEN g[k + 1][old[T \ {k + 1}]] ELSE old[T]]
  <2>2. old \in [P -> V] /\ \A T \in SUBSET (1..k) :
             old[T] = IF T = {} THEN v0 ELSE g[Max(T)][old[T \ {Max(T)}]]
    BY <2>1 DEF FoldsUpTo
  <2>3. it \in [P -> V]
    <3>1. \A T \in P : T \ {k + 1} \in P
      OBVIOUS
    <3>2. k + 1 \in 1..n
      OBVIOUS
    <3>3. g[k + 1] \in [V -> V]
      BY <3>2 DEF Steps
    <3> HIDE DEF P
    <3> QED BY <2>2, <3>1, <3>3
  <2>4. ASSUME NEW T \in SUBSET (1..(k + 1))
        PROVE  it[T] = IF T = {} THEN v0 ELSE g[Max(T)][it[T \ {Max(T)}]]
    <3>0. k + 1 \in Nat /\ \A i \in 1..(k + 1) : i \in 1..n
      OBVIOUS
    <3>1. k + 1 \in Nat /\ T \in P /\ \A x : T \ {x} \in P
      <4>1. \A i \in T : i \in 1..n
        BY <3>0
      <4> QED BY <3>0, <4>1
    <3>2. \A U \in P : it[U] = IF k + 1 \in U THEN g[k + 1][old[U \ {k + 1}]] ELSE old[U]
      OBVIOUS
    <3> HIDE DEF it, P
    <3>3. CASE k + 1 \in T
      <4>1. T # {} /\ \A i \in T : i \in Nat /\ i <= k + 1
        BY <3>3
      <4>2. Max(T) \in T /\ \A i \in T : i <= Max(T)
        <5>1. k + 1 \in Nat /\ T \in SUBSET (1..(k + 1)) /\ T # {}
          BY <3>1, <4>1
        <5> HIDE DEF P
        <5> QED BY ONLY <5>1, MaxPosition
      <4>3. Max(T) = k + 1
        <5>1. Max(T) \in Nat /\ Max(T) <= k + 1
          BY <4>1, <4>2
        <5>2. k + 1 <= Max(T)
          BY <3>3, <4>2
        <5> QED BY ONLY <5>1, <5>2, k \in Nat
      <4>4. k + 1 \notin T \ {k + 1}
        OBVIOUS
      <4> QED BY <3>1, <3>2, <3>3, <4>1, <4>3, <4>4
    <3>4. CASE k + 1 \notin T
      <4>1. T \in SUBSET (1..k)
        BY <3>4
      <4>2. it[T] = old[T] /\ it[T \ {Max(T)}] = old[T \ {Max(T)}]
        BY <3>1, <3>2, <3>4
      <4> QED BY <2>2, <4>1, <4>2
    <3> QED BY <3>3, <3>4
  <2>5. it \in FoldsUpTo(k + 1, n, V, g, v0)
    <3> HIDE DEF it
    <3> QED BY <2>3, <2>4 DEF FoldsUpTo
  <2> QED BY <2>5
<1>3. n \in S
  <2> HIDE DEF S
  <2> QED BY <1>1, <1>2, NatInduct
<1> QED BY <1>3

\* Such a fold, over all the positions, is what the steps one after the other give.
LEMMA FoldIsIterated ==
  ASSUME NEW V, NEW v0 \in V, NEW n \in Nat, NEW g \in Steps(n, V), NEW it,
         it[{}] = v0,
         \A T \in SUBSET (1..n) : T # {} /\ it[T \ {Max(T)}] \in V
                                    => it[T] = g[Max(T)][it[T \ {Max(T)}]]
  PROVE  it[1..n] = Iterated(n, V, g, v0) /\ it[1..n] \in V
<1>1. PICK h \in Iterates(n, V, g, v0) : h[n] = Iterated(n, V, g, v0)
  <2> DEFINE j == CHOOSE h \in Iterates(n, V, g, v0) : TRUE
  <2>1. j \in Iterates(n, V, g, v0)
    BY Recursion
  <2>2. j[n] = Iterated(n, V, g, v0)
    BY DEF Iterated
  <2> HIDE DEF j
  <2> QED BY <2>1, <2>2
<1> DEFINE S == {k \in Nat : k <= n => it[1..k] = h[k] /\ h[k] \in V}
<1>2. 0 \in S
  <2>1. 1..0 = {}
    OBVIOUS
  <2> QED BY <1>1, <2>1 DEF Iterates
<1>3. ASSUME NEW k \in Nat, k \in S PROVE k + 1 \in S
  <2> SUFFICES ASSUME k + 1 <= n PROVE it[1..(k + 1)] = h[k + 1] /\ h[k + 1] \in V
    OBVIOUS
  <2> DEFINE T == 1..(k + 1)
  <2>1. k + 1 \in 1..n /\ k + 1 \in 0..n /\ (k + 1) - 1 = k
    OBVIOUS
  <2>2. T \in SUBSET (1..n) /\ T # {} /\ k + 1 \in T /\ \A i \in T : i <= k + 1
    OBVIOUS
  <2>3. Max(T) = k + 1
    <3> HIDE DEF T
    <3>1. Max(T) \in T /\ k + 1 <= Max(T)
      BY <2>2, MaxPosition
    <3> QED BY <2>2, <3>1 DEF T
  <2>4. T \ {k + 1} = 1..k
    OBVIOUS
  <2>5. it[1..k] = h[k] /\ h[k] \in V
    BY <1>3
  <2> HIDE DEF T
  <2>6. it[T] = g[k + 1][h[k]]
    BY <2>2, <2>3, <2>4, <2>5
  <2>7. h[k + 1] = g[k + 1][h[k]] /\ h[k + 1] \in V
    BY <2>1 DEF Iterates
  <2> QED BY <2>6, <2>7 DEF T
<1>4. n \in S
  <2> HIDE DEF S
  <2> QED BY <1>2, <1>3, NatInduct
<1> QED BY <1>1, <1>4

-----------------------------------------------------------------------------
(* Sequences in parts.                                                     *)

\* The first n elements, what follows them, and one element replaced.
FirstOf(s, n)  == SubSeq(s, 1, n)
RestOf(s, n)   == SubSeq(s, n + 1, Len(s))
Put(s, i, x)   == [s EXCEPT ![i] = x]

\* The first elements of a sequence.
LEMMA FirstOfIs ==
  ASSUME NEW X, NEW s \in Seq(X), NEW n \in 0..Len(s)
  PROVE  /\ FirstOf(s, n) \in Seq(X) /\ Len(FirstOf(s, n)) = n
         /\ \A j \in 1..n : FirstOf(s, n)[j] = s[j]
<1> DEFINE p == FirstOf(s, n)
<1>0. Len(s) \in Nat /\ n \in Nat /\ n <= Len(s)
  BY LenProperties
<1>1. \A j \in 1..n : s[j] \in X
  BY <1>0, ElementOfSeq
<1>2. p = [j \in 1..n |-> s[j]]
  BY <1>0 DEF FirstOf
<1> HIDE DEF p
<1>3. p \in Seq(X) /\ Len(p) = n /\ \A j \in 1..n : p[j] = s[j]
  BY <1>0, <1>1, <1>2
<1> QED BY <1>3 DEF p

\* The rest of a sequence.
LEMMA RestOfIs ==
  ASSUME NEW X, NEW s \in Seq(X), NEW i \in 0..Len(s)
  PROVE  /\ RestOf(s, i) \in Seq(X) /\ Len(RestOf(s, i)) = Len(s) - i
         /\ \A j \in 1..(Len(s) - i) : RestOf(s, i)[j] = s[i + j]
<1> DEFINE q == RestOf(s, i)
           n == Len(s)
<1>0. n \in Nat /\ i \in Nat /\ i <= n
  BY LenProperties
<1> USE DEF RestOf
<1>2. q \in Seq(X) /\ Len(q) = n - i /\ \A j \in 1..(n - i) : q[j] = s[i + j]
  <2>1. \A j \in (i + 1)..n : s[j] \in X
    BY <1>0, ElementOfSeq
  <2>2. /\ q \in Seq(X) /\ Len(q) = (IF i + 1 <= n THEN n - (i + 1) + 1 ELSE 0)
        /\ \A j \in 1..(n - (i + 1) + 1) : q[j] = s[(i + 1) + j - 1]
    BY <1>0, <2>1, SubSeqProperties
  <2> HIDE DEF q
  <2>3. \A j \in 1..(n - i) : j \in 1..(n - (i + 1) + 1) /\ (i + 1) + j - 1 = i + j
    BY <1>0
  <2> QED BY <1>0, <2>2, <2>3
<1> QED BY <1>2

\* A sequence with one element replaced: what is before it, the new one and what is
\* after it.
LEMMA PutParts ==
  ASSUME NEW X, NEW s \in Seq(X), NEW i \in 1..Len(s), NEW x \in X
  PROVE  Put(s, i, x) = Append(FirstOf(s, i - 1), x) \o RestOf(s, i)
<1> DEFINE p == FirstOf(s, i - 1)
           q == RestOf(s, i)
           px == Append(p, x)
           r == px \o q
           t == Put(s, i, x)
           n == Len(s)
<1>0. n \in Nat /\ i \in Nat /\ i >= 1 /\ i <= n /\ i - 1 \in 0..n /\ i \in 0..n
  BY LenProperties
<1>1. p \in Seq(X) /\ Len(p) = i - 1 /\ \A j \in 1..(i - 1) : p[j] = s[j]
  BY <1>0, FirstOfIs
<1>2. q \in Seq(X) /\ Len(q) = n - i /\ \A j \in 1..(n - i) : q[j] = s[i + j]
  BY <1>0, RestOfIs
<1> HIDE DEF p, q
<1>3. px \in Seq(X) /\ Len(px) = i /\ px[i] = x /\ \A j \in 1..(i - 1) : px[j] = s[j]
  <2>1. /\ px \in Seq(X) /\ Len(px) = Len(p) + 1 /\ px[Len(p) + 1] = x
        /\ \A j \in 1..Len(p) : px[j] = p[j]
    BY <1>1, AppendProperties
  <2> QED BY <1>0, <1>1, <2>1
<1> HIDE DEF px
<1>4. r \in Seq(X) /\ Len(r) = n /\ \A j \in 1..n : r[j] = IF j <= i THEN px[j] ELSE q[j - i]
  <2>1. /\ r \in Seq(X) /\ Len(r) = Len(px) + Len(q)
        /\ \A j \in 1..(Len(px) + Len(q)) : r[j] = IF j <= Len(px) THEN px[j] ELSE q[j - Len(px)]
    BY <1>2, <1>3, ConcatProperties, Zenon
  <2> QED BY <1>0, <1>2, <1>3, <2>1
<1> HIDE DEF r
<1>5. t \in Seq(X) /\ Len(t) = n /\ t[i] = x /\ \A j \in 1..n : j # i => t[j] = s[j]
  BY ExceptSeq DEF Put
<1> HIDE DEF t, n
<1>6. ASSUME NEW j \in 1..n PROVE t[j] = r[j]
  <2>1. CASE j < i
    <3>1. j \in 1..(i - 1) /\ j # i /\ j <= i
      BY <1>0, <2>1
    <3> QED BY <1>3, <1>4, <1>5, <3>1
  <2>2. CASE j = i
    BY <1>0, <1>3, <1>4, <1>5, <2>2
  <2>3. CASE j > i
    <3>1. j # i /\ ~(j <= i) /\ j - i \in 1..(n - i) /\ i + (j - i) = j
      BY <1>0, <2>3
    <3> QED BY <1>2, <1>4, <1>5, <3>1
  <2> QED BY <1>0, <2>1, <2>2, <2>3
<1>7. t = r
  BY <1>4, <1>5, <1>6, SeqEqual
<1> QED BY <1>7 DEF p, q, px, r, t, n

\* Put back what was there.
LEMMA PutSame ==
  ASSUME NEW X, NEW s \in Seq(X), NEW i \in 1..Len(s)
  PROVE  Put(s, i, s[i]) = s
BY DEF Put

\* A sequence in two parts.
LEMMA SplitParts ==
  ASSUME NEW X, NEW s \in Seq(X), NEW t \in 1..Len(s)
  PROVE  s = FirstOf(s, t) \o RestOf(s, t)
<1> DEFINE p == FirstOf(s, t)
           q == RestOf(s, t)
<1>0. Len(s) \in Nat /\ t \in Nat /\ t >= 1 /\ t <= Len(s) /\ t \in 0..Len(s)
      /\ t - 1 \in 0..Len(s)
  BY LenProperties
<1>1. p \in Seq(X) /\ Len(p) = t /\ \A j \in 1..t : p[j] = s[j]
  BY <1>0, FirstOfIs
<1>2. q \in Seq(X) /\ Len(q) = Len(s) - t /\ \A j \in 1..(Len(s) - t) : q[j] = s[t + j]
  BY <1>0, RestOfIs
<1>3. s = p \o q
  <2> DEFINE p0 == FirstOf(s, t - 1)
             c == s[t]
  <2>1. c \in X
    BY ElementOfSeq
  <2>2. p0 \in Seq(X) /\ Len(p0) = t - 1 /\ \A j \in 1..(t - 1) : p0[j] = s[j]
    BY <1>0, FirstOfIs
  <2>3. Put(s, t, c) = Append(p0, c) \o q
    BY <2>1, PutParts
  <2>4. Put(s, t, c) = s
    BY PutSame
  <2> HIDE DEF p, p0, q, c
  <2>5. Len(p) = Len(p0) + 1 /\ \A j \in 1..Len(p0) : p[j] = p0[j]
    BY <1>0, <1>1, <2>2
  <2>6. p = Append(p0, p[Len(p0) + 1])
    BY <1>1, <2>2, <2>5, IsAppend
  <2>7. p[Len(p0) + 1] = c
    BY <1>0, <1>1, <2>2 DEF c
  <2> QED BY <2>3, <2>4, <2>6, <2>7
<1> QED BY <1>3

\* A sequence with one element more behind position t.
LEMMA SpliceParts ==
  ASSUME NEW X, NEW s \in Seq(X), NEW t \in 1..Len(s), NEW x \in X
  PROVE  InsertAt(s, t + 1, x) = Append(FirstOf(s, t), x) \o RestOf(s, t)
<1> DEFINE p == FirstOf(s, t)
           q == RestOf(s, t)
<1>0. Len(s) \in Nat /\ t \in Nat /\ t >= 1 /\ t <= Len(s) /\ t \in 0..Len(s)
  BY LenProperties
<1>1. p \in Seq(X)
  BY <1>0, FirstOfIs
<1>2. InsertAt(s, t + 1, x) = Append(p, x) \o q
  <2>1. (t + 1) - 1 = t
    BY <1>0
  <2>2. InsertAt(s, t + 1, x) = (p \o <<x>>) \o q
    BY <2>1, Zenon DEF InsertAt, FirstOf, RestOf
  <2>3. p \o <<x>> = Append(p, x)
    BY <1>1, AppendIsConcat
  <2> QED BY <2>2, <2>3
<1> QED BY <1>2

-----------------------------------------------------------------------------
(* Recursion over finite sets.                                             *)

\* What each d of the finite set D needs, without cycles.
NoCycle(D, needs) ==
    /\ IsFiniteSet(D) /\ needs \in [D -> SUBSET D]
    /\ \A S \in (SUBSET D) \ {{}} : \E d \in S : needs[d] \cap S = {}

\* g[d] makes something for d of what there is for those that d needs.
MadeOfNeeds(D, needs, X, g) ==
    /\ g \in [D -> [[D -> X] -> X]]
    /\ \A d \in D : \A h, j \in [D -> X] :
          (\A k \in needs[d] : h[k] = j[k]) => g[d][h] = g[d][j]

Solutions(D, X, g) == {h \in [D -> X] : \A d \in D : h[d] = g[d][h]}

\* So a definition by recursion defines something when there is no cycle.
LEMMA Recursive ==
  ASSUME NEW D, NEW needs, NoCycle(D, needs), NEW X, X # {},
         NEW g, MadeOfNeeds(D, needs, X, g)
  PROVE  Solutions(D, X, g) # {}
<1> SUFFICES ASSUME IsFiniteSet(D), needs \in [D -> SUBSET D],
                    \A S \in (SUBSET D) \ {{}} : \E d \in S : needs[d] \cap S = {},
                    g \in [D -> [[D -> X] -> X]],
                    \A d \in D : \A h, j \in [D -> X] :
                       (\A k \in needs[d] : h[k] = j[k]) => g[d][h] = g[d][j]
             PROVE  \E h \in [D -> X] : \A d \in D : h[d] = g[d][h]
  BY Zenon DEF NoCycle, MadeOfNeeds, Solutions
<1>0. PICK x0 \in X : TRUE
  OBVIOUS
<1> DEFINE Upto(E) == /\ \A d \in E : needs[d] \subseteq E
                      /\ \E h \in [D -> X] : \A d \in E : h[d] = g[d][h]
           S == {n \in Nat : n <= Cardinality(D) =>
                                \E E \in SUBSET D : Cardinality(E) = n /\ Upto(E)}
<1>1. Cardinality(D) \in Nat
  BY FS_CardinalityType
<1>2. 0 \in S
  <2>1. [d \in D |-> x0] \in [D -> X]
    OBVIOUS
  <2>2. Upto({}) /\ Cardinality({}) = 0
    BY <2>1, FS_EmptySet
  <2> HIDE DEF Upto
  <2>3. {} \in SUBSET D
    OBVIOUS
  <2> QED BY <2>2, <2>3
<1>3. ASSUME NEW n \in Nat, n \in S PROVE n + 1 \in S
  <2> SUFFICES ASSUME n + 1 <= Cardinality(D)
               PROVE  \E E \in SUBSET D : Cardinality(E) = n + 1 /\ Upto(E)
    <3> HIDE DEF Upto
    <3> QED OBVIOUS
  <2>1. PICK E \in SUBSET D : Cardinality(E) = n /\ Upto(E)
    BY <1>1, <1>3
  <2>2. D \ E # {}
    <3>1. Cardinality(E) # Cardinality(D)
      BY <1>1, <2>1
    <3>2. E # D
      BY <3>1, Zenon
    <3> QED BY <2>1, <3>2, Zenon
  <2>3. PICK d \in D \ E : needs[d] \cap (D \ E) = {}
    BY <2>2
  <2>4. PICK h \in [D -> X] : \A e \in E : h[e] = g[e][h]
    BY <2>1
  <2> DEFINE j == [h EXCEPT ![d] = g[d][h]]
  <2>5. g[d][h] \in X
    <3>1. g[d] \in [[D -> X] -> X]
      OBVIOUS
    <3> QED BY <2>4, <3>1
  <2>6. j \in [D -> X] /\ j[d] = g[d][h] /\ \A e \in E : j[e] = h[e]
    BY <2>5
  <2>7. needs[d] \subseteq E /\ \A e \in E : needs[e] \subseteq E
    BY <2>1, <2>3
  <2> HIDE DEF j
  <2>8. \A e \in E \cup {d} : g[e][j] = g[e][h]
    <3> SUFFICES ASSUME NEW e \in E \cup {d} PROVE g[e][j] = g[e][h]
      OBVIOUS
    <3>1. needs[e] \subseteq E
      BY <2>7
    <3>2. e \in D /\ \A k \in needs[e] : j[k] = h[k]
      BY <2>6, <3>1
    <3>3. \A a, b \in [D -> X] : (\A k \in needs[e] : a[k] = b[k]) => g[e][a] = g[e][b]
      BY <3>2
    <3>4. j \in [D -> X] /\ h \in [D -> X]
      BY <2>4, <2>6
    <3> HIDE DEF j
    <3> QED BY <3>2, <3>3, <3>4
  <2>9. Upto(E \cup {d})
    <3>1. \A e \in E \cup {d} : needs[e] \subseteq E \cup {d}
      BY <2>7
    <3>2. \A e \in E \cup {d} : j[e] = g[e][j]
      BY <2>4, <2>6, <2>8
    <3> QED BY <2>6, <3>1, <3>2
  <2>10. Cardinality(E \cup {d}) = n + 1
    BY <2>1, FS_Subset, FS_AddElement
  <2> HIDE DEF Upto
  <2> QED BY <2>9, <2>10
<1>4. Cardinality(D) \in S
  <2> HIDE DEF S
  <2> QED BY <1>1, <1>2, <1>3, NatInduct
<1>5. PICK E \in SUBSET D : Cardinality(E) = Cardinality(D) /\ Upto(E)
  BY <1>1, <1>4
<1>6. E = D
  BY <1>5, FS_Subset
<1> QED BY <1>5, <1>6
=============================================================================
