--------------------------- MODULE HydrationProofs ---------------------------
(***************************************************************************)
(* Theorems about Hydration, for every request of whatever size.  The      *)
(* inductive invariant is HydrationInv: its parts are proved one after the *)
(* other, each with one step for each action it can be disturbed by.       *)
(***************************************************************************)
EXTENDS Hydration, SequenceLemmas

\* What a request is made of.
LEMMA RequestParts ==
  ASSUME req \in Requests
  PROVE  /\ req \in RequestType
         /\ req.list \in Seq(Files)
         /\ req.generate \in SUBSET Files
         /\ req.bidi \in BOOLEAN
         /\ req.package \in [Files -> Packages]
         /\ req.deps \in [Files -> SUBSET Files]
         /\ req.enums \in [Files -> SUBSET Enums]
         /\ req.top \in [Files -> Seq(Messages)]
         /\ req.nested \in [Messages -> Seq(Messages)]
         /\ req.entries \in [Messages -> Seq(Messages)]
         /\ req.fields \in [Messages -> Seq(Fields)]
         /\ req.exts \in [Files -> Seq(Fields)]
         /\ req.extendee \in [Fields -> Messages]
         /\ req.methods \in [Files -> Seq(Messages \X Messages)]
         /\ req.desc \in [Fields -> Descriptors]
BY RequestsAssumption DEF RequestType

\* The elements of a sequence are those at its positions.
LEMMA ToSetOf ==
  ASSUME NEW X, NEW s \in Seq(X)
  PROVE  /\ Len(s) \in Nat /\ DOMAIN s = 1..Len(s)
         /\ ToSet(s) \subseteq X
         /\ \A i \in 1..Len(s) : s[i] \in ToSet(s)
         /\ \A x \in ToSet(s) : \E i \in 1..Len(s) : s[i] = x
BY DEF ToSet

-----------------------------------------------------------------------------
(* msg.AllMessages: the nesting of messages has an end, so that Below, which   *)
(* is a recursive definition, is what its equation says.                       *)

\* The functions that satisfy the equation of Below on a set of messages that has
\* all that is nested in them.
Unfoldings(D) ==
    {h \in [D -> Seq(Messages)] :
        \A m \in D :
           /\ ToSet(req.nested[m]) \subseteq D
           /\ h[m] = req.nested[m] \o FlattenSeq([i \in DOMAIN req.nested[m] |-> h[req.nested[m][i]]])}

\* A message whose nested ones can be unfolded can be unfolded too.
LEMMA Unfold ==
  ASSUME req \in Requests, NEW D \in SUBSET Messages, Unfoldings(D) # {},
         NEW m \in Messages \ D, ToSet(req.nested[m]) \subseteq D
  PROVE  Unfoldings(D \cup {m}) # {}
<1>1. PICK h \in Unfoldings(D) : TRUE
  OBVIOUS
<1>2. /\ req.nested \in [Messages -> Seq(Messages)]
      /\ \A n \in Messages :
            /\ Len(req.nested[n]) \in Nat /\ DOMAIN req.nested[n] = 1..Len(req.nested[n])
            /\ \A i \in 1..Len(req.nested[n]) : req.nested[n][i] \in ToSet(req.nested[n])
  <2>1. req.nested \in [Messages -> Seq(Messages)]
    BY RequestParts
  <2>2. \A n \in Messages : req.nested[n] \in Seq(Messages)
    BY <2>1
  <2> QED BY <2>1, <2>2, ToSetOf
<1> DEFINE Blocks(n) == [i \in DOMAIN req.nested[n] |-> h[req.nested[n][i]]]
           all       == [n \in D \cup {m} |-> IF n = m THEN req.nested[m] \o FlattenSeq(Blocks(m))
                                              ELSE h[n]]
<1>3. ASSUME NEW n \in D \cup {m}
      PROVE  /\ ToSet(req.nested[n]) \subseteq D
             /\ Blocks(n) = [i \in DOMAIN req.nested[n] |-> all[req.nested[n][i]]]
  <2>1. ToSet(req.nested[n]) \subseteq D
    BY <1>1 DEF Unfoldings
  <2>2. \A i \in DOMAIN req.nested[n] : req.nested[n][i] \in D
    BY <2>1, <1>2
  <2>3. \A i \in DOMAIN req.nested[n] : h[req.nested[n][i]] = all[req.nested[n][i]]
    BY <2>2
  <2> QED BY <2>1, <2>3
<1>4. Blocks(m) \in Seq(Seq(Messages))
  <2>1. \A i \in 1..Len(req.nested[m]) : h[req.nested[m][i]] \in Seq(Messages)
    BY <1>1, <1>2 DEF Unfoldings
  <2>2. Len(req.nested[m]) \in Nat /\ DOMAIN req.nested[m] = 1..Len(req.nested[m])
    BY <1>2
  <2> QED BY <2>1, <2>2
<1>5. FlattenSeq(Blocks(m)) \in Seq(Messages)
  <2> HIDE DEF Blocks
  <2> QED BY <1>4, FlattenType
<1>6. all \in [D \cup {m} -> Seq(Messages)]
  <2> HIDE DEF Blocks
  <2>1. req.nested[m] \o FlattenSeq(Blocks(m)) \in Seq(Messages)
    BY <1>5, <1>2
  <2>2. \A n \in D : h[n] \in Seq(Messages)
    BY <1>1 DEF Unfoldings
  <2> QED BY <2>1, <2>2
<1>7. ASSUME NEW n \in D \cup {m}
      PROVE  all[n] = req.nested[n] \o FlattenSeq([i \in DOMAIN req.nested[n] |-> all[req.nested[n][i]]])
  <2>1. all[n] = req.nested[n] \o FlattenSeq(Blocks(n))
    BY <1>1 DEF Unfoldings
  <2> QED BY <2>1, <1>3
<1>8. all \in Unfoldings(D \cup {m})
  <2> HIDE DEF all, Blocks
  <2> QED BY <1>3, <1>6, <1>7 DEF Unfoldings
<1> QED BY <1>8

\* All messages can be unfolded.
LEMMA UnfoldAll ==
  ASSUME req \in Requests
  PROVE  Unfoldings(Messages) # {}
<1> DEFINE S == {n \in Nat : n <= Cardinality(Messages) =>
                    \E D \in SUBSET Messages : Unfoldings(D) # {} /\ Cardinality(D) = n}
<1>1. IsFiniteSet(Messages) /\ Cardinality(Messages) \in Nat
  BY NestingAssumption, FS_CardinalityType
<1>2. 0 \in S
  <2>1. [m \in {} |-> <<>>] \in Unfoldings({})
    BY DEF Unfoldings
  <2> QED BY <2>1, FS_EmptySet
<1>3. ASSUME NEW n \in Nat, n \in S PROVE n + 1 \in S
  <2> SUFFICES ASSUME n + 1 <= Cardinality(Messages)
               PROVE  \E D \in SUBSET Messages : Unfoldings(D) # {} /\ Cardinality(D) = n + 1
    OBVIOUS
  <2>1. PICK D \in SUBSET Messages : Unfoldings(D) # {} /\ Cardinality(D) = n
    BY <1>1, <1>3
  <2>2. Messages \ D # {}
    BY <1>1, <2>1
  <2>3. PICK m \in Messages \ D : ToSet(req.nested[m]) \cap (Messages \ D) = {}
    BY <2>2, NestingAssumption
  <2>4. ToSet(req.nested[m]) \subseteq D
    BY <2>3, RequestParts, ToSetOf
  <2>5. Unfoldings(D \cup {m}) # {}
    BY <2>1, <2>4, Unfold
  <2>6. Cardinality(D \cup {m}) = n + 1
    BY <1>1, <2>1, FS_Subset, FS_AddElement
  <2> QED BY <2>5, <2>6
<1>4. Cardinality(Messages) \in S
  <2> HIDE DEF S
  <2> QED BY <1>1, <1>2, <1>3, NatInduct
<1>5. PICK D \in SUBSET Messages : Unfoldings(D) # {} /\ Cardinality(D) = Cardinality(Messages)
  BY <1>1, <1>4
<1>6. D = Messages
  BY <1>1, <1>5, FS_Subset
<1> QED BY <1>5, <1>6

\* What is nested below messages are messages.
LEMMA BelowType ==
  ASSUME req \in Requests, NEW ms \in Seq(Messages)
  PROVE  Below(ms) \in Seq(Messages)
<1> DEFINE F(h) == h = [m \in Messages |-> req.nested[m] \o
                          FlattenSeq([i \in DOMAIN req.nested[m] |-> h[req.nested[m][i]]])]
           all  == CHOOSE h : F(h)
<1>1. \E h : F(h)
  <2>1. PICK h \in Unfoldings(Messages) : TRUE
    BY UnfoldAll
  <2>2. F(h)
    BY <2>1 DEF Unfoldings
  <2> QED BY <2>2
<1>2. F(all)
  BY <1>1
<1>3. Below(ms) = FlattenSeq([i \in DOMAIN ms |-> all[ms[i]]])
  BY DEF Below
<1> DEFINE Blocks(n) == [i \in DOMAIN req.nested[n] |-> all[req.nested[n][i]]]
<1>4. \A n \in Messages : all[n] = req.nested[n] \o FlattenSeq(Blocks(n))
  BY <1>2
<1> HIDE DEF all
<1>5. ASSUME NEW n \in Messages,
             \A k \in ToSet(req.nested[n]) : all[k] \in Seq(Messages)
      PROVE  all[n] \in Seq(Messages)
  <2>1. req.nested[n] \in Seq(Messages)
    BY RequestParts
  <2>2. Blocks(n) \in Seq(Seq(Messages))
    <3>1. \A i \in 1..Len(req.nested[n]) : all[req.nested[n][i]] \in Seq(Messages)
      BY <1>5, <2>1, ToSetOf
    <3>2. Len(req.nested[n]) \in Nat /\ DOMAIN req.nested[n] = 1..Len(req.nested[n])
      BY <2>1
    <3> QED BY <3>1, <3>2
  <2> HIDE DEF Blocks
  <2>3. FlattenSeq(Blocks(n)) \in Seq(Messages)
    BY <2>2, FlattenType
  <2>4. all[n] = req.nested[n] \o FlattenSeq(Blocks(n))
    BY <1>4
  <2> QED BY <2>1, <2>3, <2>4
<1> DEFINE Bad == {n \in Messages : all[n] \notin Seq(Messages)}
<1>6. Bad = {}
  <2> SUFFICES ASSUME Bad # {} PROVE FALSE
    OBVIOUS
  <2>1. PICK n \in Bad : ToSet(req.nested[n]) \cap Bad = {}
    BY NestingAssumption
  <2>2. ToSet(req.nested[n]) \subseteq Messages
    BY RequestParts, ToSetOf
  <2> QED BY <1>5, <2>1, <2>2
<1>7. [i \in DOMAIN ms |-> all[ms[i]]] \in Seq(Seq(Messages))
  <2>1. Len(ms) \in Nat /\ DOMAIN ms = 1..Len(ms) /\ \A i \in 1..Len(ms) : all[ms[i]] \in Seq(Messages)
    BY <1>6
  <2> QED BY <2>1
<1> QED BY <1>3, <1>7, FlattenType

-----------------------------------------------------------------------------
(* What the sequences that hydrateFile goes through are made of.               *)

\* All messages of a file are messages.
LEMMA MessagesType ==
  ASSUME req \in Requests, NEW f \in Files
  PROVE  AllMessages(f) \in Seq(Messages)
<1>1. req.top[f] \in Seq(Messages)
  BY RequestParts
<1> QED BY <1>1, BelowType DEF AllMessages

\* The fields of messages, one message after the other.
LEMMA FieldsOfType ==
  ASSUME req \in Requests, NEW ms \in Seq(Messages)
  PROVE  /\ FieldsOf(ms) \in Seq(Fields)
         /\ \A m \in ToSet(ms) : ToSet(req.fields[m]) \subseteq ToSet(FieldsOf(ms))
         /\ \A x \in ToSet(FieldsOf(ms)) : \E m \in ToSet(ms) : x \in ToSet(req.fields[m])
<1> DEFINE blocks == [i \in DOMAIN ms |-> req.fields[ms[i]]]
<1>1. blocks \in Seq(Seq(Fields))
  <2>1. \A i \in 1..Len(ms) : req.fields[ms[i]] \in Seq(Fields)
    BY RequestParts
  <2>2. Len(ms) \in Nat /\ DOMAIN ms = 1..Len(ms)
    OBVIOUS
  <2> QED BY <2>1, <2>2
<1>2. DOMAIN blocks = DOMAIN ms /\ \A i \in DOMAIN ms : blocks[i] = req.fields[ms[i]]
  OBVIOUS
<1>3. FieldsOf(ms) = FlattenSeq(blocks)
  BY DEF FieldsOf
<1> HIDE DEF blocks
<1>4. ToSet(FieldsOf(ms)) = UNION {ToSet(blocks[i]) : i \in DOMAIN ms}
  BY <1>1, <1>2, <1>3, FlattenElements
<1>5. FieldsOf(ms) \in Seq(Fields)
  BY <1>1, <1>3, FlattenType
<1> QED BY <1>2, <1>4, <1>5, ToSetOf

\* The block of fields of one message: those of its map entries and then its own.
Block(m) == FieldsOf(req.entries[m]) \o req.fields[m]

Blocks(f) == [i \in DOMAIN AllMessages(f) |-> Block(AllMessages(f)[i])]

\* The fields of a block are fields.
LEMMA BlockType ==
  ASSUME req \in Requests, NEW m \in Messages
  PROVE  /\ Block(m) \in Seq(Fields)
         /\ FieldsOf(req.entries[m]) \in Seq(Fields) /\ req.fields[m] \in Seq(Fields)
         /\ ToSet(req.entries[m]) \subseteq Messages
<1>1. req.entries[m] \in Seq(Messages) /\ req.fields[m] \in Seq(Fields)
  BY RequestParts
<1>2. FieldsOf(req.entries[m]) \in Seq(Fields) /\ ToSet(req.entries[m]) \subseteq Messages
  BY <1>1, FieldsOfType, ToSetOf
<1> QED BY <1>1, <1>2 DEF Block

\* The fields of a file in order are the blocks of its messages.
LEMMA FieldsType ==
  ASSUME req \in Requests, NEW f \in Files
  PROVE  /\ FieldsInOrder(f) \in Seq(Fields)
         /\ Blocks(f) \in Seq(Seq(Fields))
         /\ FieldsInOrder(f) = FlattenSeq(Blocks(f))
<1> DEFINE ms == AllMessages(f)
<1>1. ms \in Seq(Messages)
  BY MessagesType
<1> HIDE DEF ms
<1>2. \A i \in 1..Len(ms) : Block(ms[i]) \in Seq(Fields)
  BY <1>1, BlockType
<1>3. Len(ms) \in Nat /\ DOMAIN ms = 1..Len(ms)
  BY <1>1
<1>4. Blocks(f) \in Seq(Seq(Fields))
  BY <1>2, <1>3 DEF Blocks, ms
<1>5. FieldsInOrder(f) = FlattenSeq(Blocks(f))
  BY DEF FieldsInOrder, Blocks, Block
<1> QED BY <1>4, <1>5, FlattenType

\* All fields of a file's messages are gone through.
LEMMA OwnFields ==
  ASSUME req \in Requests, NEW f \in Files, NEW m \in ToSet(AllMessages(f))
  PROVE  ToSet(req.fields[m]) \subseteq AllFieldsOf(f)
<1>1. AllMessages(f) \in Seq(Messages)
  BY MessagesType
<1>2. PICK i \in DOMAIN AllMessages(f) : AllMessages(f)[i] = m
  BY <1>1, ToSetOf
<1>3. m \in Messages
  BY <1>1, ToSetOf
<1>4. AllFieldsOf(f) = UNION {ToSet(Blocks(f)[j]) : j \in DOMAIN Blocks(f)}
  BY FieldsType, FlattenElements DEF AllFieldsOf
<1>5. i \in DOMAIN Blocks(f) /\ Blocks(f)[i] = Block(m)
  BY <1>2 DEF Blocks
<1>6. ToSet(Block(m)) = ToSet(FieldsOf(req.entries[m])) \cup ToSet(req.fields[m])
  BY <1>3, BlockType, ToSetConcat DEF Block
<1> QED BY <1>4, <1>5, <1>6

\* What a file declares are messages and enums.
LEMMA DeclaredType ==
  ASSUME req \in Requests, NEW f \in Files
  PROVE  DeclaredIn(f) \subseteq Declared
<1>1. req.enums[f] \subseteq Enums
  BY RequestParts
<1>2. ToSet(AllMessages(f)) \subseteq Messages
  BY MessagesType, ToSetOf
<1>3. \A m \in Messages : ToSet(req.entries[m]) \subseteq Messages
  BY BlockType
<1> QED BY <1>1, <1>2, <1>3 DEF DeclaredIn, Declared

\* A map's key and value are fields that are neither repeated nor maps.
LEMMA EntryParts ==
  ASSUME req \in Requests, NEW x \in Fields, IsMapField(x), NEW v \in {Key(x), Value(x)}
  PROVE  /\ v \in Fields
         /\ ~req.desc[v].rep
         /\ ~IsMapField(v)
         /\ req.desc[x].ref \in Messages
         /\ v \in ToSet(req.fields[req.desc[x].ref])
         /\ req.desc[Key(x)].type = "scalar"
<1>1. PICK m \in Messages : req.desc[x].ref \in ToSet(req.entries[m])
  BY DEF IsMapField, IsMapEntry, Entries
<1> DEFINE e == req.desc[x].ref
<1>2. e \in Messages
  BY <1>1, BlockType
<1>3. /\ Len(req.fields[e]) = 2 /\ req.desc[req.fields[e][1]].type = "scalar"
      /\ \A y \in ToSet(req.fields[e]) : ~req.desc[y].rep
  BY <1>1, MapsAssumption
<1>4. req.fields[e] \in Seq(Fields)
  BY <1>2, BlockType
<1>5. 1 \in 1..Len(req.fields[e]) /\ 2 \in 1..Len(req.fields[e])
  BY <1>3
<1>6. v \in ToSet(req.fields[e])
  BY <1>4, <1>5, ToSetOf DEF Value, Key
<1>7. v \in Fields
  BY <1>4, <1>6, ToSetOf
<1> QED BY <1>2, <1>3, <1>6, <1>7 DEF IsMapField, Key

\* hydrateFieldType, the point of the order of hydrateFile: the key and the value
\* of a map are before the map, if the entry is in the message of the map.
LEMMA EntryComesFirst ==
  ASSUME req \in Requests, NEW f \in Files,
         NEW k \in 1..Len(FieldsInOrder(f)),
         IsMapField(FieldsInOrder(f)[k]),
         NEW v \in {Key(FieldsInOrder(f)[k]), Value(FieldsInOrder(f)[k])},
         \A m \in ToSet(AllMessages(f)) : \A y \in ToSet(req.fields[m]) :
            IsMapField(y) => req.desc[y].ref \in ToSet(req.entries[m])
  PROVE  \E j \in 1..(k - 1) : FieldsInOrder(f)[j] = v
<1> DEFINE F == FieldsInOrder(f)
           x == F[k]
<1>1. F \in Seq(Fields) /\ Blocks(f) \in Seq(Seq(Fields)) /\ F = FlattenSeq(Blocks(f))
  BY FieldsType
<1>2. AllMessages(f) \in Seq(Messages) /\ ToSet(AllMessages(f)) \subseteq Messages
  BY MessagesType, ToSetOf
<1>3. k \in DOMAIN F
  BY <1>1
<1>4. PICK i \in DOMAIN Blocks(f), o \in Nat : IsBlock(Blocks(f), F, k, i, o)
  BY <1>1, <1>3, FlattenBlock
<1> DEFINE m == AllMessages(f)[i]
           e == FieldsOf(req.entries[m])
           own == req.fields[m]
<1>5. m \in ToSet(AllMessages(f)) /\ m \in Messages /\ Blocks(f)[i] = Block(m)
  BY <1>2, ToSetOf DEF Blocks
<1> HIDE DEF F, m
<1>6. e \in Seq(Fields) /\ own \in Seq(Fields) /\ Block(m) = e \o own
  BY <1>5, BlockType DEF Block
<1> HIDE DEF e, own
<1>7. /\ Len(e) \in Nat /\ Len(own) \in Nat /\ Len(Block(m)) = Len(e) + Len(own)
      /\ \A j \in 1..Len(e) : Block(m)[j] = e[j]
      /\ \A j \in 1..Len(own) : Block(m)[Len(e) + j] = own[j]
  BY <1>6, ConcatProperties
<1>8. /\ k \in (o + 1)..(o + Len(e) + Len(own))
      /\ \A j \in 1..(Len(e) + Len(own)) : F[o + j] = Block(m)[j]
  BY <1>4, <1>5, <1>7 DEF IsBlock
<1>9. x = Block(m)[k - o] /\ k - o \in 1..(Len(e) + Len(own))
  <2>1. k - o \in 1..(Len(e) + Len(own)) /\ o + (k - o) = k
    BY <1>7, <1>8
  <2> QED BY <1>8, <2>1
<1>10. x \in Fields /\ IsMapField(x)
  BY <1>1, <1>3 DEF F
<1>11. k - o > Len(e)
  <2> SUFFICES ASSUME k - o \in 1..Len(e) PROVE FALSE
    BY <1>7, <1>9
  <2>1. x \in ToSet(e)
    BY <1>6, <1>7, <1>9, ToSetOf
  <2>2. req.entries[m] \in Seq(Messages)
    BY <1>5, RequestParts
  <2>3. PICK n \in ToSet(req.entries[m]) : x \in ToSet(req.fields[n])
    BY <2>1, <2>2, FieldsOfType DEF e
  <2>4. ~req.desc[x].rep
    BY <1>5, <2>3, MapsAssumption
  <2> QED BY <1>10, <2>4 DEF IsMapField
<1>12. x \in ToSet(own)
  <2>1. (k - o) - Len(e) \in 1..Len(own) /\ Len(e) + ((k - o) - Len(e)) = k - o
    BY <1>7, <1>9, <1>11
  <2>2. x = own[(k - o) - Len(e)]
    BY <1>7, <1>9, <2>1
  <2> QED BY <1>6, <2>1, <2>2, ToSetOf
<1>13. req.desc[x].ref \in ToSet(req.entries[m])
  BY <1>5, <1>10, <1>12 DEF own, F
<1>14. v \in ToSet(e)
  <2>1. req.entries[m] \in Seq(Messages)
    BY <1>5, RequestParts
  <2>2. v \in ToSet(req.fields[req.desc[x].ref])
    BY <1>10, EntryParts DEF F
  <2> QED BY <1>13, <2>1, <2>2, FieldsOfType DEF e
<1>15. PICK j \in 1..Len(e) : e[j] = v
  BY <1>6, <1>14, ToSetOf
<1>16. o + j \in 1..(k - 1)
  BY <1>7, <1>9, <1>11
<1>17. F[o + j] = v
  BY <1>7, <1>8, <1>15
<1> QED BY <1>16, <1>17 DEF F

\* addFile: a package with one more file.
LEMMA InPackageNext ==
  ASSUME req \in Requests, NEW p \in Packages, NEW n \in Nat, n + 1 <= Len(req.list)
  PROVE  /\ InPackage(p, n) \in Seq(Files)
         /\ InPackage(p, n + 1) = IF req.package[req.list[n + 1]] = p
                                  THEN Append(InPackage(p, n), req.list[n + 1])
                                  ELSE InPackage(p, n)
<1> DEFINE g == req.list
           one(i) == IF req.package[g[i]] = p THEN <<g[i]>> ELSE <<>>
           ss == [i \in 1..n |-> one(i)]
           tt == [i \in 1..(n + 1) |-> one(i)]
<1>1. \A i \in 1..(n + 1) : g[i] \in Files
  BY RequestParts
<1>2. \A i \in 1..(n + 1) : one(i) \in Seq(Files)
  BY <1>1
<1>3. ss \in Seq(Seq(Files)) /\ tt \in Seq(Seq(Files)) /\ one(n + 1) \in Seq(Files)
  <2> HIDE DEF one
  <2> QED BY <1>2
<1>4. tt = Append(ss, one(n + 1))
  <2> HIDE DEF one
  <2> QED BY <1>2
<1>5. InPackage(p, n) = FlattenSeq(ss) /\ InPackage(p, n + 1) = FlattenSeq(tt)
  BY DEF InPackage
<1> HIDE DEF ss, tt
<1>6. FlattenSeq(ss) \in Seq(Files)
  BY <1>3, FlattenType
<1>7. FlattenSeq(tt) = FlattenSeq(ss) \o one(n + 1)
  <2> HIDE DEF one
  <2> QED BY <1>3, <1>4, FlattenAppend
<1>8. g[n + 1] \in Files
  BY <1>1
<1>9. \A s \in Seq(Files), f \in Files : s \o <<f>> = Append(s, f) /\ s \o <<>> = s
  OBVIOUS
<1>10. CASE req.package[g[n + 1]] = p
  BY <1>5, <1>6, <1>7, <1>8, <1>9, <1>10
<1>11. CASE req.package[g[n + 1]] # p
  BY <1>5, <1>6, <1>7, <1>8, <1>9, <1>11
<1> QED BY <1>10, <1>11

\* A package before any file.
LEMMA InPackageNone ==
  ASSUME NEW p
  PROVE  InPackage(p, 0) = <<>>
BY FlattenEmpty DEF InPackage

-----------------------------------------------------------------------------
(* The request never changes, and so what is defined of it alone does not      *)
(* either.                                                                     *)

\* No step changes the request.
LEMMA RequestStays ==
  ASSUME [Next]_vars
  PROVE  req' = req
BY DEF Next, vars, DeclareFile, ImportUnknown, HydrateMethod, EndMethods, HydrateField,
       EndFile, EndFiles, HydrateExtension, EndExtensions, AssignDependents, Finish, Fail

\* What is defined of the request alone.
LEMMA SameRequest ==
  ASSUME req' = req
  PROVE  /\ \A f : AllMessages(f)' = AllMessages(f)
         /\ \A f : FieldsInOrder(f)' = FieldsInOrder(f)
         /\ \A f : AllFieldsOf(f)' = AllFieldsOf(f)
         /\ \A i : UpTo(i)' = UpTo(i)
         /\ \A i : VisibleAt(i)' = VisibleAt(i)
         /\ \A i : ExtensionsUpTo(i)' = ExtensionsUpTo(i)
         /\ \A p, n : InPackage(p, n)' = InPackage(p, n)
         /\ \A x : IsMapField(x)' = IsMapField(x)
         /\ \A x : RefOf(x)' = RefOf(x) /\ Key(x)' = Key(x) /\ Value(x)' = Value(x)
         /\ \A m, d : Refers(m, d)' = Refers(m, d)
         /\ Listed' = Listed
         /\ WellFormed' = WellFormed
<1>1. \A f : AllMessages(f)' = AllMessages(f)
  BY DEF AllMessages, Below
<1>2. \A f : FieldsInOrder(f)' = FieldsInOrder(f)
  BY <1>1 DEF FieldsInOrder, FieldsOf
<1>3. \A f : AllFieldsOf(f)' = AllFieldsOf(f)
  BY <1>2 DEF AllFieldsOf
<1>4. \A i : UpTo(i)' = UpTo(i)
  BY DEF UpTo
<1>5. \A f : DeclaredIn(f)' = DeclaredIn(f)
  BY <1>1 DEF DeclaredIn
<1>6. \A i : VisibleAt(i)' = VisibleAt(i)
  BY <1>4, <1>5 DEF VisibleAt
<1>7. \A i : ExtensionsUpTo(i)' = ExtensionsUpTo(i)
  BY <1>4 DEF ExtensionsUpTo
<1>8. \A p, n : InPackage(p, n)' = InPackage(p, n)
  BY DEF InPackage
<1>9. \A x : IsMapField(x)' = IsMapField(x)
  BY DEF IsMapField, IsMapEntry, Entries
<1>10. \A x : RefOf(x)' = RefOf(x) /\ Key(x)' = Key(x) /\ Value(x)' = Value(x)
  BY <1>9 DEF RefOf, Key, Value
<1>11. \A m, d : Refers(m, d)' = Refers(m, d)
  BY <1>10 DEF Refers
<1>12. Listed' = Listed
  BY DEF Listed
<1>13. WellFormed' = WellFormed
  BY <1>1, <1>3, <1>4, <1>6, <1>9 DEF WellFormed
<1> QED BY <1>1, <1>2, <1>3, <1>4, <1>6, <1>7, <1>8, <1>9, <1>10, <1>11, <1>12, <1>13

\* Where hydration is.
LEMMA Where ==
  ASSUME TypeInv
  PROVE  /\ Len(req.list) \in Nat /\ at \in Nat /\ at >= 1
         /\ phase \in {"methods", "types"} => at \in 1..Len(req.list)
         /\ at <= Len(req.list) => ThisFile \in Files
         /\ \A i \in 1..Len(req.list) : req.list[i] \in Files
<1>1. req.list \in Seq(Files)
  BY RequestParts DEF TypeInv
<1> QED BY <1>1 DEF TypeInv, TypeOK, ThisFile

\* MapsAssumption: an extension is no map.
LEMMA ExtensionsAreNoMaps ==
  ASSUME TypeInv, FilesDeclared, Live, NEW x \in ToSet(pending)
  PROVE  /\ \E i \in 1..Through : x \in ToSet(req.exts[req.list[i]])
         /\ x \in Fields
         /\ ~IsMapField(x)
<1>1. PICK i \in 1..Through : x \in ToSet(req.exts[req.list[i]])
  BY DEF FilesDeclared, ExtensionsUpTo, UpTo
<1>2. Len(req.list) \in Nat /\ at \in 1..(Len(req.list) + 1)
      /\ (phase \in {"methods", "types"} => at <= Len(req.list))
  BY Where DEF TypeInv, TypeOK
<1>3. i \in 1..Len(req.list)
  BY <1>1, <1>2 DEF Through
<1>4. req.list[i] \in Files
  BY <1>3, Where
<1>5. x \in Fields
  BY <1>1, <1>4, RequestParts, ToSetOf DEF TypeInv
<1>6. req.desc[x].rep => \A m \in Messages : req.desc[x].ref \notin ToSet(req.entries[m])
  BY <1>1, <1>4, MapsAssumption DEF TypeInv
<1> QED BY <1>1, <1>5, <1>6 DEF IsMapField, IsMapEntry, Entries

-----------------------------------------------------------------------------
(* The types of the state.                                                     *)

\* The type a field is given is one.
LEMMA FieldTypeType ==
  ASSUME TypeInv, NEW x \in Fields, NEW tied \in {x, Embedded}, Resolves(x),
         IsMapField(x) => EntryHasTypes(x)
  PROVE  FieldType(x, tied) \in Types
<1>1. req.desc[x] \in Descriptors
  BY RequestParts DEF TypeInv
<1>2. req.desc[x].ref \in Refs /\ Elem(req.desc[x]) \in {"scalar", "enum", "embed"}
  BY <1>1 DEF Descriptors, Declared, Elem, Refs
<1>3. ElemOf(req.desc[x]) \in Elements /\ NoElem \in Elements
  BY <1>2 DEF ElemOf, NoElem, Elements, Refs
<1>4. CASE IsMapField(x)
  <2>1. ASSUME NEW v \in {Key(x), Value(x)} PROVE ToElem(typ[v]) \in Elements
    <3>1. v \in Fields
      BY <1>4, EntryParts DEF TypeInv
    <3>2. HasElem(typ[v])
      BY <1>4 DEF EntryHasTypes
    <3>3. typ[v].ref \in Refs
      BY <3>1 DEF TypeInv, TypeOK, Types
    <3> QED BY <3>2, <3>3 DEF HasElem, ToElem, Elements
  <2>2. ToElem(typ[Key(x)]) \in Elements /\ ToElem(typ[Value(x)]) \in Elements
    BY <2>1
  <2> QED BY <1>4, <2>2 DEF FieldType, List, Types, Refs
<1>5. CASE ~IsMapField(x)
  BY <1>2, <1>3, <1>5 DEF FieldType, List, Single, Types, Refs
<1> QED BY <1>4, <1>5

\* At the start everything is of its type.
LEMMA TypeInit ==
  ASSUME Init
  PROVE  TypeInv
<1>1. req \in Requests
  BY DEF Init
<1>2. req \in RequestType /\ req.list \in Seq(Files) /\ req.generate \in SUBSET Files
  BY <1>1, RequestParts
<1>3. NoType \in Types
  BY DEF NoType, NoElem, Types, Elements, Refs
<1>4. inOut \in [DOMAIN req.list -> Seq(Messages \X Messages)]
  BY DEF Init
<1>5. TypeOK
  BY <1>2, <1>3, <1>4 DEF Init, TypeOK, Phases
<1> QED BY <1>1, <1>5 DEF Init, TypeInv

\* What a step that fails leaves.
LEMMA TypeFail ==
  ASSUME TypeInv, Fail
  PROVE  TypeInv'
BY DEF TypeInv, TypeOK, Fail, Phases, files, edges

\* Each step leaves everything of its type.
LEMMA TypeStep ==
  ASSUME TypeInv, FilesDeclared, ExtensionsInTurn, [Next]_vars
  PROVE  TypeInv'
<1> USE DEF files, edges, control
<1>0. req' = req
  BY RequestStays
<1>1. CASE DeclareFile
  <2>1. ThisFile \in Files /\ DeclaredIn(ThisFile) \subseteq Declared
    BY <1>1, Where, DeclaredType DEF DeclareFile, TypeInv
  <2>2. req.exts[ThisFile] \in Seq(Fields) /\ req.methods[ThisFile] \in Seq(Messages \X Messages)
    BY <2>1, RequestParts DEF TypeInv
  <2>3. known' \subseteq Files \cup Declared
    BY <1>1, <2>1 DEF DeclareFile, TypeInv, TypeOK
  <2>4. targets' \in [req.generate -> Files \cup {Nobody}]
    BY <1>1, <2>1 DEF DeclareFile, TargetsWith, TypeInv, TypeOK
  <2>5. importedBy' \in [Files -> SUBSET Files]
    BY <1>1, <2>1 DEF DeclareFile, TypeInv, TypeOK
  <2>6. pending' \in Seq(Fields)
    BY <1>1, <2>2 DEF DeclareFile, TypeInv, TypeOK
  <2>7. todo' \in Seq(Messages \X Messages) /\ phase' = "methods" /\ at <= Len(req.list)
    BY <1>1, <2>2 DEF DeclareFile
  <2>8. TypeOK'
    BY <1>0, <1>1, <2>3, <2>4, <2>5, <2>6, <2>7 DEF DeclareFile, TypeInv, TypeOK, Phases
  <2> QED BY <1>0, <1>1, <2>7, <2>8 DEF DeclareFile, TypeInv
<1>2. CASE ImportUnknown
  BY <1>2, TypeFail DEF ImportUnknown
<1>3. CASE HydrateMethod
  <2>1. CASE Fail
    BY <2>1, TypeFail
  <2>2. CASE ~Fail
    <3>1. todo \in Seq(Messages \X Messages) /\ todo # <<>> /\ todo' = Tail(todo) /\ phase = "methods"
          /\ inOut' = [inOut EXCEPT ![at] = Append(@, Head(todo))]
          /\ UNCHANGED <<req, at, phase, typ, files, edges>>
      BY <1>3, <2>2 DEF HydrateMethod, TypeInv
    <3>2. todo' \in Seq(Messages \X Messages) /\ Head(todo) \in Messages \X Messages
      BY <3>1, HeadTailProperties
    <3>3. inOut' \in [DOMAIN req.list -> Seq(Messages \X Messages)]
      BY <3>1, <3>2 DEF TypeInv, TypeOK
    <3>4. TypeOK'
      BY <3>1, <3>2, <3>3 DEF TypeInv, TypeOK
    <3> QED BY <3>1, <3>2, <3>4 DEF TypeInv
  <2> QED BY <2>1, <2>2
<1>4. CASE EndMethods
  <2>1. ThisFile \in Files /\ at <= Len(req.list)
    BY <1>4, Where DEF EndMethods
  <2>2. FieldsInOrder(ThisFile) \in Seq(Fields)
    BY <2>1, FieldsType DEF TypeInv
  <2>3. todo' \in Seq(Fields) /\ phase' = "types"
        /\ UNCHANGED <<req, at, inOut, typ, files, edges>>
    BY <1>4, <2>2 DEF EndMethods
  <2>4. TypeOK'
    BY <2>3 DEF TypeInv, TypeOK, Phases
  <2> QED BY <2>1, <2>3, <2>4 DEF TypeInv
<1>5. CASE HydrateField
  <2> DEFINE x == Head(todo)
  <2>1. phase = "types" /\ todo \in Seq(Fields) /\ todo # <<>> /\ at <= Len(req.list)
    BY <1>5 DEF HydrateField, TypeInv
  <2>2. x \in Fields /\ Tail(todo) \in Seq(Fields)
    BY <2>1, HeadTailProperties
  <2> HIDE DEF x
  <2>3. \/ Fail
        \/ phase' = "panicked" /\ UNCHANGED <<req, at, todo, inOut, typ, files, edges>>
        \/ /\ Resolves(x) /\ (IsMapField(x) => EntryHasTypes(x))
           /\ typ' = [typ EXCEPT ![x] = FieldType(x, x)] /\ todo' = Tail(todo)
           /\ UNCHANGED <<req, at, phase, inOut, files, edges>>
    BY <1>5, <2>1 DEF HydrateField, x
  <2>4. CASE Fail
    BY <2>4, TypeFail
  <2>5. CASE phase' = "panicked" /\ UNCHANGED <<req, at, todo, inOut, typ, files, edges>>
    BY <2>1, <2>5 DEF TypeInv, TypeOK, Phases
  <2>6. CASE /\ Resolves(x) /\ (IsMapField(x) => EntryHasTypes(x))
             /\ typ' = [typ EXCEPT ![x] = FieldType(x, x)] /\ todo' = Tail(todo)
             /\ UNCHANGED <<req, at, phase, inOut, files, edges>>
    <3>1. FieldType(x, x) \in Types
      BY <2>2, <2>6, FieldTypeType
    <3>2. typ' \in [Fields -> Types]
      BY <2>2, <2>6, <3>1 DEF TypeInv, TypeOK
    <3>3. TypeOK'
      BY <2>2, <2>6, <3>2 DEF TypeInv, TypeOK
    <3> QED BY <2>1, <2>2, <2>6, <3>3 DEF TypeInv
  <2> QED BY <2>3, <2>4, <2>5, <2>6
<1>6. CASE EndFile
  <2>1. ThisFile \in Files /\ at \in 1..Len(req.list)
    BY <1>6, Where DEF EndFile
  <2>2. packages' \in [Packages -> Seq(Files)]
    <3>1. packages \in [Packages -> Seq(Files)] /\ req.package[ThisFile] \in Packages
      BY <2>1, RequestParts DEF TypeInv, TypeOK
    <3>2. Append(packages[req.package[ThisFile]], ThisFile) \in Seq(Files)
      BY <2>1, <3>1
    <3>3. packages' = [packages EXCEPT ![req.package[ThisFile]]
                         = Append(packages[req.package[ThisFile]], ThisFile)]
      BY <1>6 DEF EndFile
    <3> QED BY <3>1, <3>2, <3>3
  <2>3. at' = at + 1 /\ phase' = "file" /\ todo' = <<>>
        /\ UNCHANGED <<req, todo, known, targets, importedBy, pending, inOut, typ, edges>>
    BY <1>6 DEF EndFile
  <2>4. TypeOK'
    BY <1>0, <2>1, <2>2, <2>3 DEF TypeInv, TypeOK, Phases
  <2> QED BY <1>0, <2>3, <2>4 DEF TypeInv
<1>7. CASE EndFiles
  <2>1. at = Len(req.list) + 1
    <3>1. at \in 1..(Len(req.list) + 1)
      BY DEF TypeInv, TypeOK
    <3>2. at > Len(req.list)
      BY <1>7 DEF EndFiles
    <3> QED BY <3>1, <3>2, Where
  <2>2. todo' \in Seq(Fields) /\ phase' = "extensions" /\ UNCHANGED <<req, at, inOut, typ, files, edges>>
    BY <1>7 DEF EndFiles, TypeInv, TypeOK
  <2>3. TypeOK'
    BY <2>2 DEF TypeInv, TypeOK, Phases
  <2> QED BY <2>1, <2>2, <2>3 DEF TypeInv
<1>8. CASE HydrateExtension
  <2> DEFINE x == Head(todo)
  <2>1. phase = "extensions" /\ todo \in Seq(Fields) /\ todo # <<>>
    BY <1>8 DEF HydrateExtension, TypeInv
  <2>2. x \in Fields /\ Tail(todo) \in Seq(Fields)
    BY <2>1, HeadTailProperties
  <2> HIDE DEF x
  <2>3. CASE Fail
    BY <2>3, TypeFail
  <2>4. CASE ~Fail
    <3>1. /\ Resolves(x)
          /\ typ' = [typ EXCEPT ![x] = FieldType(x, Embedded)] /\ todo' = Tail(todo)
          /\ applied' = [applied EXCEPT ![req.extendee[x]] = @ \cup {x}]
          /\ UNCHANGED <<req, at, phase, inOut, usedBy, uses, files>>
      BY <1>8, <2>4 DEF HydrateExtension, x
    <3>2. ~IsMapField(x)
      <4>1. x \in ToSet(todo)
        BY <2>1, ToSetOf, HeadTailProperties DEF x
      <4>2. x \in ToSet(pending) /\ Live
        BY <2>1, <4>1 DEF ExtensionsInTurn, Live
      <4> QED BY <4>2, ExtensionsAreNoMaps
    <3>3. FieldType(x, Embedded) \in Types
      BY <2>2, <3>1, <3>2, FieldTypeType
    <3>4. typ' \in [Fields -> Types]
      BY <2>2, <3>1, <3>3 DEF TypeInv, TypeOK
    <3>5. applied' \in [Messages -> SUBSET Fields]
      BY <2>2, <3>1 DEF TypeInv, TypeOK
    <3>6. TypeOK'
      BY <2>2, <3>1, <3>4, <3>5 DEF TypeInv, TypeOK
    <3> QED BY <2>1, <2>2, <3>1, <3>6 DEF TypeInv
  <2> QED BY <2>3, <2>4
<1>9. CASE EndExtensions
  <2> DEFINE ss == [i \in DOMAIN req.list |-> AllMessages(req.list[i])]
  <2>1. ss \in Seq(Seq(Messages))
    <3>1. \A i \in 1..Len(req.list) : AllMessages(req.list[i]) \in Seq(Messages)
      BY Where, MessagesType DEF TypeInv
    <3>2. req.list \in Seq(Files)
      BY RequestParts DEF TypeInv
    <3>3. Len(req.list) \in Nat /\ DOMAIN req.list = 1..Len(req.list)
      BY <3>2
    <3> QED BY <3>1, <3>3
  <2>2. FlattenSeq(ss) \in Seq(Messages)
    BY <2>1, FlattenType
  <2>3. /\ phase = "extensions" /\ phase' \in {"dependents", "done"}
        /\ todo' \in Seq(Messages)
        /\ UNCHANGED <<req, at, inOut, typ, files, edges>>
    BY <1>9, <2>2 DEF EndExtensions
  <2>4. TypeOK'
    BY <2>3 DEF TypeInv, TypeOK, Phases
  <2> QED BY <2>3, <2>4 DEF TypeInv
<1>10. CASE AssignDependents
  <2>1. phase = "dependents" /\ todo \in Seq(Messages) /\ todo # <<>>
    BY <1>10 DEF AssignDependents, TypeInv
  <2>2. Head(todo) \in Messages /\ Tail(todo) \in Seq(Messages)
    BY <2>1, HeadTailProperties
  <2>3. /\ usedBy' \in [Declared -> SUBSET Messages]
        /\ uses' \in [Messages -> SUBSET Messages]
        /\ todo' = Tail(todo)
        /\ UNCHANGED <<req, at, phase, inOut, typ, applied, files>>
    <3>1. \A t : DependsOn(t) \subseteq Messages
      BY DEF DependsOn
    <3> QED BY <1>10, <2>2, <3>1 DEF AssignDependents, TypeInv, TypeOK
  <2>4. TypeOK'
    BY <2>2, <2>3 DEF TypeInv, TypeOK
  <2> QED BY <2>1, <2>2, <2>3, <2>4 DEF TypeInv
<1>11. CASE Finish
  BY <1>11 DEF Finish, TypeInv, TypeOK, Phases
<1>12. CASE UNCHANGED vars
  BY <1>12 DEF vars, TypeInv, TypeOK
<1> QED BY <1>1, <1>2, <1>3, <1>4, <1>5, <1>6, <1>7, <1>8, <1>9, <1>10, <1>11, <1>12 DEF Next

-----------------------------------------------------------------------------
(* What is known of the files that are declared.                               *)

\* One more file.
LEMMA UpToNext ==
  ASSUME NEW i \in Nat
  PROVE  /\ UpTo(i + 1) = UpTo(i) \cup {req.list[i + 1]}
         /\ VisibleAt(i + 1) = VisibleAt(i) \cup DeclaredIn(req.list[i + 1])
         /\ ExtensionsUpTo(i + 1) = ExtensionsUpTo(i) \cup ToSet(req.exts[req.list[i + 1]])
<1>1. UpTo(i + 1) = UpTo(i) \cup {req.list[i + 1]}
  BY DEF UpTo
<1> QED BY <1>1 DEF VisibleAt, ExtensionsUpTo

\* Before the first file.
LEMMA UpToNone ==
  UpTo(0) = {} /\ VisibleAt(0) = {} /\ ExtensionsUpTo(0) = {}
<1>1. UpTo(0) = {}
  BY DEF UpTo
<1> QED BY <1>1 DEF VisibleAt, ExtensionsUpTo

\* All the files that are declared are in the request.
LEMMA UpToListed ==
  ASSUME TypeInv
  PROVE  /\ Listed = UpTo(Len(req.list))
         /\ Listed \subseteq Files
         /\ \A i \in 1..Len(req.list) : UpTo(i) \subseteq Listed
<1>1. req.list \in Seq(Files)
  BY RequestParts DEF TypeInv
<1> QED BY <1>1 DEF Listed, UpTo, ToSet

\* At the start no file is declared.
LEMMA FilesInit ==
  ASSUME Init
  PROVE  FilesDeclared
<1>1. req \in Requests /\ at = 1 /\ Through = 0 /\ at - 1 = 0
  BY DEF Init, Through
<1>2. ToSet(pending) = {} /\ known = {} /\ 1..0 = {}
  BY DEF Init, ToSet
<1>3. \A p \in Packages : packages[p] = InPackage(p, 0)
  BY InPackageNone DEF Init
<1>4. \A f \in Files : importedBy[f] = {}
  BY DEF Init
<1>5. \A f \in req.generate : targets[f] = Nobody
  BY DEF Init
<1> QED BY <1>1, <1>2, <1>3, <1>4, <1>5, UpToNone DEF FilesDeclared

\* A step that declares no file and ends none.
LEMMA FilesQuiet ==
  ASSUME FilesDeclared, req' = req,
         Live' => Live /\ UNCHANGED files /\ at' = at /\ Through' = Through
  PROVE  FilesDeclared'
BY SameRequest DEF FilesDeclared, files

\* Only DeclareFile and EndFile change what is known of files.
LEMMA FilesStep ==
  ASSUME TypeInv, FilesDeclared, [Next]_vars
  PROVE  FilesDeclared'
<1>0. req' = req
  BY RequestStays
<1>1. CASE DeclareFile
  <2>1. /\ phase = "file" /\ phase' = "methods" /\ at' = at /\ at \in 1..Len(req.list)
        /\ Len(req.list) \in Nat /\ ThisFile = req.list[at] /\ ThisFile \in Files
    BY <1>1, Where DEF DeclareFile, ThisFile
  <2>2. /\ Through = at - 1 /\ Through' = at /\ at - 1 \in Nat /\ (at - 1) + 1 = at
        /\ at' - 1 = at - 1 /\ Live
    BY <2>1 DEF Through, Live
  <2>3. /\ UpTo(at) = UpTo(at - 1) \cup {ThisFile}
        /\ VisibleAt(at) = VisibleAt(at - 1) \cup DeclaredIn(ThisFile)
        /\ ExtensionsUpTo(at) = ExtensionsUpTo(at - 1) \cup ToSet(req.exts[ThisFile])
    BY <2>1, <2>2, UpToNext
  <2>4. known' = UpTo(at) \cup VisibleAt(at)
    BY <1>1, <2>2, <2>3 DEF DeclareFile, FilesDeclared
  <2>5. \A f \in Files : importedBy'[f] = {g \in UpTo(at) : f \in req.deps[g]}
    BY <1>1, <2>2, <2>3 DEF DeclareFile, FilesDeclared
  <2>6. \A f \in req.generate : targets'[f] = IF f \in UpTo(at) THEN f ELSE Nobody
    BY <1>1, <2>2, <2>3 DEF DeclareFile, TargetsWith, FilesDeclared
  <2>7. ToSet(pending') = ExtensionsUpTo(at)
    <3>1. pending \in Seq(Fields) /\ req.exts[ThisFile] \in Seq(Fields)
      BY <2>1, RequestParts DEF TypeInv, TypeOK
    <3>2. pending' = pending \o req.exts[ThisFile]
      BY <1>1 DEF DeclareFile
    <3>3. ToSet(pending') = ToSet(pending) \cup ToSet(req.exts[ThisFile])
      BY <3>1, <3>2, ToSetConcat
    <3> QED BY <2>2, <2>3, <3>3 DEF FilesDeclared
  <2>8. \A p \in Packages : packages'[p] = InPackage(p, at - 1)
    BY <1>1, <2>2 DEF DeclareFile, FilesDeclared
  <2>9. \A i \in 1..at : req.deps[req.list[i]] \subseteq UpTo(i)
    <3>1. req.deps[ThisFile] \subseteq UpTo(at)
      <4>1. req.deps[ThisFile] \subseteq known \cup {ThisFile}
        BY <1>1 DEF DeclareFile, ImportsKnown
      <4>2. req.deps[ThisFile] \subseteq Files
        BY <2>1, RequestParts DEF TypeInv
      <4>3. VisibleAt(at - 1) \subseteq Declared
        <5>1. \A j \in 1..(at - 1) : req.list[j] \in Files
          BY <2>1, Where
        <5> QED BY <5>1, DeclaredType DEF VisibleAt, UpTo, TypeInv
      <4>4. known = UpTo(at - 1) \cup VisibleAt(at - 1)
        BY <2>2 DEF FilesDeclared
      <4> QED BY <2>3, <4>1, <4>2, <4>3, <4>4, NamesAssumption
    <3>2. \A i \in 1..(at - 1) : req.deps[req.list[i]] \subseteq UpTo(i)
      BY <2>2 DEF FilesDeclared
    <3>3. \A i \in 1..at : i \in 1..(at - 1) \/ i = at
      BY <2>1
    <3> QED BY <2>1, <3>1, <3>2, <3>3
  <2> QED BY <1>0, <2>1, <2>2, <2>4, <2>5, <2>6, <2>7, <2>8, <2>9, SameRequest DEF FilesDeclared
<1>2. CASE EndFile
  <2>1. /\ phase = "types" /\ phase' = "file" /\ at' = at + 1 /\ at \in 1..Len(req.list)
        /\ Len(req.list) \in Nat /\ ThisFile = req.list[at] /\ ThisFile \in Files
    BY <1>2, Where DEF EndFile, ThisFile
  <2>2. /\ Through = at /\ Through' = at /\ at - 1 \in Nat /\ (at - 1) + 1 = at
        /\ at' - 1 = at /\ Live
    BY <2>1 DEF Through, Live
  <2>3. \A p \in Packages : packages'[p] = InPackage(p, at)
    <3> SUFFICES ASSUME NEW p \in Packages PROVE packages'[p] = InPackage(p, at)
      OBVIOUS
    <3>1. packages[p] = InPackage(p, at - 1) /\ packages \in [Packages -> Seq(Files)]
      BY <2>2 DEF FilesDeclared, TypeInv, TypeOK
    <3>2. InPackage(p, at) = IF req.package[ThisFile] = p THEN Append(InPackage(p, at - 1), ThisFile)
                             ELSE InPackage(p, at - 1)
      <4>1. req \in Requests
        BY DEF TypeInv
      <4>2. /\ at - 1 \in Nat /\ (at - 1) + 1 = at /\ at <= Len(req.list)
        BY <2>1, <2>2
      <4>3. InPackage(p, (at - 1) + 1) = IF req.package[req.list[(at - 1) + 1]] = p
                                         THEN Append(InPackage(p, at - 1), req.list[(at - 1) + 1])
                                         ELSE InPackage(p, at - 1)
        BY <4>1, <4>2, InPackageNext
      <4> QED BY <2>1, <4>2, <4>3
    <3>3. packages' = [packages EXCEPT ![req.package[ThisFile]] = Append(@, ThisFile)]
      BY <1>2 DEF EndFile
    <3> QED BY <3>1, <3>2, <3>3
  <2>4. UNCHANGED <<known, importedBy, targets, pending>>
    BY <1>2 DEF EndFile
  <2> QED BY <1>0, <2>2, <2>3, <2>4, SameRequest DEF FilesDeclared
<1>3. CASE ~DeclareFile /\ ~EndFile
  <2>1. Live' => Live /\ UNCHANGED files /\ at' = at /\ Through' = Through
    BY <1>3 DEF Next, vars, control, files, Live, Through, Fail, ImportUnknown, HydrateMethod,
       EndMethods, HydrateField, EndFiles, HydrateExtension, EndExtensions, AssignDependents, Finish
  <2> QED BY <1>0, <2>1, FilesQuiet
<1> QED BY <1>1, <1>2, <1>3

-----------------------------------------------------------------------------
(* What the types of fields say.                                               *)

\* Nothing becomes unknown.
LEMMA KnownGrows ==
  ASSUME [Next]_vars
  PROVE  known \subseteq known'
BY DEF Next, vars, control, files, DeclareFile, ImportUnknown, HydrateMethod, EndMethods,
       HydrateField, EndFile, EndFiles, HydrateExtension, EndExtensions, AssignDependents,
       Finish, Fail

\* What Meant says of the type of a field, of any type.
Says(x, y) ==
    LET d == req.desc[x]
        t == [what |-> y.what, ref |-> y.ref, el |-> y.el, key |-> y.key]
    IN /\ d.type # "group" /\ RefOf(x) \in known \cup {Nobody}
       /\ \/ /\ IsMapField(x) /\ req.desc[Value(x)].type # "group"
             /\ t = [what |-> "map", ref |-> Nobody, el |-> ElemOf(req.desc[Value(x)]),
                     key |-> ElemOf(req.desc[Key(x)])]
          \/ /\ ~IsMapField(x) /\ d.rep
             /\ t = [what |-> "rep", ref |-> Nobody, el |-> ElemOf(d), key |-> NoElem]
          \/ /\ ~d.rep
             /\ t = [what |-> Elem(d), ref |-> d.ref, el |-> NoElem, key |-> NoElem]

\* A field that is meant to have a type and is neither repeated nor a map has that
\* of its descriptor, of which there is an element.
LEMMA MeantSingle ==
  ASSUME NEW x, Meant(x), ~req.desc[x].rep, ~IsMapField(x)
  PROVE  /\ RefOf(x) = req.desc[x].ref
         /\ typ[x].what = Elem(req.desc[x]) /\ typ[x].ref = req.desc[x].ref
         /\ HasElem(typ[x]) /\ ToElem(typ[x]) = ElemOf(req.desc[x])
<1>1. typ[x].what = Elem(req.desc[x]) /\ typ[x].ref = req.desc[x].ref
  BY DEF Meant
<1> QED BY <1>1 DEF RefOf, HasElem, ToElem, ElemOf, Elem

\* hydrateFieldType: the type it gives says what the descriptor says.
LEMMA FieldTypeMeant ==
  ASSUME TypeInv, TypesAreMeant, NEW x \in Fields, NEW tied \in {x, Embedded}, Resolves(x),
         IsMapField(x) => EntryHasTypes(x)
  PROVE  FieldType(x, tied) # NoType /\ Says(x, FieldType(x, tied))
<1> DEFINE d == req.desc[x]
           t == FieldType(x, tied)
<1>1. d \in Descriptors /\ d.type # "group" /\ (d.type = "scalar" \/ d.ref \in known)
  BY RequestParts DEF TypeInv, Resolves
<1>2. d.ref \in known \cup {Nobody}
  BY <1>1 DEF Descriptors
<1>3. Elem(d) # "nil"
  BY DEF Elem
<1> HIDE DEF d
<1>4. CASE IsMapField(x)
  <2>1. ASSUME NEW v \in {Key(x), Value(x)}
        PROVE  /\ ToElem(typ[v]) = ElemOf(req.desc[v])
               /\ req.desc[v].ref \in known \cup {Nobody} /\ req.desc[v].type # "group"
    <3>1. v \in Fields /\ ~req.desc[v].rep /\ ~IsMapField(v)
      BY <1>4, EntryParts DEF TypeInv
    <3>2. IsTyped(v)
      BY <1>4 DEF EntryHasTypes, HasElem, IsTyped, NoType
    <3>3. Meant(v)
      BY <3>1, <3>2 DEF TypesAreMeant
    <3>4. RefOf(v) \in known \cup {Nobody} /\ req.desc[v].type # "group"
      BY <3>3 DEF Meant
    <3> QED BY <3>1, <3>3, <3>4, MeantSingle
  <2>2. t = List("map", ElemOf(req.desc[Value(x)]), ElemOf(req.desc[Key(x)]), tied)
    BY <1>4, <2>1 DEF FieldType
  <2>3. RefOf(x) \in known \cup {Nobody} /\ req.desc[Value(x)].type # "group"
    BY <1>4, <2>1 DEF RefOf
  <2> HIDE DEF t
  <2>4. t # NoType
    BY <2>2 DEF List, NoType
  <2>5. Says(x, t)
    BY <1>1, <1>4, <2>2, <2>3 DEF Says, List, d
  <2> QED BY <2>4, <2>5 DEF t
<1>5. CASE ~IsMapField(x)
  <2>1. t = IF d.rep THEN List("rep", ElemOf(d), NoElem, tied) ELSE Single(d, tied)
    BY <1>5 DEF FieldType, d
  <2>2. RefOf(x) = d.ref
    BY <1>5 DEF RefOf, d
  <2> HIDE DEF t
  <2>3. t # NoType
    BY <1>3, <2>1 DEF List, Single, NoType
  <2>4. Says(x, t)
    BY <1>1, <1>2, <1>5, <2>1, <2>2 DEF Says, List, Single, d
  <2> QED BY <2>3, <2>4 DEF t
<1> QED BY <1>4, <1>5

\* What fields and extensions are given types.
LEMMA FieldStep ==
  ASSUME TypeInv, HydrateField, ~Fail, phase' # "panicked"
  PROVE  /\ Head(todo) \in Fields
         /\ Resolves(Head(todo))
         /\ IsMapField(Head(todo)) => EntryHasTypes(Head(todo))
         /\ typ' = [typ EXCEPT ![Head(todo)] = FieldType(Head(todo), Head(todo))]
         /\ phase = "types"
         /\ todo \in Seq(Fields) /\ todo # <<>> /\ todo' = Tail(todo)
         /\ UNCHANGED <<req, at, phase, inOut, files, edges>>
<1>1. todo \in Seq(Fields) /\ todo # <<>> /\ phase = "types"
  BY DEF HydrateField, TypeInv
<1>2. Head(todo) \in Fields
  BY <1>1, HeadTailProperties
<1> QED BY <1>1, <1>2 DEF HydrateField, IsTyped

\* What an extension is given.
LEMMA ExtensionStep ==
  ASSUME TypeInv, HydrateExtension, ~Fail
  PROVE  /\ Head(todo) \in Fields
         /\ Resolves(Head(todo)) /\ req.extendee[Head(todo)] \in known
         /\ typ' = [typ EXCEPT ![Head(todo)] = FieldType(Head(todo), Embedded)]
         /\ applied' = [applied EXCEPT ![req.extendee[Head(todo)]] = @ \cup {Head(todo)}]
         /\ phase = "extensions"
         /\ todo \in Seq(Fields) /\ todo # <<>> /\ todo' = Tail(todo)
         /\ UNCHANGED <<req, at, phase, inOut, usedBy, uses, files>>
<1>1. todo \in Seq(Fields) /\ todo # <<>> /\ phase = "extensions"
  BY DEF HydrateExtension, TypeInv
<1>2. Head(todo) \in Fields
  BY <1>1, HeadTailProperties
<1> QED BY <1>1, <1>2 DEF HydrateExtension

\* The other steps give none.
LEMMA TypesQuiet ==
  ASSUME [Next]_vars, ~(HydrateField /\ ~Fail /\ phase' # "panicked"),
         ~(HydrateExtension /\ ~Fail)
  PROVE  typ' = typ
BY DEF Next, vars, control, files, DeclareFile, ImportUnknown, HydrateMethod, EndMethods,
       HydrateField, EndFile, EndFiles, HydrateExtension, EndExtensions, AssignDependents,
       Finish, Fail

\* A type that was right stays right, whatever else becomes known.
LEMMA MeantStays ==
  ASSUME req' = req, known \subseteq known', NEW x \in Fields, typ'[x] = typ[x], Meant(x)
  PROVE  Meant(x)'
<1>1. RefOf(x)' = RefOf(x) /\ IsMapField(x)' = IsMapField(x) /\ Key(x)' = Key(x)
      /\ Value(x)' = Value(x)
  BY SameRequest
<1> QED BY <1>1 DEF Meant

\* At the start there are no types.
LEMMA MeantInit ==
  ASSUME Init
  PROVE  TypesAreMeant
BY DEF Init, TypesAreMeant, IsTyped

\* Each step leaves the types that fields have to be what they should.
LEMMA MeantStep ==
  ASSUME TypeInv, FilesDeclared, TypesAreMeant, ExtensionsInTurn, [Next]_vars
  PROVE  TypesAreMeant'
<1>0. req' = req /\ known \subseteq known'
  BY RequestStays, KnownGrows
<1>1. ASSUME NEW x \in Fields, NEW tied \in {x, Embedded}, Resolves(x),
             IsMapField(x) => EntryHasTypes(x),
             typ' = [typ EXCEPT ![x] = FieldType(x, tied)]
      PROVE  TypesAreMeant'
  <2> DEFINE t == FieldType(x, tied)
  <2>1. Says(x, t)
    BY <1>1, FieldTypeMeant
  <2> HIDE DEF t
  <2>2. typ'[x] = t /\ \A y \in Fields \ {x} : typ'[y] = typ[y]
    BY <1>1 DEF t, TypeInv, TypeOK
  <2>3. Meant(x)'
    <3>1. RefOf(x)' = RefOf(x) /\ IsMapField(x)' = IsMapField(x) /\ Key(x)' = Key(x)
          /\ Value(x)' = Value(x)
      BY <1>0, SameRequest
    <3> QED BY <1>0, <2>1, <2>2, <3>1 DEF Meant, Says
  <2>4. ASSUME NEW y \in Fields \ {x}, IsTyped(y)' PROVE Meant(y)'
    <3>1. IsTyped(y)
      BY <2>2, <2>4 DEF IsTyped
    <3> QED BY <1>0, <2>2, <3>1, MeantStays DEF TypesAreMeant
  <2> QED BY <2>3, <2>4 DEF TypesAreMeant
<1>2. CASE HydrateField /\ ~Fail /\ phase' # "panicked"
  BY <1>1, <1>2, FieldStep
<1>3. CASE HydrateExtension /\ ~Fail
  <2> DEFINE x == Head(todo)
  <2>1. x \in ToSet(todo)
    BY <1>3, ExtensionStep, HeadTailProperties, ToSetOf
  <2>2. x \in ToSet(pending) /\ Live
    BY <1>3, <2>1, ExtensionStep DEF ExtensionsInTurn, Live
  <2>3. ~IsMapField(x)
    BY <2>2, ExtensionsAreNoMaps
  <2> QED BY <1>1, <1>3, <2>3, ExtensionStep
<1>4. CASE typ' = typ
  <2> SUFFICES ASSUME NEW x \in Fields, IsTyped(x)' PROVE Meant(x)'
    BY DEF TypesAreMeant
  <2>1. IsTyped(x) /\ typ'[x] = typ[x]
    BY <1>4 DEF IsTyped
  <2> QED BY <1>0, <2>1, MeantStays DEF TypesAreMeant
<1> QED BY <1>2, <1>3, <1>4, TypesQuiet

-----------------------------------------------------------------------------
(* The order in which fields are given their types.                            *)

\* No field loses its type.
LEMMA TypesStay ==
  ASSUME TypeInv, TypesAreMeant, ExtensionsInTurn, FilesDeclared, [Next]_vars,
         NEW x \in Fields, IsTyped(x)
  PROVE  IsTyped(x)'
<1>1. ASSUME NEW y \in Fields, NEW tied \in {y, Embedded}, Resolves(y),
             IsMapField(y) => EntryHasTypes(y),
             typ' = [typ EXCEPT ![y] = FieldType(y, tied)]
      PROVE  IsTyped(x)'
  <2>1. FieldType(y, tied) # NoType
    BY <1>1, FieldTypeMeant
  <2>2. typ'[x] = IF x = y THEN FieldType(y, tied) ELSE typ[x]
    BY <1>1 DEF TypeInv, TypeOK
  <2> QED BY <2>1, <2>2 DEF IsTyped
<1>2. CASE HydrateField /\ ~Fail /\ phase' # "panicked"
  BY <1>1, <1>2, FieldStep
<1>3. CASE HydrateExtension /\ ~Fail
  <2> DEFINE y == Head(todo)
  <2>1. y \in ToSet(todo)
    BY <1>3, ExtensionStep, HeadTailProperties, ToSetOf
  <2>2. y \in ToSet(pending) /\ Live
    BY <1>3, <2>1, ExtensionStep DEF ExtensionsInTurn, Live
  <2>3. ~IsMapField(y)
    BY <2>2, ExtensionsAreNoMaps
  <2> QED BY <1>1, <1>3, <2>3, ExtensionStep
<1>4. CASE typ' = typ
  BY <1>4 DEF IsTyped
<1> QED BY <1>2, <1>3, <1>4, TypesQuiet

\* The fields of a file are fields.
LEMMA FieldsOfFile ==
  ASSUME TypeInv, NEW i \in 1..Len(req.list)
  PROVE  /\ AllFieldsOf(req.list[i]) \subseteq Fields
         /\ FieldsInOrder(req.list[i]) \in Seq(Fields)
         /\ Len(FieldsInOrder(req.list[i])) \in Nat
BY Where, FieldsType, ToSetOf DEF TypeInv, AllFieldsOf

\* At the start no file is through.
LEMMA FieldsInit ==
  ASSUME Init
  PROVE  FieldsInTurn
BY DEF Init, FieldsInTurn

\* Each step leaves fields typed in their order.
LEMMA FieldsStep ==
  ASSUME TypeInv, FilesDeclared, TypesAreMeant, ExtensionsInTurn, FieldsInTurn, [Next]_vars
  PROVE  FieldsInTurn'
<1>0. req' = req
  BY RequestStays
<1>a. Len(req.list) \in Nat /\ at \in Nat /\ at >= 1 /\ at <= Len(req.list) + 1
  BY Where DEF TypeInv, TypeOK
<1>b. ASSUME Live
      PROVE  \A i \in 1..(at - 1) : \A x \in AllFieldsOf(req.list[i]) : IsTyped(x)'
  <2> SUFFICES ASSUME NEW i \in 1..(at - 1), NEW x \in AllFieldsOf(req.list[i])
               PROVE  IsTyped(x)'
    OBVIOUS
  <2>1. IsTyped(x)
    BY <1>b DEF FieldsInTurn
  <2>2. x \in Fields
    BY <1>a, FieldsOfFile
  <2> QED BY <2>1, <2>2, TypesStay
<1> DEFINE F == FieldsInOrder(ThisFile)
<1>c. ASSUME phase = "types"
      PROVE  /\ F \in Seq(Fields) /\ Len(F) \in Nat /\ todo \in Seq(Fields)
             /\ Len(todo) \in Nat /\ Typed \in Nat /\ Len(F) = Typed + Len(todo)
             /\ \A j \in 1..Typed : j \in 1..Len(F) /\ F[j] \in Fields /\ IsTyped(F[j])
             /\ \A j \in 1..Len(todo) : todo[j] = F[Typed + j]
             /\ Live
  <2>1. at \in 1..Len(req.list) /\ Live
    BY <1>c, Where DEF Live
  <2>2. F \in Seq(Fields) /\ Len(F) \in Nat
    BY <2>1, FieldsOfFile DEF ThisFile
  <2>3. todo \in Seq(Fields) /\ Len(todo) \in Nat /\ DOMAIN todo = 1..Len(todo)
    BY <1>c DEF TypeInv
  <2>4. /\ Typed \in Nat
        /\ \A j \in DOMAIN todo : todo[j] = F[Typed + j]
        /\ \A j \in 1..Typed : IsTyped(F[j])
    BY <1>c, <2>1 DEF FieldsInTurn
  <2>5. Typed = Len(F) - Len(todo)
    BY DEF Typed
  <2> HIDE DEF F
  <2>6. \A j \in 1..Typed : j \in 1..Len(F) /\ F[j] \in Fields
    BY <2>2, <2>3, <2>4, <2>5
  <2>7. Len(F) = Typed + Len(todo)
    BY <2>2, <2>3, <2>4, <2>5
  <2>8. \A j \in 1..Typed : j \in 1..Len(F) /\ F[j] \in Fields /\ IsTyped(F[j])
    BY <2>4, <2>6, Zenon
  <2>9. \A j \in 1..Len(todo) : todo[j] = F[Typed + j]
    BY <2>3, <2>4, Zenon
  <2> QED BY <2>1, <2>2, <2>3, <2>4, <2>7, <2>8, <2>9, Zenon
<1>1. CASE EndMethods
  <2>1. phase = "methods" /\ phase' = "types" /\ at' = at /\ todo' = F /\ Live
    BY <1>1 DEF EndMethods, Live
  <2>2. at \in 1..Len(req.list)
    BY <2>1, Where
  <2>3. F \in Seq(Fields) /\ Len(F) \in Nat
    BY <2>2, FieldsOfFile DEF ThisFile
  <2>4. F' = F /\ ThisFile' = ThisFile
    BY <1>0, <2>1, SameRequest DEF ThisFile
  <2>5. Typed' = 0
    BY <2>1, <2>3, <2>4 DEF Typed
  <2>6. \A j \in DOMAIN todo' : todo'[j] = F'[Typed' + j]
    BY <2>1, <2>3, <2>4, <2>5
  <2>7. \A j \in 1..0 : FALSE
    OBVIOUS
  <2> HIDE DEF F
  <2>8. \A j \in 1..Typed' : IsTyped(F[j])'
    BY <2>5, <2>7
  <2> QED BY <1>0, <1>b, <2>1, <2>4, <2>5, <2>6, <2>8, SameRequest DEF FieldsInTurn, F
<1>2. CASE HydrateField /\ ~Fail /\ phase' # "panicked"
  <2>0. PICK x \in Fields : x = Head(todo)
    BY <1>2, FieldStep
  <2>1. /\ Resolves(x) /\ (IsMapField(x) => EntryHasTypes(x))
        /\ typ' = [typ EXCEPT ![x] = FieldType(x, x)]
        /\ phase = "types" /\ phase' = "types" /\ at' = at /\ todo # <<>> /\ todo' = Tail(todo)
    BY <1>2, <2>0, FieldStep
  <2>2. IsTyped(x)'
    <3>1. FieldType(x, x) # NoType
      BY <2>1, FieldTypeMeant
    <3>2. typ'[x] = FieldType(x, x)
      BY <2>1 DEF TypeInv, TypeOK
    <3> QED BY <3>1, <3>2 DEF IsTyped
  <2>3. F' = F /\ ThisFile' = ThisFile
    BY <1>0, <2>1, SameRequest DEF ThisFile
  <2>4. /\ Len(Tail(todo)) = Len(todo) - 1 /\ Len(todo) >= 1 /\ DOMAIN Tail(todo) = 1..(Len(todo) - 1)
        /\ \A j \in 1..(Len(todo) - 1) : Tail(todo)[j] = todo[j + 1]
        /\ x = todo[1]
    BY <1>c, <2>0, <2>1, HeadTailProperties
  <2>5. Typed' = Typed + 1
    BY <1>c, <2>1, <2>3, <2>4 DEF Typed
  <2>6. x = F[Typed + 1]
    BY <1>c, <2>1, <2>4
  <2> HIDE DEF F
  <2>7. \A j \in DOMAIN todo' : todo'[j] = F'[Typed' + j]
    <3> SUFFICES ASSUME NEW j \in 1..(Len(todo) - 1) PROVE todo'[j] = F[Typed' + j]
      BY <2>1, <2>3, <2>4
    <3>1. j + 1 \in 1..Len(todo) /\ Typed + (j + 1) = Typed' + j
      BY <1>c, <2>1, <2>4, <2>5
    <3> QED BY <1>c, <2>1, <2>4, <3>1
  <2>8. ASSUME NEW j \in 1..Typed' PROVE IsTyped(F[j])'
    <3>1. j \in 1..Typed \/ j = Typed + 1
      BY <1>c, <2>1, <2>5
    <3>2. CASE j = Typed + 1
      BY <2>2, <2>3, <2>6, <3>2 DEF IsTyped
    <3>3. CASE j \in 1..Typed
      <4>1. F[j] \in Fields /\ IsTyped(F[j])
        BY <1>c, <2>1, <3>3
      <4>2. PICK y \in Fields : y = F[j]
        BY <4>1
      <4>3. IsTyped(y)'
        BY <4>1, <4>2, TypesStay
      <4> QED BY <2>3, <4>2, <4>3 DEF IsTyped
    <3> QED BY <3>1, <3>2, <3>3
  <2>9. Typed' \in Nat /\ at' - 1 = at - 1 /\ Live
    BY <1>c, <2>1, <2>5
  <2> QED BY <1>0, <1>b, <2>1, <2>3, <2>7, <2>8, <2>9, SameRequest DEF FieldsInTurn, F
<1>3. CASE EndFile
  <2>1. /\ phase = "types" /\ phase' = "file" /\ at' = at + 1 /\ todo = <<>> /\ typ' = typ
        /\ at \in 1..Len(req.list) /\ ThisFile = req.list[at] /\ Live
    BY <1>3, Where DEF EndFile, ThisFile, Live
  <2>2. ASSUME NEW x \in AllFieldsOf(ThisFile) PROVE IsTyped(x)
    <3>1. PICK j \in 1..Len(F) : F[j] = x
      BY <1>c, <2>1, ToSetOf DEF AllFieldsOf
    <3>2. Typed = Len(F)
      BY <1>c, <2>1
    <3> QED BY <1>c, <2>1, <3>1, <3>2
  <2>3. \A i \in 1..(at' - 1) : \A x \in AllFieldsOf(req.list[i]) : IsTyped(x)'
    <3> SUFFICES ASSUME NEW i \in 1..(at' - 1), NEW x \in AllFieldsOf(req.list[i])
                 PROVE  IsTyped(x)
      BY <2>1 DEF IsTyped
    <3>1. i \in 1..(at - 1) \/ i = at
      BY <1>a, <2>1
    <3> QED BY <2>1, <2>2, <3>1 DEF FieldsInTurn
  <2> QED BY <1>0, <2>1, <2>3, SameRequest DEF FieldsInTurn
<1>4. CASE UNCHANGED vars
  BY <1>0, <1>4, SameRequest DEF FieldsInTurn, vars, control, files, Live, Typed, ThisFile, IsTyped
<1>5. CASE ~EndMethods /\ ~(HydrateField /\ ~Fail /\ phase' # "panicked") /\ ~EndFile
            /\ ~UNCHANGED vars
  <2>1. Live' => Live /\ phase' # "types" /\ at' = at
    BY <1>5 DEF Next, Live, Fail, DeclareFile, ImportUnknown, HydrateMethod,
       HydrateField, EndFiles, HydrateExtension, EndExtensions, AssignDependents, Finish
  <2> QED BY <1>0, <1>b, <2>1, SameRequest DEF FieldsInTurn
<1> QED BY <1>1, <1>2, <1>3, <1>4, <1>5

-----------------------------------------------------------------------------
(* Extensions.                                                                 *)

\* At the start no extension is applied.
LEMMA ExtensionsInit ==
  ASSUME Init
  PROVE  ExtensionsInTurn
BY DEF Init, ExtensionsInTurn

\* The head and the rest of what is left to do.
LEMMA HeadAndTail ==
  ASSUME NEW X, NEW s \in Seq(X), s # <<>>
  PROVE  /\ Head(s) \in X /\ Tail(s) \in Seq(X)
         /\ ToSet(s) = {Head(s)} \cup ToSet(Tail(s))
<1>1. /\ Head(s) \in X /\ Tail(s) \in Seq(X) /\ Len(s) \in Nat /\ Len(s) >= 1
      /\ Len(Tail(s)) = Len(s) - 1 /\ Head(s) = s[1]
      /\ \A i \in 1..(Len(s) - 1) : Tail(s)[i] = s[i + 1]
      /\ DOMAIN s = 1..Len(s) /\ DOMAIN Tail(s) = 1..(Len(s) - 1)
  BY HeadTailProperties, LenProperties
<1>2. ASSUME NEW x \in ToSet(s) PROVE x \in {Head(s)} \cup ToSet(Tail(s))
  <2>1. PICK i \in 1..Len(s) : s[i] = x
    BY <1>1 DEF ToSet
  <2>2. i = 1 \/ (i - 1 \in 1..(Len(s) - 1) /\ Tail(s)[i - 1] = s[i])
    BY <1>1
  <2> QED BY <1>1, <2>1, <2>2 DEF ToSet
<1>3. ASSUME NEW x \in {Head(s)} \cup ToSet(Tail(s)) PROVE x \in ToSet(s)
  BY <1>1 DEF ToSet
<1> QED BY <1>1, <1>2, <1>3

\* Each step leaves extensions with their extendee, or to be done.
LEMMA ExtensionsStep ==
  ASSUME TypeInv, FilesDeclared, TypesAreMeant, ExtensionsInTurn, [Next]_vars
  PROVE  ExtensionsInTurn'
<1>0. req' = req
  BY RequestStays
<1>1. CASE EndFiles
  <2>1. phase = "file" /\ phase' = "extensions" /\ todo' = pending
        /\ UNCHANGED <<req, at, inOut, typ, files, edges>>
    BY <1>1 DEF EndFiles
  <2>2. \A m \in Messages : applied[m] = {}
    BY <2>1 DEF ExtensionsInTurn
  <2> QED BY <2>1, <2>2 DEF ExtensionsInTurn, ExtensionsOf, files, edges
<1>2. CASE HydrateExtension /\ ~Fail
  <2>0. PICK x \in Fields : x = Head(todo)
    BY <1>2, ExtensionStep
  <2>1. /\ Resolves(x) /\ typ' = [typ EXCEPT ![x] = FieldType(x, Embedded)]
        /\ applied' = [applied EXCEPT ![req.extendee[x]] = @ \cup {x}]
        /\ phase = "extensions" /\ phase' = "extensions" /\ todo' = Tail(todo)
        /\ ToSet(todo) = {x} \cup ToSet(todo')
        /\ pending' = pending
    BY <1>2, <2>0, ExtensionStep, HeadAndTail DEF files
  <2>2. x \in ToSet(pending) /\ Live
    BY <2>1 DEF ExtensionsInTurn, Live
  <2>3. ~IsMapField(x) /\ req.extendee[x] \in Messages
    BY <2>2, ExtensionsAreNoMaps, RequestParts DEF TypeInv
  <2>4. IsTyped(x)'
    <3>1. FieldType(x, Embedded) # NoType
      BY <2>1, <2>3, FieldTypeMeant
    <3>2. typ'[x] = FieldType(x, Embedded)
      BY <2>1 DEF TypeInv, TypeOK
    <3> QED BY <3>1, <3>2 DEF IsTyped
  <2>5. \A y \in ToSet(pending) : IsTyped(y)' \/ y \in ToSet(todo')
    <3> SUFFICES ASSUME NEW y \in ToSet(pending), y \notin ToSet(todo') PROVE IsTyped(y)'
      OBVIOUS
    <3>1. y = x \/ IsTyped(y)
      BY <2>1 DEF ExtensionsInTurn
    <3>2. y \in Fields
      BY <2>2, ExtensionsAreNoMaps
    <3>3. IsTyped(y) => IsTyped(y)'
      BY <3>2, TypesStay
    <3> QED BY <2>4, <3>1, <3>3
  <2>6. \A m \in Messages : ExtensionsOf(m)' = ExtensionsOf(m)
    BY <1>0, <2>1 DEF ExtensionsOf
  <2>7. ASSUME NEW m \in Messages
        PROVE  /\ applied'[m] \subseteq ExtensionsOf(m)
               /\ ExtensionsOf(m) \subseteq applied'[m] \cup ToSet(todo')
    <3>1. /\ applied[m] \subseteq ExtensionsOf(m)
          /\ ExtensionsOf(m) \subseteq applied[m] \cup ToSet(todo)
      BY <2>1 DEF ExtensionsInTurn
    <3>2. applied'[m] = IF m = req.extendee[x] THEN applied[m] \cup {x} ELSE applied[m]
      BY <2>1 DEF TypeInv, TypeOK
    <3>3. x \in ExtensionsOf(m) <=> m = req.extendee[x]
      BY <2>2 DEF ExtensionsOf
    <3> QED BY <2>1, <3>1, <3>2, <3>3
  <2>8. ToSet(todo') \subseteq ToSet(pending)
    BY <2>1 DEF ExtensionsInTurn
  <2> QED BY <2>1, <2>5, <2>6, <2>7, <2>8 DEF ExtensionsInTurn
<1>3. CASE EndExtensions
  <2>1. /\ phase = "extensions" /\ phase' \in {"dependents", "done"} /\ todo = <<>>
        /\ UNCHANGED <<req, at, inOut, typ, files, edges>>
    BY <1>3 DEF EndExtensions
  <2>2. ToSet(todo) = {}
    BY <2>1 DEF ToSet
  <2>3. /\ \A x \in ToSet(pending) : IsTyped(x)
        /\ \A m \in Messages : applied[m] = ExtensionsOf(m)
    BY <2>1, <2>2 DEF ExtensionsInTurn
  <2> QED BY <2>1, <2>3 DEF ExtensionsInTurn, ExtensionsOf, IsTyped, files, edges
<1>4. CASE AssignDependents \/ Finish
  <2>1. /\ phase = "dependents" /\ phase' \in {"dependents", "done"}
        /\ UNCHANGED <<req, typ, pending, applied>>
    BY <1>4 DEF AssignDependents, Finish, files, edges
  <2> QED BY <2>1 DEF ExtensionsInTurn, ExtensionsOf, IsTyped
<1>5. CASE UNCHANGED vars
  BY <1>5 DEF vars, control, files, edges, ExtensionsInTurn, ExtensionsOf, IsTyped
<1>6. CASE ~EndFiles /\ ~(HydrateExtension /\ ~Fail) /\ ~EndExtensions
            /\ ~AssignDependents /\ ~Finish /\ ~UNCHANGED vars
  <2>1. \/ phase' \in {"failed", "panicked"}
        \/ /\ phase \in {"file", "methods", "types"} /\ phase' \in {"file", "methods", "types"}
           /\ applied' = applied
    BY <1>6 DEF Next, Fail, DeclareFile, ImportUnknown, HydrateMethod, EndMethods,
       HydrateField, EndFile, HydrateExtension, edges
  <2> QED BY <2>1 DEF ExtensionsInTurn
<1> QED BY <1>1, <1>2, <1>3, <1>4, <1>5, <1>6

-----------------------------------------------------------------------------
(* Dependents and dependencies.                                                *)

\* The messages gone through for dependents are those of the files.
LEMMA AllListedMessages ==
  ASSUME TypeInv
  PROVE  LET all == FlattenSeq([i \in DOMAIN req.list |-> AllMessages(req.list[i])])
         IN \A m : m \in ToSet(all) <=> \E f \in Listed : m \in ToSet(AllMessages(f))
<1> DEFINE ss == [i \in DOMAIN req.list |-> AllMessages(req.list[i])]
<1>1. req.list \in Seq(Files)
  BY RequestParts DEF TypeInv
<1>2. Len(req.list) \in Nat /\ DOMAIN req.list = 1..Len(req.list)
  BY <1>1
<1>3. \A i \in 1..Len(req.list) : AllMessages(req.list[i]) \in Seq(Messages)
  BY Where, MessagesType DEF TypeInv
<1>4. ss \in Seq(Seq(Messages))
  BY <1>2, <1>3
<1>5. DOMAIN ss = DOMAIN req.list /\ \A i \in DOMAIN req.list : ss[i] = AllMessages(req.list[i])
  OBVIOUS
<1> HIDE DEF ss
<1>6. ToSet(FlattenSeq(ss)) = UNION {ToSet(ss[i]) : i \in DOMAIN ss}
  BY <1>4, FlattenElements
<1>7. \A f : f \in Listed <=> \E i \in DOMAIN req.list : f = req.list[i]
  BY DEF Listed, ToSet
<1> USE DEF ss
<1> QED BY <1>5, <1>6, <1>7

\* assignDependent: both directions of a type are what its field refers to, in
\* whichever branch they are recorded.
LEMMA BothDirections ==
  ASSUME TypeInv, NEW x \in Fields, Meant(x), NEW d \in Declared
  PROVE  /\ d \in GivesDependent(typ[x]) <=> RefOf(x) = d
         /\ d \in DependsOn(typ[x]) <=> RefOf(x) = d /\ d \in Messages
<1> DEFINE t == typ[x]
<1>1. d # Nobody /\ (d \in Messages <=> d \notin Enums)
  BY NamesAssumption DEF Declared
<1>2. ASSUME NEW y \in Fields
      PROVE  /\ Elem(req.desc[y]) = "scalar" => req.desc[y].type = "group" \/ req.desc[y].ref = Nobody
             /\ Elem(req.desc[y]) = "enum" => req.desc[y].ref \in Enums
             /\ Elem(req.desc[y]) = "embed" => req.desc[y].ref \in Messages
             /\ Elem(req.desc[y]) \in {"scalar", "enum", "embed"}
             /\ req.desc[y].type = "scalar" => Elem(req.desc[y]) = "scalar"
  <2>1. req.desc[y] \in Descriptors
    BY RequestParts DEF TypeInv
  <2> QED BY <2>1 DEF Descriptors, Elem
<1>3. Nobody \notin Messages
  BY NamesAssumption DEF Declared
<1>4. CASE IsMapField(x)
  <2>1. /\ t.what = "map" /\ t.el = ElemOf(req.desc[Value(x)]) /\ t.key = ElemOf(req.desc[Key(x)])
        /\ RefOf(x) = req.desc[Value(x)].ref /\ req.desc[Value(x)].type # "group"
    BY <1>4 DEF Meant, IsMapField, RefOf
  <2>2. Value(x) \in Fields /\ Key(x) \in Fields /\ req.desc[Key(x)].type = "scalar"
    BY <1>4, EntryParts DEF TypeInv
  <2>3. t.key.what = "scalar"
    BY <1>2, <2>1, <2>2 DEF ElemOf
  <2> HIDE DEF t
  <2> QED BY <1>1, <1>2, <1>3, <2>1, <2>2, <2>3
          DEF GivesDependent, DependsOn, IsEnum, IsEmbed, IsList, Embed, ElemOf, t
<1>5. CASE ~IsMapField(x) /\ req.desc[x].rep
  <2>1. /\ t.what = "rep" /\ t.el = ElemOf(req.desc[x]) /\ RefOf(x) = req.desc[x].ref
        /\ req.desc[x].type # "group"
    BY <1>5 DEF Meant, RefOf
  <2> HIDE DEF t
  <2> QED BY <1>1, <1>2, <1>3, <2>1
          DEF GivesDependent, DependsOn, IsEnum, IsEmbed, IsList, Embed, ElemOf, t
<1>6. CASE ~req.desc[x].rep
  <2>1. ~IsMapField(x)
    BY <1>6 DEF IsMapField
  <2>2. t.what = Elem(req.desc[x]) /\ t.ref = req.desc[x].ref /\ RefOf(x) = req.desc[x].ref
        /\ req.desc[x].type # "group"
    BY <1>6, <2>1, MeantSingle DEF Meant
  <2> HIDE DEF t
  <2> QED BY <1>1, <1>2, <1>3, <2>2
          DEF GivesDependent, DependsOn, IsEnum, IsEmbed, IsList, Embed, t
<1> QED BY <1>4, <1>5, <1>6

\* What a message is found to refer to, and what is found to refer to, is what its
\* fields refer to, for they all have their types.
LEMMA AllReferred ==
  ASSUME TypeInv, TypesAreMeant, FieldsInTurn, phase = "dependents",
         NEW f \in Listed, NEW m \in ToSet(AllMessages(f)), NEW d \in Declared
  PROVE  /\ (\E x \in ToSet(req.fields[m]) : d \in GivesDependent(typ[x])) <=> Refers(m, d)
         /\ d \in Messages =>
               (d \in UNION {DependsOn(typ[x]) : x \in ToSet(req.fields[m])} <=> Refers(m, d))
<1>1. at - 1 = Len(req.list) /\ Live
  BY Where DEF TypeInv, Live
<1>2. PICK i \in 1..Len(req.list) : f = req.list[i]
  BY UpToListed DEF UpTo
<1>3. ToSet(req.fields[m]) \subseteq AllFieldsOf(f) /\ AllFieldsOf(f) \subseteq Fields
  BY <1>2, Where, OwnFields, FieldsOfFile DEF TypeInv
<1>4. \A x \in ToSet(req.fields[m]) : IsTyped(x) /\ x \in Fields
  BY <1>1, <1>2, <1>3 DEF FieldsInTurn
<1>5. \A x \in ToSet(req.fields[m]) :
         /\ d \in GivesDependent(typ[x]) <=> RefOf(x) = d
         /\ d \in Messages => (d \in DependsOn(typ[x]) <=> RefOf(x) = d)
  BY <1>4, BothDirections DEF TypesAreMeant
<1> QED BY <1>5 DEF Refers

\* At the start there are no edges.
LEMMA EdgesInit ==
  ASSUME Init
  PROVE  EdgesInTurn
BY DEF Init, EdgesInTurn, Declared

\* Each step leaves the two directions inverse and what the fields say.
LEMMA EdgesStep ==
  ASSUME TypeInv, TypesAreMeant, FieldsInTurn, EdgesInTurn, [Next]_vars
  PROVE  EdgesInTurn'
<1>0. req' = req
  BY RequestStays
<1>1. CASE EndExtensions
  <2>1. /\ UNCHANGED <<usedBy, uses>>
        /\ phase' = (IF req.bidi THEN "dependents" ELSE "done")
        /\ req.bidi => todo' = FlattenSeq([i \in DOMAIN req.list |-> AllMessages(req.list[i])])
    BY <1>1 DEF EndExtensions, edges
  <2>2. phase' = "dependents" =>
          \A m : m \in ToSet(todo') <=> \E f \in Listed : m \in ToSet(AllMessages(f))
    BY <2>1, AllListedMessages
  <2> QED BY <1>0, <2>1, <2>2, SameRequest DEF EdgesInTurn
<1>2. CASE AssignDependents
  <2>1. phase = "dependents" /\ phase' = "dependents" /\ todo \in Seq(Messages) /\ todo # <<>>
    BY <1>2 DEF AssignDependents, TypeInv
  <2>2. PICK m \in Messages : m = Head(todo)
    BY <2>1, HeadAndTail
  <2> DEFINE own == ToSet(req.fields[m])
             used == {d \in Declared : \E x \in own : d \in GivesDependent(typ[x])}
             deps == UNION {DependsOn(typ[x]) : x \in own}
  <2>3. /\ usedBy' = [d \in Declared |-> IF d \in used THEN usedBy[d] \cup {m} ELSE usedBy[d]]
        /\ uses' = [uses EXCEPT ![m] = @ \cup deps]
        /\ todo' = Tail(todo)
    BY <1>2, <2>2 DEF AssignDependents
  <2>4. ToSet(todo) = {m} \cup ToSet(todo')
    BY <2>1, <2>2, <2>3, HeadAndTail
  <2>5. PICK f \in Listed : m \in ToSet(AllMessages(f))
    BY <2>1, <2>4 DEF EdgesInTurn
  <2>6. ASSUME NEW d \in Declared
        PROVE  /\ d \in used <=> Refers(m, d)
               /\ d \in Messages => (d \in deps <=> Refers(m, d))
    <3>1. /\ (\E x \in own : d \in GivesDependent(typ[x])) <=> Refers(m, d)
          /\ d \in Messages => (d \in deps <=> Refers(m, d))
      BY <2>1, <2>5, AllReferred
    <3> QED BY <3>1
  <2> HIDE DEF used, deps
  <2>7. \A n \in Messages, d \in Declared :
           n \in usedBy'[d] <=> n \in usedBy[d] \/ (n = m /\ Refers(m, d))
    BY <2>3, <2>6
  <2>8. \A n, d \in Messages : d \in uses'[n] <=> d \in uses[n] \/ (n = m /\ Refers(m, d))
    BY <2>3, <2>6 DEF TypeInv, TypeOK, Declared
  <2>9. \A n, d \in Messages : n \in usedBy'[d] <=> d \in uses'[n]
    BY <2>7, <2>8 DEF EdgesInTurn, Declared
  <2>10. \A n \in Messages, d \in Declared : n \in usedBy'[d] => Refers(n, d)
    BY <2>6, <2>7 DEF EdgesInTurn
  <2>11. \A n \in ToSet(todo') : \E g \in Listed : n \in ToSet(AllMessages(g))
    BY <2>1, <2>4 DEF EdgesInTurn
  <2>12. ASSUME req.bidi, NEW g \in Listed, NEW n \in ToSet(AllMessages(g)), n \notin ToSet(todo'),
                NEW d \in Declared, Refers(n, d)
         PROVE  n \in usedBy'[d]
    <3>1. n \in Messages
      BY <2>12, UpToListed, MessagesType, ToSetOf DEF TypeInv
    <3>2. n = m \/ n \in usedBy[d]
      BY <2>1, <2>4, <2>12 DEF EdgesInTurn
    <3> QED BY <2>6, <2>7, <2>12, <3>1, <3>2
  <2> QED BY <1>0, <2>1, <2>9, <2>10, <2>11, <2>12, SameRequest DEF EdgesInTurn
<1>3. CASE Finish
  <2>1. phase = "dependents" /\ phase' = "done" /\ todo = <<>> /\ UNCHANGED <<usedBy, uses>>
    BY <1>3 DEF Finish, edges
  <2>2. ToSet(todo) = {}
    BY <2>1 DEF ToSet
  <2> QED BY <1>0, <2>1, <2>2, SameRequest DEF EdgesInTurn
<1>4. CASE UNCHANGED vars
  BY <1>0, <1>4, SameRequest DEF vars, control, files, edges, EdgesInTurn
<1>5. CASE ~EndExtensions /\ ~AssignDependents /\ ~Finish /\ ~UNCHANGED vars
  <2>1. phase' \notin {"dependents", "done"} /\ UNCHANGED <<usedBy, uses>>
    BY <1>5 DEF Next, Fail, DeclareFile, ImportUnknown, HydrateMethod, EndMethods,
       HydrateField, EndFile, EndFiles, HydrateExtension, edges
  <2> QED BY <1>0, <2>1, SameRequest DEF EdgesInTurn
<1> QED BY <1>1, <1>2, <1>3, <1>4, <1>5

-----------------------------------------------------------------------------
(* Methods.                                                                    *)

\* At the start no file has methods.
LEMMA MethodsInit ==
  ASSUME Init
  PROVE  MethodsInTurn
<1>1. req.list \in Seq(Files)
  BY RequestParts DEF Init
<1>2. \A i \in DOMAIN req.list : i \in Nat /\ i >= 1 /\ inOut[i] = <<>>
  BY <1>1 DEF Init
<1>3. at = 1 /\ phase = "file" /\ Through = 0
  BY DEF Init, Through
<1> QED BY <1>2, <1>3 DEF MethodsInTurn

\* A method that goes from the front of one sequence to the end of the other.
LEMMA Passed ==
  ASSUME NEW X, NEW s \in Seq(X), NEW t \in Seq(X), t # <<>>
  PROVE  /\ Append(s, Head(t)) \o Tail(t) = s \o t
         /\ \A k \in DOMAIN Append(s, Head(t)) :
               (k \in DOMAIN s /\ Append(s, Head(t))[k] = s[k]) \/ Append(s, Head(t))[k] = Head(t)
<1>1. Len(t) \in Nat /\ Len(t) # 0 /\ Head(t) = t[1] /\ Head(t) \in X
  OBVIOUS
<1>2. /\ Tail(t) \in Seq(X) /\ Len(Tail(t)) = Len(t) - 1
      /\ \A i \in 1..Len(Tail(t)) : Tail(t)[i] = t[i + 1]
  BY HeadTailProperties
<1> QED BY <1>1, <1>2

\* Each step leaves the methods looked up in their order.
LEMMA MethodsStep ==
  ASSUME TypeInv, MethodsInTurn, [Next]_vars
  PROVE  MethodsInTurn'
<1>0. req' = req /\ known \subseteq known'
  BY RequestStays, KnownGrows
<1>1. Len(req.list) \in Nat /\ DOMAIN req.list = 1..Len(req.list) /\ at \in Nat
  <2>1. req.list \in Seq(Files)
    BY RequestParts DEF TypeInv
  <2> QED BY <2>1, Where
<1>2. CASE DeclareFile
  <2>1. /\ phase = "file" /\ phase' = "methods" /\ at' = at /\ at \in 1..Len(req.list) /\ Live
        /\ todo' = req.methods[req.list[at]] /\ inOut' = inOut
    BY <1>2, Where DEF DeclareFile, ThisFile, Live
  <2>2. Through = at - 1 /\ Through' = at
    BY <2>1 DEF Through
  <2>3. inOut[at] \o todo' = req.methods[req.list[at]]
    <3>1. req.methods[req.list[at]] \in Seq(Messages \X Messages)
      BY <2>1, Where, RequestParts DEF TypeInv
    <3>2. inOut[at] = <<>>
      BY <1>1, <2>1, <2>2 DEF MethodsInTurn
    <3> QED BY <2>1, <3>1, <3>2
  <2>4. ASSUME NEW i \in 1..Len(req.list)
        PROVE  /\ i <= at /\ i # at => inOut[i] = req.methods[req.list[i]]
               /\ i > at => inOut[i] = <<>>
               /\ \A k \in DOMAIN inOut[i] : ToSet(inOut[i][k]) \subseteq known
    BY <1>1, <2>1, <2>2 DEF MethodsInTurn
  <2> QED BY <1>0, <1>1, <2>1, <2>2, <2>3, <2>4 DEF MethodsInTurn
<1>3. CASE HydrateMethod /\ ~Fail
  <2>1. /\ phase = "methods" /\ UNCHANGED <<at, phase>> /\ at \in 1..Len(req.list) /\ Live
        /\ todo \in Seq(Messages \X Messages) /\ todo # <<>> /\ todo' = Tail(todo)
        /\ inOut' = [inOut EXCEPT ![at] = Append(@, Head(todo))]
        /\ Head(todo)[1] \in known /\ Head(todo)[2] \in known
    BY <1>3, Where DEF HydrateMethod, Live, TypeInv
  <2>2. /\ inOut[at] \in Seq(Messages \X Messages)
        /\ inOut'[at] = Append(inOut[at], Head(todo))
        /\ \A i \in 1..Len(req.list) : i # at => inOut'[i] = inOut[i]
    BY <1>1, <2>1 DEF TypeInv, TypeOK
  <2>3. inOut[at] \o todo = req.methods[req.list[at]]
    BY <1>1, <2>1 DEF MethodsInTurn
  <2>4. inOut'[at] \o todo' = req.methods[req.list[at]]
    <3>1. PICK s \in Seq(Messages \X Messages), t \in Seq(Messages \X Messages) :
             s = inOut[at] /\ t = todo
      BY <2>1, <2>2
    <3>2. Append(s, Head(t)) \o Tail(t) = s \o t
      BY <2>1, <3>1, Passed
    <3> QED BY <2>1, <2>2, <2>3, <3>1, <3>2
  <2>5. ToSet(Head(todo)) \subseteq known
    <3>1. PICK p \in Messages \X Messages : p = Head(todo)
      BY <2>1
    <3>2. ToSet(p) = {p[1], p[2]}
      BY DEF ToSet
    <3> QED BY <2>1, <3>1, <3>2
  <2>6. ASSUME NEW i \in 1..Len(req.list), NEW k \in DOMAIN inOut'[i]
        PROVE  ToSet(inOut'[i][k]) \subseteq known
    <3>1. \A j \in DOMAIN inOut[i] : ToSet(inOut[i][j]) \subseteq known
      BY <1>1, <2>1 DEF MethodsInTurn
    <3>2. CASE i # at
      BY <2>2, <2>6, <3>1, <3>2
    <3>3. CASE i = at
      <4>1. (k \in DOMAIN inOut[i] /\ inOut'[i][k] = inOut[i][k]) \/ inOut'[i][k] = Head(todo)
        BY <2>1, <2>2, <2>6, <3>3, Passed
      <4> QED BY <2>5, <3>1, <4>1
    <3> QED BY <3>2, <3>3
  <2>7. Through = at /\ Through' = at
    BY <2>1 DEF Through
  <2>8. ASSUME NEW i \in 1..Len(req.list), i # at
        PROVE  /\ i <= at => inOut'[i] = req.methods[req.list[i]]
               /\ i > at => inOut'[i] = <<>>
    <3>1. /\ i <= at => inOut[i] = req.methods[req.list[i]]
          /\ i > at => inOut[i] = <<>>
      BY <1>1, <2>1, <2>7, <2>8 DEF MethodsInTurn
    <3> QED BY <2>2, <2>8, <3>1
  <2>9. ASSUME NEW i \in 1..Len(req.list)
        PROVE  /\ i <= Through' /\ ~(i = at' /\ phase' = "methods") =>
                     inOut'[i] = req.methods[req.list[i]]
               /\ i = at' /\ phase' = "methods" => inOut'[i] \o todo' = req.methods[req.list[i]]
               /\ i > Through' => inOut'[i] = <<>>
    <3>1. i = at => ~(i > at)
      BY <1>1
    <3> QED BY <2>1, <2>4, <2>7, <2>8, <3>1
  <2> HIDE DEF Through
  <2> QED BY <1>0, <1>1, <2>6, <2>9 DEF MethodsInTurn
<1>4. CASE EndMethods
  <2>1. /\ phase = "methods" /\ phase' = "types" /\ UNCHANGED <<at, inOut>>
        /\ at \in 1..Len(req.list) /\ Live /\ todo = <<>>
    BY <1>4, Where DEF EndMethods, Live
  <2>2. Through = at /\ Through' = at
    BY <2>1 DEF Through
  <2>3. inOut[at] = req.methods[req.list[at]]
    <3>1. inOut[at] \in Seq(Messages \X Messages)
      BY <1>1, <2>1 DEF TypeInv, TypeOK
    <3>2. inOut[at] \o <<>> = req.methods[req.list[at]]
      BY <1>1, <2>1 DEF MethodsInTurn
    <3> QED BY <3>1, <3>2
  <2>4. ASSUME NEW i \in 1..Len(req.list)
        PROVE  /\ i <= at => inOut[i] = req.methods[req.list[i]]
               /\ i > at => inOut[i] = <<>>
               /\ \A k \in DOMAIN inOut[i] : ToSet(inOut[i][k]) \subseteq known
    BY <1>1, <2>1, <2>2, <2>3 DEF MethodsInTurn
  <2> QED BY <1>0, <1>1, <2>1, <2>2, <2>4 DEF MethodsInTurn
<1>5. CASE UNCHANGED vars
  BY <1>0, <1>5 DEF MethodsInTurn, vars, control, files, Live, Through
<1>6. CASE ~DeclareFile /\ ~(HydrateMethod /\ ~Fail) /\ ~EndMethods /\ ~UNCHANGED vars
  <2>1. Live' => Live /\ phase # "methods" /\ phase' # "methods" /\ inOut' = inOut
                 /\ Through' = Through
    BY <1>1, <1>6 DEF Next, Live, Through, Fail, ImportUnknown, HydrateMethod, HydrateField,
       EndFile, EndFiles, HydrateExtension, EndExtensions, AssignDependents, Finish
  <2> QED BY <1>0, <2>1 DEF MethodsInTurn
<1> QED BY <1>2, <1>3, <1>4, <1>5, <1>6

-----------------------------------------------------------------------------
(* A request as protoc makes it is not refused.                                *)

\* What is visible at a file is known once that file is declared.
LEMMA VisibleIsKnown ==
  ASSUME TypeInv, FilesDeclared, Live, NEW i \in 1..Through
  PROVE  VisibleAt(i) \subseteq known /\ UpTo(i) \subseteq known /\ i \in 1..Len(req.list)
<1>1. Through \in Nat /\ Through <= Len(req.list) /\ Len(req.list) \in Nat
  BY Where DEF TypeInv, TypeOK, Through
<1>2. known = UpTo(Through) \cup VisibleAt(Through)
  BY DEF FilesDeclared
<1>3. \A j \in 1..i : j \in 1..Through
  BY <1>1
<1>4. UpTo(i) \subseteq UpTo(Through)
  BY <1>3 DEF UpTo
<1>5. VisibleAt(i) \subseteq VisibleAt(Through)
  BY <1>4 DEF VisibleAt
<1> QED BY <1>1, <1>2, <1>4, <1>5

\* What protoc promises of one file.
LEMMA WellFormedFile ==
  ASSUME TypeInv, WellFormed, NEW i \in 1..Len(req.list)
  PROVE  LET f == req.list[i]
         IN /\ req.deps[f] \subseteq UpTo(i - 1)
            /\ \A x \in AllFieldsOf(f) \cup ToSet(req.exts[f]) :
                  req.desc[x].type # "group" /\ req.desc[x].ref \in VisibleAt(i) \cup {Nobody}
            /\ \A x \in ToSet(req.exts[f]) : req.extendee[x] \in VisibleAt(i)
            /\ \A p \in ToSet(req.methods[f]) : p[1] \in VisibleAt(i) /\ p[2] \in VisibleAt(i)
            /\ \A m \in ToSet(AllMessages(f)) : \A x \in ToSet(req.fields[m]) :
                  IsMapField(x) => req.desc[x].ref \in ToSet(req.entries[m])
<1> DEFINE f == req.list[i]
<1>1. i \in DOMAIN req.list /\ f \in Files
  BY Where, RequestParts DEF TypeInv
<1>2. /\ req.deps[f] \subseteq UpTo(i - 1)
      /\ \A x \in AllFieldsOf(f) \cup ToSet(req.exts[f]) :
            req.desc[x].type # "group" /\ req.desc[x].ref \in VisibleAt(i) \cup {Nobody}
      /\ \A x \in ToSet(req.exts[f]) : req.extendee[x] \in VisibleAt(i)
      /\ \A k \in DOMAIN req.methods[f] : ToSet(req.methods[f][k]) \subseteq VisibleAt(i)
      /\ \A m \in ToSet(AllMessages(f)) : \A x \in ToSet(req.fields[m]) :
            IsMapField(x) => req.desc[x].ref \in ToSet(req.entries[m])
  BY <1>1 DEF WellFormed
<1>3. \A p \in ToSet(req.methods[f]) : p[1] \in VisibleAt(i) /\ p[2] \in VisibleAt(i)
  <2> SUFFICES ASSUME NEW p \in ToSet(req.methods[f])
               PROVE  p[1] \in VisibleAt(i) /\ p[2] \in VisibleAt(i)
    OBVIOUS
  <2>1. req.methods[f] \in Seq(Messages \X Messages)
    BY <1>1, RequestParts DEF TypeInv
  <2>2. PICK k \in DOMAIN req.methods[f] : req.methods[f][k] = p
    BY DEF ToSet
  <2>3. p \in Messages \X Messages
    BY <2>1, <2>2
  <2>4. p[1] \in ToSet(p) /\ p[2] \in ToSet(p)
    BY <2>3 DEF ToSet
  <2> QED BY <1>2, <2>2, <2>4
<1> QED BY <1>2, <1>3

\* What a field refers to can be looked up.
LEMMA FieldResolves ==
  ASSUME TypeInv, FilesDeclared, Live, WellFormed, NEW i \in 1..Through, NEW x \in Fields,
         x \in AllFieldsOf(req.list[i]) \cup ToSet(req.exts[req.list[i]])
  PROVE  Resolves(x)
<1>1. i \in 1..Len(req.list) /\ VisibleAt(i) \subseteq known
  BY VisibleIsKnown
<1>2. req.desc[x].type # "group" /\ req.desc[x].ref \in known \cup {Nobody}
  BY <1>1, WellFormedFile
<1>3. req.desc[x].type # "scalar" => req.desc[x].ref # Nobody
  <2>1. req.desc[x] \in Descriptors
    BY RequestParts DEF TypeInv
  <2> QED BY <2>1, NamesAssumption DEF Descriptors, Declared
<1> QED BY <1>2, <1>3 DEF Resolves

\* At the start nothing has failed.
LEMMA AcceptedInit ==
  ASSUME Init
  PROVE  Accepted
BY DEF Init, Accepted, Live

\* No step refuses what protoc makes, or panics over it.
LEMMA AcceptedStep ==
  ASSUME TypeInv, FilesDeclared, TypesAreMeant, FieldsInTurn, ExtensionsInTurn, Accepted,
         [Next]_vars
  PROVE  Accepted'
<1>0. req' = req
  BY RequestStays
<1>1. CASE DeclareFile
  <2>1. at' = at /\ todo' = req.methods[ThisFile] /\ phase' = "methods"
    BY <1>1 DEF DeclareFile
  <2> QED BY <1>0, <2>1 DEF Accepted, ThisFile, Live
<1>2. CASE ImportUnknown
  <2> SUFFICES ASSUME WellFormed PROVE FALSE
    BY <1>0, <1>2, SameRequest DEF Accepted, ImportUnknown, Fail
  <2>1. phase = "file" /\ at \in 1..Len(req.list) /\ ~ImportsKnown(ThisFile) /\ Live
    BY <1>2, Where DEF ImportUnknown, Live
  <2>2. req.deps[ThisFile] \subseteq UpTo(at - 1)
    BY <2>1, WellFormedFile DEF ThisFile
  <2>3. UpTo(at - 1) \subseteq known
    BY <2>1 DEF FilesDeclared, Through
  <2> QED BY <2>1, <2>2, <2>3 DEF ImportsKnown
<1>3. CASE HydrateMethod
  <2>1. phase = "methods" /\ at \in 1..Len(req.list) /\ Live /\ todo # <<>>
        /\ todo \in Seq(Messages \X Messages)
    BY <1>3, Where DEF HydrateMethod, Live, TypeInv
  <2>2. ToSet(todo) = {Head(todo)} \cup ToSet(Tail(todo))
    BY <2>1, HeadAndTail
  <2>3. ToSet(todo) \subseteq ToSet(req.methods[ThisFile])
    BY <2>1 DEF Accepted
  <2>4. CASE Fail
    <3> SUFFICES ASSUME WellFormed PROVE ~Fail
      BY <1>0, <2>4, SameRequest DEF Accepted, Fail
    <3>1. Through = at /\ at \in 1..at
      BY <2>1 DEF Through
    <3>2. VisibleAt(at) \subseteq known
      BY <2>1, <3>1, VisibleIsKnown
    <3>3. Head(todo)[1] \in known /\ Head(todo)[2] \in known
      BY <2>1, <2>2, <2>3, <3>2, WellFormedFile DEF ThisFile
    <3> QED BY <1>3, <2>1, <3>3 DEF HydrateMethod, Fail
  <2>5. CASE ~Fail
    <3>1. todo' = Tail(todo) /\ UNCHANGED <<req, at, phase>>
      BY <1>3, <2>5 DEF HydrateMethod
    <3> QED BY <1>0, <2>1, <2>2, <2>3, <3>1, SameRequest DEF Accepted, Live, ThisFile
  <2> QED BY <2>4, <2>5
<1>4. CASE HydrateField
  <2>1. phase = "types" /\ at \in 1..Len(req.list) /\ Live /\ todo # <<>> /\ todo \in Seq(Fields)
    BY <1>4, Where DEF HydrateField, Live, TypeInv
  <2>2. CASE ~Fail /\ phase' # "panicked"
    <3>1. phase' = "types"
      BY <1>4, <2>1, <2>2, FieldStep
    <3> QED BY <3>1 DEF Accepted, Live
  <2>3. CASE Fail \/ phase' = "panicked"
    <3> SUFFICES ASSUME WellFormed PROVE FALSE
      BY <1>0, <2>3, SameRequest DEF Accepted, Fail
    <3> DEFINE F == FieldsInOrder(ThisFile)
    <3>1. Through = at /\ at \in 1..at
      BY <2>1 DEF Through
    <3>2. PICK x \in Fields : x = Head(todo)
      BY <2>1, HeadAndTail
    <3>3. /\ Typed \in Nat /\ Len(F) = Typed + Len(todo) /\ Len(todo) \in Nat /\ Len(todo) >= 1
          /\ F \in Seq(Fields) /\ x = F[Typed + 1]
          /\ \A j \in 1..Typed : IsTyped(F[j])
      <4>1. F \in Seq(Fields) /\ Len(F) \in Nat
        BY <2>1, FieldsOfFile DEF ThisFile
      <4>2. Len(todo) \in Nat /\ Len(todo) >= 1 /\ DOMAIN todo = 1..Len(todo) /\ x = todo[1]
        BY <2>1, <3>2
      <4>3. Typed = Len(F) - Len(todo)
        BY DEF Typed
      <4>4. /\ Typed \in Nat
            /\ \A j \in DOMAIN todo : todo[j] = F[Typed + j]
            /\ \A j \in 1..Typed : IsTyped(F[j])
        BY <2>1 DEF FieldsInTurn
      <4> HIDE DEF F
      <4>5. 1 \in DOMAIN todo
        BY <4>2
      <4>6. x = F[Typed + 1]
        BY <4>2, <4>4, <4>5
      <4>7. Len(F) = Typed + Len(todo)
        BY <4>1, <4>2, <4>3
      <4> QED BY <4>1, <4>2, <4>4, <4>6, <4>7
    <3>4. Typed + 1 \in 1..Len(F)
      BY <3>3
    <3>5. x \in AllFieldsOf(ThisFile)
      BY <3>3, <3>4, ToSetOf DEF AllFieldsOf
    <3>6. Resolves(x)
      BY <2>1, <3>1, <3>5, FieldResolves DEF ThisFile
    <3>7. ASSUME IsMapField(x), NEW v \in {Key(x), Value(x)} PROVE HasElem(typ[v])
      <4>1. ThisFile \in Files /\ req \in Requests
        BY <2>1, Where DEF TypeInv
      <4>2. \A m \in ToSet(AllMessages(ThisFile)) : \A y \in ToSet(req.fields[m]) :
               IsMapField(y) => req.desc[y].ref \in ToSet(req.entries[m])
        BY <2>1, WellFormedFile DEF ThisFile
      <4>3. PICK j \in 1..((Typed + 1) - 1) : F[j] = v
        BY <3>3, <3>4, <3>7, <4>1, <4>2, EntryComesFirst
      <4>4. j \in 1..Typed
        BY <3>3
      <4> HIDE DEF F
      <4>5. IsTyped(v)
        BY <3>3, <4>3, <4>4
      <4>6. v \in Fields /\ ~req.desc[v].rep /\ ~IsMapField(v)
        BY <3>7, <4>1, EntryParts
      <4> QED BY <4>5, <4>6, MeantSingle DEF TypesAreMeant
    <3> QED BY <1>4, <2>1, <2>3, <3>2, <3>6, <3>7 DEF HydrateField, EntryHasTypes, Fail
  <2> QED BY <2>2, <2>3
<1>5. CASE HydrateExtension
  <2>1. phase = "extensions" /\ Live /\ todo # <<>> /\ todo \in Seq(Fields)
    BY <1>5 DEF HydrateExtension, Live, TypeInv
  <2>2. CASE ~Fail
    <3>1. phase' = "extensions"
      BY <1>5, <2>1, <2>2, ExtensionStep
    <3> QED BY <3>1 DEF Accepted, Live
  <2>3. CASE Fail
    <3> SUFFICES ASSUME WellFormed PROVE ~Fail
      BY <1>0, <2>3, SameRequest DEF Accepted, Fail
    <3>1. PICK x \in Fields : x = Head(todo)
      BY <2>1, HeadAndTail
    <3>2. x \in ToSet(pending)
      BY <2>1, <3>1, HeadAndTail DEF ExtensionsInTurn
    <3>3. PICK i \in 1..Through : x \in ToSet(req.exts[req.list[i]])
      BY <2>1, <3>2, ExtensionsAreNoMaps
    <3>4. Resolves(x)
      BY <2>1, <3>3, FieldResolves
    <3>5. req.extendee[x] \in known
      BY <2>1, <3>3, VisibleIsKnown, WellFormedFile
    <3> QED BY <1>5, <2>1, <3>1, <3>4, <3>5 DEF HydrateExtension, Fail
  <2> QED BY <2>2, <2>3
<1>6. CASE UNCHANGED vars
  BY <1>0, <1>6, SameRequest DEF vars, control, Accepted, Live, ThisFile
<1>7. CASE EndMethods \/ EndFile \/ EndFiles \/ EndExtensions \/ AssignDependents \/ Finish
  <2>1. phase' \notin {"methods", "failed", "panicked"}
    BY <1>7 DEF EndMethods, EndFile, EndFiles, EndExtensions, AssignDependents, Finish
  <2> QED BY <2>1 DEF Accepted, Live
<1> QED BY <1>1, <1>2, <1>3, <1>4, <1>5, <1>6, <1>7 DEF Next

-----------------------------------------------------------------------------
(* The theorems.                                                               *)

\* HydrationInv is inductive.
THEOREM Inductive == Spec => []HydrationInv
<1>1. Init => HydrationInv
  BY TypeInit, FilesInit, MeantInit, MethodsInit, FieldsInit, ExtensionsInit, EdgesInit, AcceptedInit
     DEF HydrationInv
<1>2. HydrationInv /\ [Next]_vars => HydrationInv'
  BY TypeStep, FilesStep, MeantStep, MethodsStep, FieldsStep, ExtensionsStep, EdgesStep,
     AcceptedStep
     DEF HydrationInv
<1> QED BY <1>1, <1>2, PTL DEF Spec

\* The types of the state: whatever is hydrated, for any request.
THEOREM TypeCorrect == Spec => []TypeOK
<1>1. HydrationInv => TypeOK
  BY DEF HydrationInv, TypeInv
<1> QED BY <1>1, Inductive, PTL

\* ProcessCodeGeneratorRequest, hydrateFile and what they call: any request as protoc
\* makes it, of whatever size, gets to the end, and what got to the end has all it
\* imports.
THEOREM Built == Spec => []WellFormedIsBuilt
<1>1. HydrationInv => WellFormedIsBuilt
  <2> SUFFICES ASSUME HydrationInv PROVE WellFormedIsBuilt
    OBVIOUS
  <2> USE DEF HydrationInv
  <2>1. WellFormed => phase \notin {"failed", "panicked"}
    BY DEF Accepted, Live
  <2>2. ASSUME phase = "done"
        PROVE  \A i \in DOMAIN req.list : req.deps[req.list[i]] \subseteq UpTo(i)
    <3>1. Through = Len(req.list) /\ Live
      BY <2>2, Where DEF Through, Live, TypeInv
    <3>2. DOMAIN req.list = 1..Len(req.list)
      BY RequestParts DEF TypeInv
    <3> QED BY <3>1, <3>2 DEF FilesDeclared
  <2> QED BY <2>1, <2>2 DEF WellFormedIsBuilt
<1> QED BY <1>1, Inductive, PTL

\* hydrateFieldType, hydrateMethod, hydrateExtension and addFile: in any finished
\* graph each field and extension has the type its descriptor says (singular,
\* repeated or a map, of a scalar, an enum or a message, with its element and key),
\* each method the messages its descriptor says, all of them in the graph;
\* extensions are with their extendee, targets and packages have the files they are
\* to have, in order.
THEOREM Wired == Spec => []GraphIsWired
<1>1. HydrationInv => GraphIsWired
  <2> SUFFICES ASSUME HydrationInv, phase = "done" PROVE GraphIsWired
    BY DEF GraphIsWired
  <2> USE DEF HydrationInv
  <2>1. Through = Len(req.list) /\ at - 1 = Len(req.list) /\ Live
    BY Where DEF Through, Live, TypeInv
  <2>2. Listed = UpTo(Len(req.list)) /\ Listed \subseteq Files
    BY UpToListed
  <2>3. ToSet(pending) = UNION {ToSet(req.exts[f]) : f \in Listed}
    BY <2>1, <2>2 DEF FilesDeclared, ExtensionsUpTo
  <2>4. ASSUME NEW f \in Listed, NEW x \in AllFieldsOf(f) \cup ToSet(req.exts[f])
        PROVE  IsTyped(x) /\ x \in Fields
    <3>1. PICK i \in 1..Len(req.list) : f = req.list[i]
      BY <2>2 DEF UpTo
    <3>2. CASE x \in AllFieldsOf(f)
      BY <2>1, <3>1, <3>2, FieldsOfFile DEF FieldsInTurn
    <3>3. CASE x \in ToSet(req.exts[f])
      <4>1. x \in ToSet(pending)
        BY <2>3, <3>3
      <4> QED BY <2>1, <4>1, ExtensionsAreNoMaps DEF ExtensionsInTurn
    <3> QED BY <3>2, <3>3
  <2>5. ASSUME NEW f \in Listed, NEW x \in AllFieldsOf(f) \cup ToSet(req.exts[f])
        PROVE  Meant(x)
    BY <2>4, <2>5 DEF TypesAreMeant
  <2>6. \A m \in Messages :
           applied[m] = {x \in UNION {ToSet(req.exts[f]) : f \in Listed} : req.extendee[x] = m}
    BY <2>3 DEF ExtensionsInTurn, ExtensionsOf
  <2>7. \A f \in req.generate : targets[f] = f <=> f \in Listed
    <3>1. req.generate \subseteq Files
      BY RequestParts DEF TypeInv
    <3> QED BY <2>1, <2>2, <3>1, NamesAssumption DEF FilesDeclared
  <2>8. \A p \in Packages : packages[p] = InPackage(p, Len(req.list))
    BY <2>1 DEF FilesDeclared
  <2>9. \A i \in DOMAIN req.list :
           /\ inOut[i] = req.methods[req.list[i]]
           /\ \A k \in DOMAIN inOut[i] : ToSet(inOut[i][k]) \subseteq known
    <3>1. DOMAIN req.list = 1..Len(req.list) /\ Len(req.list) \in Nat
      BY RequestParts DEF TypeInv
    <3> QED BY <2>1, <3>1 DEF MethodsInTurn
  <2> QED BY <2>5, <2>6, <2>7, <2>8, <2>9 DEF GraphIsWired
<1> QED BY <1>1, Inductive, PTL

\* assignDependent, addDependent and addDependency: in any finished graph dependents
\* and dependencies are exactly what the fields say, in both directions, and so are
\* imports and the dependents of files.
THEOREM Edges == Spec => []EdgesAreInverse
<1>1. HydrationInv => EdgesAreInverse
  <2> SUFFICES ASSUME HydrationInv, phase = "done" PROVE EdgesAreInverse
    BY DEF EdgesAreInverse
  <2> USE DEF HydrationInv
  <2>1. Through = Len(req.list) /\ Live
    BY Where DEF Through, Live, TypeInv
  <2>2. Listed = UpTo(Len(req.list)) /\ Listed \subseteq Files
    BY UpToListed
  <2>3. \A f, g \in Listed : f \in importedBy[g] <=> g \in req.deps[f]
    BY <2>1, <2>2 DEF FilesDeclared
  <2>4. ASSUME req.bidi, NEW f \in Listed, NEW m \in ToSet(AllMessages(f)), NEW d \in Declared
        PROVE  /\ m \in usedBy[d] <=> \E x \in ToSet(req.fields[m]) : RefOf(x) = d
               /\ d \in Messages => (m \in usedBy[d] <=> d \in uses[m])
    <3>1. m \in Messages
      BY <2>2, <2>4, MessagesType, ToSetOf DEF TypeInv
    <3>2. m \in usedBy[d] <=> Refers(m, d)
      BY <2>4, <3>1 DEF EdgesInTurn
    <3> QED BY <3>1, <3>2 DEF EdgesInTurn, Refers
  <2> QED BY <2>3, <2>4 DEF EdgesAreInverse
<1> QED BY <1>1, Inductive, PTL
=============================================================================
