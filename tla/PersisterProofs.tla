--------------------------- MODULE PersisterProofs ---------------------------
(***************************************************************************)
(* Theorems about Persister, for every value of its constants: its own     *)
(* properties, and then that its chunks implement the files of             *)
(* ResponseFiles (PersisterRefinement).                                    *)
(***************************************************************************)
EXTENDS PersisterRefinement, SequenceLemmas

-----------------------------------------------------------------------------
(* insertAppend's splice after position t, element by element.             *)
LEMMA SpliceElements ==
    ASSUME NEW S, NEW s \in Seq(S), NEW c \in S, NEW t \in 1..Len(s)
    PROVE  /\ InsertAt(s, t + 1, c) \in Seq(S)
           /\ Len(InsertAt(s, t + 1, c)) = Len(s) + 1
           /\ \A i \in 1..t : InsertAt(s, t + 1, c)[i] = s[i]
           /\ InsertAt(s, t + 1, c)[t + 1] = c
           /\ \A i \in (t + 2)..(Len(s) + 1) :
                 InsertAt(s, t + 1, c)[i] = s[i - 1]
<1> DEFINE front == SubSeq(s, 1, t)
           fc    == front \o <<c>>
           back  == SubSeq(s, t + 1, Len(s))
           r     == InsertAt(s, t + 1, c)
<1>0. Len(s) \in Nat /\ t \in Nat /\ t <= Len(s)
  BY LenProperties
<1>1. /\ front \in Seq(S) /\ Len(front) = t
      /\ \A i \in 1..t : front[i] = s[i]
  <2>1. \A i \in 1..t : s[i] \in S
    BY <1>0, ElementOfSeq
  <2>2. QED
    BY <1>0, <2>1, SubSeqProperties
<1>2. /\ back \in Seq(S) /\ Len(back) = Len(s) - t
      /\ \A i \in 1..(Len(s) - t) : back[i] = s[t + i]
  <2>1. \A i \in (t + 1)..Len(s) : s[i] \in S
    BY <1>0, ElementOfSeq
  <2>2. QED
    BY <1>0, <2>1, SubSeqProperties
<1>3. r = fc \o back
  <2>1. (t + 1) - 1 = t
    BY <1>0
  <2>2. QED
    BY <2>1, Zenon DEF InsertAt
<1> HIDE DEF front, back, r
<1>4. /\ fc \in Seq(S) /\ Len(fc) = t + 1
      /\ \A i \in 1..(t + 1) : fc[i] = IF i <= t THEN front[i] ELSE c
  BY <1>0, <1>1
<1> HIDE DEF fc
<1>5. /\ r \in Seq(S) /\ Len(r) = Len(s) + 1
      /\ \A i \in 1..(Len(s) + 1) :
            r[i] = IF i <= t + 1 THEN fc[i] ELSE back[i - (t + 1)]
  <2>1. /\ r \in Seq(S) /\ Len(r) = Len(fc) + Len(back)
        /\ \A i \in 1..(Len(fc) + Len(back)) :
              r[i] = IF i <= Len(fc) THEN fc[i] ELSE back[i - Len(fc)]
    BY <1>2, <1>3, <1>4, ConcatProperties, Zenon
  <2>2. QED
    BY <1>0, <1>2, <1>4, <2>1
<1>6. \A i \in 1..t : r[i] = s[i]
  BY <1>0, <1>1, <1>4, <1>5
<1>7. r[t + 1] = c
  BY <1>0, <1>4, <1>5
<1>8. ASSUME NEW i \in (t + 2)..(Len(s) + 1)
      PROVE  r[i] = s[i - 1]
  <2>1. /\ i \in 1..(Len(s) + 1) /\ ~(i <= t + 1)
        /\ i - (t + 1) \in 1..(Len(s) - t) /\ t + (i - (t + 1)) = i - 1
    BY <1>0
  <2>2. r[i] = back[i - (t + 1)] /\ back[i - (t + 1)] = s[t + (i - (t + 1))]
    BY <1>2, <1>5, <2>1
  <2>3. QED
    BY <2>1, <2>2
<1>9. QED
  BY <1>5, <1>6, <1>7, <1>8, Zenon DEF r
-----------------------------------------------------------------------------
(* Every artifact is of its type, and its chunk is one of Chunks.          *)
LEMMA ChunkType ==
    ASSUME TypeOK, NEW a \in Artifacts, Len(done) < MaxArtifacts,
           a.kind \in GeneratorKinds, CleanName[a.name] # Refused
    PROVE  Chunk(a) \in Chunks
<1>1. a \in ArtifactType
  BY ArtifactsAssumption
<1>2. a.name \in Raw /\ a.overwrite \in BOOLEAN
  BY <1>1 DEF ArtifactType, GeneratorKinds, CustomKinds, FileKinds,
              AppendKinds, InjectKinds
<1>3. CleanName[a.name] \in Names
  BY <1>2, NamesAssumption
<1>4. ThisId \in 0..MaxArtifacts
  BY BoundAssumption, LenProperties DEF TypeOK, ThisId
<1>5. Content(a) \in Bodies
  BY <1>4 DEF Content, Bodies, Kinds
<1>6. QED
  BY <1>2, <1>3, <1>5 DEF Chunk, Chunks

\* The content of an artifact, of its identifier and of its kind.
LEMMA ContentType ==
    ASSUME TypeOK, NEW a \in Artifacts, Handling(a)
    PROVE  /\ done' \in Seq(Artifacts) /\ Len(done') = Len(done) + 1
           /\ \A k \in 1..Len(done) : done'[k] = done[k]
           /\ done'[ThisId] = a
           /\ Len(done') <= MaxArtifacts
           /\ ThisId \in 1..MaxArtifacts
           /\ Content(a) \in Bodies
           /\ [id |-> ThisId, procs |-> <<>>] \in Bodies
           /\ before' = before
<1>1. Len(done) \in Nat /\ Len(done) < MaxArtifacts /\ done \in Seq(Artifacts)
  BY LenProperties DEF TypeOK, Handling
<1>2. ThisId \in 1..MaxArtifacts
  BY <1>1, BoundAssumption DEF ThisId
<1>3. a.kind \in Kinds
  BY ArtifactsAssumption DEF ArtifactType, Kinds
<1>4. /\ Content(a) \in Bodies
      /\ [id |-> ThisId, procs |-> <<>>] \in Bodies
  BY <1>2, <1>3 DEF Content, Bodies
<1>5. QED
  BY <1>1, <1>2, <1>4 DEF Handling, ThisId

\* TypeOK is inductive: the types of the state hold in every reachable state.
THEOREM TypeCorrect == Spec => []TypeOK
<1>1. Init => TypeOK
  <2> SUFFICES ASSUME Init PROVE TypeOK
    OBVIOUS
  <2>1. [id |-> 0, procs |-> <<>>] \in Bodies
    BY BoundAssumption DEF Bodies
  <2>2. QED
    BY <2>1, BoundAssumption DEF Init, TypeOK
<1>2. TypeOK /\ [Next]_vars => TypeOK'
  <2> SUFFICES ASSUME TypeOK, [Next]_vars
               PROVE  TypeOK'
    OBVIOUS
  <2>1. ASSUME NEW a \in Artifacts, ReplaceFile(a)
        PROVE  TypeOK'
    <3>1. Chunk(a) \in Chunks
      BY <2>1, ChunkType DEF ReplaceFile, Handling, GeneratorKinds
    <3>2. chunks' \in Seq(Chunks)
      BY <2>1, <3>1 DEF ReplaceFile, TypeOK
    <3>3. QED
      BY <2>1, <3>2, ContentType DEF ReplaceFile, TypeOK
  <2>2. ASSUME NEW a \in Artifacts, AddFile(a)
        PROVE  TypeOK'
    <3>1. Chunk(a) \in Chunks
      BY <2>2, ChunkType DEF AddFile, Handling, GeneratorKinds
    <3>2. QED
      BY <2>2, <3>1, ContentType DEF AddFile, TypeOK
  <2>3. ASSUME NEW a \in Artifacts, AppendToFile(a)
        PROVE  TypeOK'
    <3>1. Chunk(a) \in Chunks
      BY <2>3, ChunkType DEF AppendToFile, Handling, GeneratorKinds
    <3>2. chunks' \in Seq(Chunks)
      BY <2>3, <3>1, SpliceElements DEF AppendToFile, TypeOK
    <3>3. QED
      BY <2>3, <3>2, ContentType DEF AppendToFile, TypeOK
  <2>4. ASSUME NEW a \in Artifacts, WriteCustom(a)
        PROVE  TypeOK'
    BY <2>4, ContentType DEF WriteCustom, TypeOK
  <2>5. ASSUME NEW a \in Artifacts, RecordError(a)
        PROVE  TypeOK'
    BY <2>5, ContentType DEF RecordError, TypeOK
  <2>6. ASSUME NEW a \in Artifacts, Exit(a)
        PROVE  TypeOK'
    BY <2>6, ContentType DEF Exit, TypeOK
  <2>7. ASSUME NEW a \in Artifacts, ExitOnDisk(a)
        PROVE  TypeOK'
    BY <2>7, ContentType DEF ExitOnDisk, TypeOK
  <2>8. CASE Return
    BY <2>8 DEF Return, TypeOK
  <2>9. CASE UNCHANGED vars
    BY <2>9 DEF vars, TypeOK
  <2>10. QED
    BY <2>1, <2>2, <2>3, <2>4, <2>5, <2>6, <2>7, <2>8, <2>9
       DEF Next, Handle
<1>3. QED
  BY <1>1, <1>2, PTL DEF Spec
-----------------------------------------------------------------------------
(* The inductive invariant, action by action.                              *)

\* A step that handles an artifact leaves what was accepted accepted.
LEMMA AcceptedGrows ==
    ASSUME IndInv, NEW a \in Artifacts, Handling(a)
    PROVE  /\ Accepted = DOMAIN done
           /\ DOMAIN done \subseteq Accepted'
           /\ status' # "exited" => ThisId \in Accepted'
           /\ Accepted' \subseteq DOMAIN done \cup {ThisId}
           /\ status' = "exited" => Accepted' = DOMAIN done
           /\ Len(done) \in Nat /\ DOMAIN done = 1..Len(done)
           /\ ThisId = Len(done) + 1 /\ done'[ThisId] = a
           /\ \A m \in DOMAIN done : done'[m] = done[m]
<1>1. /\ Len(done) \in Nat /\ DOMAIN done = 1..Len(done)
      /\ status = "persisting"
  BY LenProperties DEF IndInv, TypeOK, Handling
<1>2. /\ done' \in Seq(Artifacts) /\ Len(done') = Len(done) + 1
      /\ \A k \in 1..Len(done) : done'[k] = done[k]
      /\ done'[ThisId] = a
  BY ContentType DEF IndInv
<1>3. DOMAIN done' = 1..(Len(done) + 1)
  BY <1>2
<1>4. ThisId = Len(done) + 1
  BY DEF ThisId
<1>5. Accepted = DOMAIN done
  BY <1>1 DEF Accepted
<1>6. Accepted' = {k \in 1..(Len(done) + 1) :
                     status' = "exited" => k < Len(done) + 1}
  BY <1>2, <1>3 DEF Accepted
<1>7. QED
  BY <1>1, <1>2, <1>4, <1>5, <1>6

\* The new chunk has the origin it should have.
LEMMA ChunkHasOrigin ==
    ASSUME IndInv, NEW a \in Artifacts, Handling(a),
           a.kind \in GeneratorKinds, CleanName[a.name] # Refused
    PROVE  /\ Chunk(a) \in Chunks
           /\ Chunk(a).body.id = ThisId
           /\ Chunk(a).owner = CleanName[a.name]
           /\ Chunk(a).owner # NoName
           /\ Chunk(a).name = IF a.kind \in AppendKinds THEN NoName
                              ELSE Chunk(a).owner
           /\ Chunk(a).ins <=> a.kind \in InjectKinds
           /\ Chunk(a).over <=> a.kind \in FileKinds /\ a.overwrite
           /\ a.overwrite \in BOOLEAN
<1>1. Chunk(a) \in Chunks
  BY ChunkType DEF IndInv, Handling
<1>2. Chunk(a).owner \in Names /\ NoName \notin Names
  BY <1>1, NamesAssumption DEF Chunks
<1>3. a.overwrite \in BOOLEAN
  BY ArtifactsAssumption
     DEF ArtifactType, GeneratorKinds, FileKinds, AppendKinds, InjectKinds
<1>4. QED
  BY <1>1, <1>2, <1>3 DEF Chunk, Content

\* ChunkOrigin holds of the new list when it holds the old chunks and the new
\* one, which is that of the artifact at hand.
LEMMA OriginPreserved ==
    ASSUME IndInv, NEW a \in Artifacts, Handling(a), status' = status,
           a.kind \in GeneratorKinds, CleanName[a.name] # Refused,
           \A i \in DOMAIN chunks' : \/ chunks'[i] = Chunk(a)
                                    \/ \E k \in DOMAIN chunks :
                                          chunks'[i] = chunks[k]
    PROVE  ChunkOrigin'
<1> SUFFICES ASSUME NEW i \in DOMAIN chunks'
             PROVE  LET c == chunks'[i]
                        k == c.body.id
                    IN /\ k \in Accepted'
                       /\ done'[k].kind \in GeneratorKinds
                       /\ c.owner = CleanName[done'[k].name]
                       /\ c.name = IF done'[k].kind \in AppendKinds
                                   THEN NoName ELSE c.owner
                       /\ c.ins <=> done'[k].kind \in InjectKinds
  BY DEF ChunkOrigin
<1>1. CASE chunks'[i] = Chunk(a)
  <2>1. ThisId \in Accepted' /\ done'[ThisId] = a
    BY AcceptedGrows DEF Handling
  <2>2. QED
    BY <1>1, <2>1, ChunkHasOrigin
<1>2. CASE \E k \in DOMAIN chunks : chunks'[i] = chunks[k]
  <2>1. PICK k \in DOMAIN chunks : chunks'[i] = chunks[k]
    BY <1>2
  <2>2. /\ chunks[k].body.id \in 1..Len(done)
        /\ done'[chunks[k].body.id] = done[chunks[k].body.id]
    BY ContentType, AcceptedGrows DEF IndInv, ChunkOrigin, TypeOK
  <2>3. QED
    BY <2>1, <2>2, AcceptedGrows DEF IndInv, ChunkOrigin
<1>3. QED
  BY <1>1, <1>2

\* An artifact that is no append leaves AppendsHaveTarget alone.
LEMMA TargetsKept ==
    ASSUME IndInv, NEW a \in Artifacts, Handling(a),
           \/ a.kind \notin AppendKinds
           \/ status' = "exited"
           \/ CleanName[a.name] # Refused /\ HasFile(CleanName[a.name])
    PROVE  AppendsHaveTarget'
<1> SUFFICES ASSUME NEW k \in Accepted', done'[k].kind \in AppendKinds
             PROVE  \E m \in Accepted' :
                       /\ m < k
                       /\ done'[m].kind \in FileKinds
                       /\ CleanName[done'[m].name] = CleanName[done'[k].name]
  BY DEF AppendsHaveTarget
<1>0. /\ Len(done) \in Nat /\ DOMAIN done = 1..Len(done)
      /\ ThisId = Len(done) + 1
      /\ \A m \in DOMAIN done : done'[m] = done[m] /\ m \in Accepted'
      /\ Accepted = DOMAIN done
  BY AcceptedGrows
<1>1. CASE k \in DOMAIN done
  <2>1. PICK m \in DOMAIN done :
           /\ m < k
           /\ done[m].kind \in FileKinds
           /\ CleanName[done[m].name] = CleanName[done[k].name]
    BY <1>0, <1>1 DEF IndInv, AppendsHaveTarget
  <2>2. QED
    BY <1>0, <1>1, <2>1
<1>2. CASE k = ThisId /\ k \notin DOMAIN done
  <2>1. done'[k] = a /\ status' # "exited"
    BY <1>2, ContentType, AcceptedGrows DEF IndInv
  <2>2. PICK i \in DOMAIN chunks : IsFileOf(chunks[i], CleanName[a.name])
    BY <2>1, AcceptedGrows, <1>2 DEF HasFile
  <2>3. DEFINE m == chunks[i].body.id
  <2>4. /\ m \in DOMAIN done /\ done[m].kind \in GeneratorKinds
        /\ chunks[i].owner = CleanName[done[m].name]
        /\ chunks[i].name = IF done[m].kind \in AppendKinds THEN NoName
                            ELSE chunks[i].owner
        /\ done[m].kind \notin InjectKinds
    BY <2>2, AcceptedGrows DEF IndInv, ChunkOrigin, IsFileOf
  <2>5. CleanName[a.name] # NoName
    <3>1. a.name \in Raw
      BY <2>1, ArtifactsAssumption
         DEF ArtifactType, AppendKinds, CustomKinds
    <3>2. QED
      BY <3>1, <2>1, <1>2, AcceptedGrows, NamesAssumption
  <2>6. done[m].kind \in FileKinds /\ CleanName[done[m].name] = CleanName[a.name]
    BY <2>2, <2>4, <2>5 DEF IsFileOf, GeneratorKinds
  <2>7. m < k /\ m \in Accepted' /\ done'[m] = done[m]
    BY <1>0, <1>2, <2>4
  <2>8. QED
    BY <2>1, <2>6, <2>7
<1>3. QED
  BY <1>1, <1>2, AcceptedGrows

-----------------------------------------------------------------------------
(* insertFile and insertAppend keep appends in their file, and in order.   *)

PlacementInv == AppendsInPlace /\ AppendsInOrder /\ OverwriteIsNoDuplicate

\* insertFile at the end, and an injection: the new chunk has a name of its own,
\* so that nothing changes its file.
LEMMA AddFileKeepsPlaces ==
    ASSUME IndInv, NEW a \in Artifacts, AddFile(a)
    PROVE  ChunkOrigin' /\ PlacementInv'
<1> DEFINE c == Chunk(a)
           n == CleanName[a.name]
<1>1. /\ c \in Chunks /\ c.body.id = ThisId /\ c.name = n /\ n # NoName
      /\ c.over => a.kind \in FileKinds /\ a.overwrite
  BY ChunkHasOrigin DEF AddFile, GeneratorKinds, FileKinds, InjectKinds,
                        AppendKinds
<1> HIDE DEF c
<1>2. /\ Len(chunks) \in Nat /\ DOMAIN chunks = 1..Len(chunks)
      /\ chunks \in Seq(Chunks)
  BY LenProperties DEF IndInv, TypeOK
<1>3. /\ DOMAIN chunks' = 1..(Len(chunks) + 1)
      /\ \A i \in 1..Len(chunks) : chunks'[i] = chunks[i]
      /\ chunks'[Len(chunks) + 1] = c
  BY <1>1, <1>2 DEF AddFile, c
<1>4. ChunkOrigin'
  <2>1. \A i \in DOMAIN chunks' : \/ chunks'[i] = Chunk(a)
                                 \/ \E k \in DOMAIN chunks : chunks'[i] = chunks[k]
    BY <1>2, <1>3 DEF c
  <2>2. QED
    BY <2>1, OriginPreserved DEF AddFile, Handling, GeneratorKinds
<1>5. ASSUME NEW i \in DOMAIN chunks', NEW j \in DOMAIN chunks',
             Continues(j, i)', i < j
      PROVE  i \in DOMAIN chunks /\ j \in DOMAIN chunks /\ Continues(j, i)
  BY <1>1, <1>2, <1>3, <1>5 DEF Continues
<1>6. AppendsInPlace'
  <2>1. chunks' # <<>> => chunks'[1].name # NoName
    BY <1>1, <1>2, <1>3 DEF IndInv, AppendsInPlace
  <2>2. ASSUME NEW i \in DOMAIN chunks', NEW j \in DOMAIN chunks', Continues(j, i)'
        PROVE  /\ chunks'[i].owner = chunks'[j].owner
               /\ i < j => ~chunks'[i].ins
    <3>1. CASE i < j
      BY <1>2, <1>3, <1>5, <2>2, <3>1 DEF IndInv, AppendsInPlace
    <3>2. CASE ~(i < j)
      BY <1>3, <1>2, <2>2, <3>2 DEF Continues
    <3>3. QED
      BY <3>1, <3>2
  <2>3. QED
    BY <2>1, <2>2 DEF AppendsInPlace
<1>7. AppendsInOrder'
  BY <1>2, <1>3, <1>5 DEF IndInv, AppendsInOrder
<1>8. OverwriteIsNoDuplicate'
  <2> SUFFICES ASSUME NEW m \in Names, NEW i \in DOMAIN chunks',
                      NEW j \in DOMAIN chunks', i < j,
                      IsFileOf(chunks'[i], m), IsFileOf(chunks'[j], m)
               PROVE  ~chunks'[j].over
    BY DEF OverwriteIsNoDuplicate
  <2>1. CASE j \in 1..Len(chunks)
    BY <1>2, <1>3, <2>1 DEF IndInv, OverwriteIsNoDuplicate
  <2>2. CASE j = Len(chunks) + 1
    <3>1. i \in DOMAIN chunks /\ IsFileOf(chunks[i], m) /\ m = n
      BY <1>1, <1>2, <1>3, <2>2 DEF IsFileOf
    <3>2. HasFile(n)
      BY <3>1 DEF HasFile
    <3>3. QED
      BY <1>1, <1>3, <2>2, <3>2 DEF AddFile
  <2>3. QED
    BY <1>2, <1>3, <2>1, <2>2
<1>9. QED
  BY <1>4, <1>6, <1>7, <1>8 DEF PlacementInv

\* insertFile with overwrite: the new chunk starts what the old one did.
LEMMA ReplaceFileReplaces ==
    ASSUME IndInv, NEW a \in Artifacts, ReplaceFile(a), Chunk(a) \in Chunks,
           Chunk(a).name = CleanName[a.name], Chunk(a).owner = CleanName[a.name],
           CleanName[a.name] # NoName, ~Chunk(a).ins
    PROVE  \E h \in DOMAIN chunks :
              /\ IsIndexOfFile(h, CleanName[a.name])
              /\ DOMAIN chunks' = DOMAIN chunks
              /\ chunks'[h] = Chunk(a)
              /\ \A i \in DOMAIN chunks : i # h => chunks'[i] = chunks[i]
              /\ chunks[h].name = CleanName[a.name] /\ ~chunks[h].ins
              /\ \A i \in DOMAIN chunks : /\ chunks'[i].name = chunks[i].name
                                          /\ chunks'[i].ins = chunks[i].ins
                                          /\ chunks'[i].owner = chunks[i].owner
<1> DEFINE c == Chunk(a)
           n == CleanName[a.name]
<1>1. /\ c \in Chunks /\ c.name = n /\ n # NoName /\ c.owner = n /\ ~c.ins
  OBVIOUS
<1> HIDE DEF c
<1>2. /\ Len(chunks) \in Nat /\ DOMAIN chunks = 1..Len(chunks)
      /\ chunks \in Seq(Chunks)
  BY LenProperties DEF IndInv, TypeOK
<1>3. PICK h \in DOMAIN chunks : /\ IsIndexOfFile(h, n)
                                 /\ chunks' = [chunks EXCEPT ![h] = c]
  BY DEF ReplaceFile, c
<1>4. /\ DOMAIN chunks' = DOMAIN chunks
      /\ chunks'[h] = c
      /\ \A i \in DOMAIN chunks : i # h => chunks'[i] = chunks[i]
  BY <1>1, <1>2, <1>3
<1>5. chunks[h].name = n /\ ~chunks[h].ins /\ chunks[h].owner = n
  BY <1>1, <1>3 DEF IsIndexOfFile, IsFileOf, IndInv, ChunkOrigin
<1>6. \A i \in DOMAIN chunks : /\ chunks'[i].name = chunks[i].name
                              /\ chunks'[i].ins = chunks[i].ins
                              /\ chunks'[i].owner = chunks[i].owner
  <2>1. c.ins = chunks[h].ins
    <3>1. c.ins \in BOOLEAN
      BY <1>1 DEF Chunks
    <3>2. chunks[h] \in Chunks
      BY <1>2
    <3>3. chunks[h].ins \in BOOLEAN
      BY <3>2 DEF Chunks
    <3>4. QED
      BY <1>1, <1>5, <3>1, <3>3, Zenon
  <2>2. QED
    BY <1>1, <1>4, <1>5, <2>1
<1>7. QED
  BY <1>3, <1>4, <1>5, <1>6 DEF c

\* insertFile with overwrite: the new chunk has the name of the one it
\* replaces, so that every chunk stays in its file.
LEMMA ReplaceFileKeepsPlaces ==
    ASSUME IndInv, NEW a \in Artifacts, ReplaceFile(a)
    PROVE  ChunkOrigin' /\ PlacementInv'
<1> DEFINE c == Chunk(a)
           n == CleanName[a.name]
<1>1. /\ c \in Chunks /\ c.name = n /\ n # NoName /\ c.owner = n /\ ~c.ins
  BY ChunkHasOrigin DEF ReplaceFile, GeneratorKinds, FileKinds, InjectKinds,
                        AppendKinds, Chunks
<1> HIDE DEF c
<1>2. /\ Len(chunks) \in Nat /\ DOMAIN chunks = 1..Len(chunks)
      /\ chunks \in Seq(Chunks)
  BY LenProperties DEF IndInv, TypeOK
<1>3. PICK h \in DOMAIN chunks :
         /\ IsIndexOfFile(h, n)
         /\ DOMAIN chunks' = DOMAIN chunks
         /\ chunks'[h] = c
         /\ \A i \in DOMAIN chunks : i # h => chunks'[i] = chunks[i]
         /\ chunks[h].name = n /\ ~chunks[h].ins
         /\ \A i \in DOMAIN chunks : /\ chunks'[i].name = chunks[i].name
                                     /\ chunks'[i].ins = chunks[i].ins
                                     /\ chunks'[i].owner = chunks[i].owner
  BY <1>1, ReplaceFileReplaces DEF c
<1>4. /\ DOMAIN chunks' = DOMAIN chunks
      /\ chunks'[h] = c
      /\ \A i \in DOMAIN chunks : i # h => chunks'[i] = chunks[i]
      /\ chunks[h].name = n /\ ~chunks[h].ins
  BY <1>3
<1>6. \A i \in DOMAIN chunks : /\ chunks'[i].name = chunks[i].name
                              /\ chunks'[i].ins = chunks[i].ins
                              /\ chunks'[i].owner = chunks[i].owner
  BY <1>3
<1>7. ChunkOrigin'
  <2>1. \A i \in DOMAIN chunks' : \/ chunks'[i] = Chunk(a)
                                 \/ \E k \in DOMAIN chunks : chunks'[i] = chunks[k]
    BY <1>4 DEF c
  <2>2. QED
    BY <2>1, OriginPreserved DEF ReplaceFile, Handling, GeneratorKinds
<1>8. \A i, j \in DOMAIN chunks : Continues(j, i)' <=> Continues(j, i)
  BY <1>2, <1>4, <1>6 DEF Continues
<1>9. AppendsInPlace'
  <2>1. chunks' # <<>> => chunks'[1].name # NoName
    BY <1>2, <1>4, <1>6 DEF IndInv, AppendsInPlace
  <2>2. QED
    BY <1>4, <1>6, <1>8, <2>1 DEF IndInv, AppendsInPlace
<1>10. AppendsInOrder'
  <2> SUFFICES ASSUME NEW i \in DOMAIN chunks', NEW j \in DOMAIN chunks',
                      Continues(j, i)', i < j, chunks'[i].name = NoName
               PROVE  chunks'[i].body.id < chunks'[j].body.id
    BY DEF AppendsInOrder
  <2>1. i # h /\ j # h
    BY <1>1, <1>2, <1>4 DEF Continues
  <2>2. QED
    BY <1>4, <1>8, <2>1 DEF IndInv, AppendsInOrder
<1>11. OverwriteIsNoDuplicate'
  <2> SUFFICES ASSUME NEW m \in Names, NEW i \in DOMAIN chunks',
                      NEW j \in DOMAIN chunks', i < j,
                      IsFileOf(chunks'[i], m), IsFileOf(chunks'[j], m)
               PROVE  ~chunks'[j].over
    BY DEF OverwriteIsNoDuplicate
  <2>1. IsFileOf(chunks[i], m) /\ IsFileOf(chunks[j], m)
    BY <1>4, <1>6 DEF IsFileOf
  <2>2. CASE j = h
    <3>1. m = n /\ i \in 1..(h - 1)
      BY <1>2, <1>4, <2>1, <2>2 DEF IsFileOf
    <3>2. QED
      BY <1>3, <2>1, <3>1 DEF IsIndexOfFile
  <2>3. CASE j # h
    BY <1>4, <2>1, <2>3 DEF IndInv, OverwriteIsNoDuplicate
  <2>4. QED
    BY <2>2, <2>3
<1>12. QED
  BY <1>7, <1>9, <1>10, <1>11 DEF PlacementInv

\* insertAppend: the new chunk is behind the tail of the first file of its name.
LEMMA AppendSplices ==
    ASSUME IndInv, NEW a \in Artifacts, AppendToFile(a), Chunk(a) \in Chunks
    PROVE  \E h, t \in DOMAIN chunks :
              /\ IsIndexOfFile(h, CleanName[a.name])
              /\ IsTailFrom(t, h)
              /\ DOMAIN chunks' = 1..(Len(chunks) + 1)
              /\ \A i \in 1..t : chunks'[i] = chunks[i]
              /\ chunks'[t + 1] = Chunk(a)
              /\ \A i \in (t + 2)..(Len(chunks) + 1) : chunks'[i] = chunks[i - 1]
<1> DEFINE c == Chunk(a)
           n == CleanName[a.name]
<1> HIDE DEF c
<1>1. c \in Chunks
  BY DEF c
<1>2. /\ Len(chunks) \in Nat /\ DOMAIN chunks = 1..Len(chunks)
      /\ chunks \in Seq(Chunks)
  BY LenProperties DEF IndInv, TypeOK
<1>3. PICK h \in DOMAIN chunks, t \in DOMAIN chunks :
         /\ IsIndexOfFile(h, n)
         /\ IsTailFrom(t, h)
         /\ chunks' = InsertAt(chunks, t + 1, c)
  BY DEF AppendToFile, c
<1>4. /\ DOMAIN chunks' = 1..(Len(chunks) + 1)
      /\ \A i \in 1..t : chunks'[i] = chunks[i]
      /\ chunks'[t + 1] = c
      /\ \A i \in (t + 2)..(Len(chunks) + 1) : chunks'[i] = chunks[i - 1]
  <2>1. t \in 1..Len(chunks)
    BY <1>2
  <2> DEFINE r == InsertAt(chunks, t + 1, c)
  <2>2. /\ r \in Seq(Chunks) /\ Len(r) = Len(chunks) + 1
        /\ \A i \in 1..t : r[i] = chunks[i]
        /\ r[t + 1] = c
        /\ \A i \in (t + 2)..(Len(chunks) + 1) : r[i] = chunks[i - 1]
    <3>1. ASSUME NEW s \in Seq(Chunks), NEW d \in Chunks, NEW u \in 1..Len(s)
          PROVE  /\ InsertAt(s, u + 1, d) \in Seq(Chunks)
                 /\ Len(InsertAt(s, u + 1, d)) = Len(s) + 1
                 /\ \A i \in 1..u : InsertAt(s, u + 1, d)[i] = s[i]
                 /\ InsertAt(s, u + 1, d)[u + 1] = d
                 /\ \A i \in (u + 2)..(Len(s) + 1) :
                       InsertAt(s, u + 1, d)[i] = s[i - 1]
      BY SpliceElements
    <3>2. QED
      BY <1>1, <1>2, <2>1, <3>1, ZenonT(30)
  <2>3. chunks' = r
    BY <1>3
  <2> HIDE DEF r
  <2>4. QED
    BY <1>2, <2>2, <2>3
<1>5. QED
  BY <1>3, <1>4 DEF c

\* insertAppend: the splice keeps every chunk in its file and puts the new one
\* behind the appends that its file has already.
LEMMA AppendKeepsPlaces ==
    ASSUME IndInv, NEW a \in Artifacts, AppendToFile(a)
    PROVE  ChunkOrigin' /\ PlacementInv'
<1> DEFINE c == Chunk(a)
           n == CleanName[a.name]
<1>1. /\ c \in Chunks /\ c.body.id = ThisId /\ c.name = NoName
      /\ n # NoName /\ c.owner = n
  BY ChunkHasOrigin DEF AppendToFile, GeneratorKinds
<1> HIDE DEF c
<1>2. /\ Len(chunks) \in Nat /\ DOMAIN chunks = 1..Len(chunks)
      /\ chunks \in Seq(Chunks)
  BY LenProperties DEF IndInv, TypeOK
<1>3. PICK h \in DOMAIN chunks, t \in DOMAIN chunks :
         /\ IsIndexOfFile(h, n)
         /\ IsTailFrom(t, h)
         /\ DOMAIN chunks' = 1..(Len(chunks) + 1)
         /\ \A i \in 1..t : chunks'[i] = chunks[i]
         /\ chunks'[t + 1] = c
         /\ \A i \in (t + 2)..(Len(chunks) + 1) : chunks'[i] = chunks[i - 1]
  BY <1>1, AppendSplices DEF c
<1>4. /\ DOMAIN chunks' = 1..(Len(chunks) + 1)
      /\ \A i \in 1..t : chunks'[i] = chunks[i]
      /\ chunks'[t + 1] = c
      /\ \A i \in (t + 2)..(Len(chunks) + 1) : chunks'[i] = chunks[i - 1]
  BY <1>3
<1>5. /\ h <= t
      /\ Continues(t, h)
      /\ t < Len(chunks) => chunks'[t + 2].name # NoName
  BY <1>2, <1>3, <1>4 DEF IsTailFrom, Continues
\* The chunk before the new one belongs to the file, and starts or continues it.
<1>6. chunks[t].owner = n /\ ~chunks[t].ins /\ chunks[h].name = n
  <2>1. chunks[h].name = n /\ ~chunks[h].ins /\ chunks[h].owner = n
    BY <1>1, <1>3 DEF IsIndexOfFile, IsFileOf, IndInv, ChunkOrigin
  <2>2. chunks[t].owner = n
    BY <1>5, <2>1 DEF IndInv, AppendsInPlace
  <2>3. CASE t = h
    BY <2>1, <2>2, <2>3
  <2>4. CASE t # h
    <3>1. chunks[t].name = NoName
      BY <1>2, <1>5, <2>4 DEF Continues
    <3>2. /\ chunks[t].owner # NoName
          /\ chunks[t].name = IF done[chunks[t].body.id].kind \in AppendKinds
                              THEN NoName ELSE chunks[t].owner
          /\ chunks[t].ins <=> done[chunks[t].body.id].kind \in InjectKinds
      BY <1>1, <2>2 DEF IndInv, ChunkOrigin
    <3>3. QED
      BY <2>1, <2>2, <3>1, <3>2 DEF AppendKinds, InjectKinds
  <2>5. QED
    BY <2>3, <2>4
<1>7. ChunkOrigin'
  <2>1. ASSUME NEW i \in DOMAIN chunks'
        PROVE  \/ chunks'[i] = Chunk(a)
               \/ \E k \in DOMAIN chunks : chunks'[i] = chunks[k]
    <3>1. CASE i \in 1..t
      BY <1>2, <1>4, <3>1
    <3>2. CASE i = t + 1
      BY <1>4, <3>2 DEF c
    <3>3. CASE i \in (t + 2)..(Len(chunks) + 1)
      <4>1. i - 1 \in DOMAIN chunks
        BY <1>2, <3>3
      <4>2. QED
        BY <1>4, <3>3, <4>1
    <3>4. QED
      BY <1>2, <1>4, <3>1, <3>2, <3>3
  <2>2. QED
    BY <2>1, OriginPreserved DEF AppendToFile, Handling, GeneratorKinds
\* Where the chunk at new position i was.
<1> DEFINE old(i) == IF i <= t THEN i ELSE i - 1
<1>8. ASSUME NEW i \in DOMAIN chunks', i # t + 1
      PROVE  old(i) \in DOMAIN chunks /\ chunks'[i] = chunks[old(i)]
  BY <1>2, <1>4, <1>8
\* Nothing continues the new chunk, nor any chunk across it.
<1>9. ASSUME NEW i \in DOMAIN chunks', NEW j \in DOMAIN chunks',
             Continues(j, i)', i < j
      PROVE  /\ i # t + 1
             /\ j # t + 1 => Continues(old(j), old(i)) /\ old(i) < old(j)
             /\ j = t + 1 => Continues(t, i)
  <2>1. ~(i <= t + 1 /\ j > t + 1)
    BY <1>2, <1>4, <1>5, <1>9 DEF Continues
  <2>2. CASE j <= t
    BY <1>2, <1>4, <1>9, <2>2 DEF Continues
  <2>3. CASE j = t + 1
    BY <1>2, <1>4, <1>9, <2>3 DEF Continues
  <2>4. CASE i >= t + 2
    <3>1. ASSUME NEW k \in (old(i) + 1)..old(j)
          PROVE  chunks[k].name = NoName
      <4>1. k + 1 \in (i + 1)..j /\ k + 1 \in (t + 2)..(Len(chunks) + 1)
        BY <1>2, <1>4, <1>9, <2>4
      <4>2. chunks'[k + 1] = chunks[(k + 1) - 1] /\ (k + 1) - 1 = k
        BY <1>4, <4>1, <1>2
      <4>3. QED
        BY <1>9, <4>1, <4>2 DEF Continues
    <3>2. QED
      BY <1>2, <1>4, <1>9, <2>4, <3>1 DEF Continues
  <2>5. QED
    BY <1>2, <1>4, <1>9, <2>1, <2>2, <2>3, <2>4
<1>10. AppendsInPlace'
  <2>1. chunks'[1].name # NoName
    BY <1>2, <1>4 DEF IndInv, AppendsInPlace
  <2>2. ASSUME NEW i \in DOMAIN chunks', NEW j \in DOMAIN chunks', Continues(j, i)'
        PROVE  /\ chunks'[i].owner = chunks'[j].owner
               /\ i < j => ~chunks'[i].ins
    <3>1. CASE i = j
      BY <1>4, <3>1
    <3>2. CASE i < j /\ j # t + 1
      BY <1>8, <1>9, <2>2, <3>2 DEF IndInv, AppendsInPlace
    <3>3. CASE i < j /\ j = t + 1
      <4>1. Continues(t, i) /\ i \in 1..t /\ i \in DOMAIN chunks
        BY <1>2, <1>4, <1>9, <2>2, <3>3
      <4>2. chunks[i].owner = n /\ ~chunks[i].ins
        BY <1>2, <1>6, <4>1 DEF IndInv, AppendsInPlace
      <4>3. QED
        BY <1>1, <1>4, <3>3, <4>1, <4>2
    <3>4. QED
      BY <1>2, <1>4, <2>2, <3>1, <3>2, <3>3 DEF Continues
  <2>3. QED
    BY <2>1, <2>2 DEF AppendsInPlace
<1>11. AppendsInOrder'
  <2> SUFFICES ASSUME NEW i \in DOMAIN chunks', NEW j \in DOMAIN chunks',
                      Continues(j, i)', i < j, chunks'[i].name = NoName
               PROVE  chunks'[i].body.id < chunks'[j].body.id
    BY DEF AppendsInOrder
  <2>1. CASE j # t + 1
    BY <1>8, <1>9, <2>1 DEF IndInv, AppendsInOrder
  <2>2. CASE j = t + 1
    <3>1. i # t + 1 /\ old(i) \in DOMAIN chunks /\ chunks'[i] = chunks[old(i)]
      BY <1>8, <1>9
    <3>2. chunks[old(i)].body.id \in DOMAIN done
      BY <3>1 DEF IndInv, ChunkOrigin, Accepted
    <3>3. chunks[old(i)].body.id < ThisId
      BY <3>2, AcceptedGrows DEF AppendToFile
    <3>4. QED
      BY <1>1, <1>4, <2>2, <3>1, <3>3
  <2>3. QED
    BY <2>1, <2>2
<1>12. OverwriteIsNoDuplicate'
  <2> SUFFICES ASSUME NEW m \in Names, NEW i \in DOMAIN chunks',
                      NEW j \in DOMAIN chunks', i < j,
                      IsFileOf(chunks'[i], m), IsFileOf(chunks'[j], m)
               PROVE  ~chunks'[j].over
    BY DEF OverwriteIsNoDuplicate
  <2>1. i # t + 1 /\ j # t + 1
    BY <1>1, <1>4, NamesAssumption DEF IsFileOf
  <2>2. old(i) < old(j)
    BY <1>2, <1>4, <2>1
  <2>3. QED
    BY <1>8, <2>1, <2>2 DEF IndInv, OverwriteIsNoDuplicate
<1>13. QED
  BY <1>7, <1>10, <1>11, <1>12 DEF PlacementInv

-----------------------------------------------------------------------------
\* The empty response Persist starts with satisfies the invariant.
LEMMA InitInv == Init => IndInv
<1> SUFFICES ASSUME Init PROVE IndInv
  OBVIOUS
<1>1. [id |-> 0, procs |-> <<>>] \in Bodies
  BY BoundAssumption DEF Bodies
<1>2. TypeOK
  BY <1>1, BoundAssumption DEF Init, TypeOK
<1>3. DOMAIN chunks = {} /\ Accepted = {}
  BY DEF Init, Accepted
<1>4. QED
  BY <1>2, <1>3 DEF Init, IndInv, ChunkOrigin, AppendsInPlace, AppendsInOrder,
                    OverwriteIsNoDuplicate, AppendsHaveTarget

\* A step that leaves the chunks alone.
LEMMA ChunksKept ==
    ASSUME IndInv, chunks' = chunks,
           \A k \in Accepted : k \in Accepted' /\ done'[k] = done[k]
    PROVE  ChunkOrigin' /\ PlacementInv'
<1>1. ChunkOrigin'
  BY DEF IndInv, ChunkOrigin
<1>2. PlacementInv'
  BY DEF IndInv, PlacementInv, AppendsInPlace, AppendsInOrder,
         OverwriteIsNoDuplicate, Continues, IsFileOf
<1>3. QED
  BY <1>1, <1>2

\* Every artifact that Persist handles keeps the invariant.
LEMMA NextInv == IndInv /\ TypeOK' /\ [Next]_vars => IndInv'
<1> SUFFICES ASSUME IndInv, TypeOK', [Next]_vars
             PROVE  ChunkOrigin' /\ PlacementInv' /\ AppendsHaveTarget'
  BY DEF IndInv, PlacementInv
<1>1. ASSUME NEW a \in Artifacts, ReplaceFile(a)
      PROVE  ChunkOrigin' /\ PlacementInv' /\ AppendsHaveTarget'
  BY <1>1, ReplaceFileKeepsPlaces, TargetsKept
     DEF ReplaceFile, FileKinds, AppendKinds
<1>2. ASSUME NEW a \in Artifacts, AddFile(a)
      PROVE  ChunkOrigin' /\ PlacementInv' /\ AppendsHaveTarget'
  BY <1>2, AddFileKeepsPlaces, TargetsKept
     DEF AddFile, FileKinds, InjectKinds, AppendKinds
<1>3. ASSUME NEW a \in Artifacts, AppendToFile(a)
      PROVE  ChunkOrigin' /\ PlacementInv' /\ AppendsHaveTarget'
  <2>1. HasFile(CleanName[a.name])
    BY <1>3 DEF AppendToFile, HasFile, IsIndexOfFile
  <2>2. QED
    BY <1>3, <2>1, AppendKeepsPlaces, TargetsKept DEF AppendToFile
<1>4. ASSUME NEW a \in Artifacts,
             WriteCustom(a) \/ RecordError(a) \/ Exit(a) \/ ExitOnDisk(a)
      PROVE  ChunkOrigin' /\ PlacementInv' /\ AppendsHaveTarget'
  <2>1. /\ Handling(a) /\ chunks' = chunks
        /\ a.kind \notin AppendKinds \/ status' = "exited"
    BY <1>4 DEF WriteCustom, RecordError, Exit, ExitOnDisk, AppendKinds, CustomKinds
  <2>2. \A k \in Accepted : k \in Accepted' /\ done'[k] = done[k]
    BY <2>1, AcceptedGrows
  <2>3. QED
    BY <2>1, <2>2, ChunksKept, TargetsKept
<1>5. CASE Return \/ UNCHANGED vars
  <2>1. chunks' = chunks /\ done' = done /\ Accepted' = Accepted
    BY <1>5 DEF Return, vars, Accepted
  <2>2. AppendsHaveTarget'
    BY <2>1 DEF IndInv, AppendsHaveTarget
  <2>3. QED
    BY <2>1, <2>2, ChunksKept
<1>6. QED
  BY <1>1, <1>2, <1>3, <1>4, <1>5 DEF Next, Handle

\* insertFile and insertAppend: whatever the artifacts, an append ends up in
\* the file it was meant for, and after the appends that came before it.
THEOREM AppendsCorrect == Spec => [](AppendsInPlace /\ AppendsInOrder)
<1>1. IndInv => AppendsInPlace /\ AppendsInOrder
  BY DEF IndInv
<1>2. QED
  BY InitInv, NextInv, TypeCorrect, <1>1, PTL DEF Spec

\* insertFile with Overwrite makes no second file of the same name.
THEOREM OverwriteCorrect == Spec => []OverwriteIsNoDuplicate
<1>1. IndInv => OverwriteIsNoDuplicate
  BY DEF IndInv
<1>2. QED
  BY InitInv, NextInv, TypeCorrect, <1>1, PTL DEF Spec

\* insertAppend: an append without a file of this plugin to go to is refused.
THEOREM TargetsCorrect == Spec => []AppendsHaveTarget
<1>1. IndInv => AppendsHaveTarget
  BY DEF IndInv
<1>2. QED
  BY InitInv, NextInv, TypeCorrect, <1>1, PTL DEF Spec

-----------------------------------------------------------------------------
(* No artifact that Persist got past is lost, doubled or misplaced.  Every  *)
(* one has its chunk, ...                                                  *)

InResponse(k) ==
    \E i \in DOMAIN chunks :
       /\ chunks[i].body = [id |-> k, procs |-> PostProcess(done[k].kind)]
       /\ chunks[i].owner = CleanName[done[k].name]
       /\ chunks[i].ins <=> done[k].kind \in InjectKinds

Overwritten(k) == done[k].kind \in FileKinds /\ OverwrittenAfter(k)

InErrors(k) == \E e \in DOMAIN errs : errs[e] = k

AllKept ==
    \A k \in Accepted :
       /\ done[k].kind \in GeneratorKinds => InResponse(k) \/ Overwritten(k)
       /\ done[k].kind = "GeneratorError" => InErrors(k)

\* An overwritten file stays overwritten.
LEMMA OverwrittenStays ==
    ASSUME IndInv, NEW a \in Artifacts, Handling(a), NEW k \in DOMAIN done,
           Overwritten(k)
    PROVE  Overwritten(k)'
<1>1. PICK m \in Accepted : /\ m > k
                            /\ done[m].kind \in FileKinds
                            /\ done[m].overwrite
                            /\ CleanName[done[m].name] = CleanName[done[k].name]
  BY DEF Overwritten, OverwrittenAfter
<1>2. m \in Accepted' /\ done'[m] = done[m] /\ done'[k] = done[k]
  BY <1>1, AcceptedGrows
<1>3. QED
  BY <1>1, <1>2 DEF Overwritten, OverwrittenAfter

\* A step that keeps each chunk somewhere, or replaces it by a file that
\* overwrites it, and each error, loses nothing if it stores what it handles.
LEMMA KeptIsNotLost ==
    ASSUME IndInv, AllKept, NEW a \in Artifacts, Handling(a),
           \A k \in DOMAIN done : InResponse(k) => InResponse(k)' \/ Overwritten(k)',
           \A k \in DOMAIN done : InErrors(k) => InErrors(k)',
           \A k : k = ThisId /\ status' # "exited" =>
                  /\ a.kind \in GeneratorKinds => InResponse(k)'
                  /\ a.kind = "GeneratorError" => InErrors(k)'
    PROVE  AllKept'
<1> SUFFICES ASSUME NEW k \in Accepted'
             PROVE  /\ done'[k].kind \in GeneratorKinds =>
                          InResponse(k)' \/ Overwritten(k)'
                    /\ done'[k].kind = "GeneratorError" => InErrors(k)'
  BY DEF AllKept
<1>1. CASE k \in DOMAIN done
  <2>1. k \in Accepted /\ done'[k] = done[k]
    BY <1>1, AcceptedGrows
  <2>2. /\ done[k].kind \in GeneratorKinds => InResponse(k) \/ Overwritten(k)
        /\ done[k].kind = "GeneratorError" => InErrors(k)
    BY <2>1 DEF AllKept
  <2>3. Overwritten(k) => Overwritten(k)'
    BY <1>1, OverwrittenStays
  <2>4. QED
    BY <1>1, <2>1, <2>2, <2>3
<1>2. CASE k = ThisId /\ k \notin DOMAIN done
  <2>1. done'[k] = a /\ status' # "exited"
    BY <1>2, AcceptedGrows
  <2>2. QED
    BY <1>2, <2>1
<1>3. QED
  BY <1>1, <1>2, AcceptedGrows

\* The chunks of the artifacts before stay theirs when they are moved.
LEMMA MovedIsKept ==
    ASSUME IndInv, NEW a \in Artifacts, Handling(a), NEW k \in DOMAIN done,
           NEW i \in DOMAIN chunks, NEW j \in DOMAIN chunks',
           chunks'[j] = chunks[i],
           chunks[i].body = [id |-> k, procs |-> PostProcess(done[k].kind)],
           chunks[i].owner = CleanName[done[k].name],
           chunks[i].ins <=> done[k].kind \in InjectKinds
    PROVE  InResponse(k)'
BY AcceptedGrows DEF InResponse

\* The chunk that is new is that of the artifact at hand.
LEMMA NewIsInResponse ==
    ASSUME IndInv, NEW a \in Artifacts, Handling(a),
           a.kind \in GeneratorKinds, CleanName[a.name] # Refused,
           NEW j \in DOMAIN chunks', chunks'[j] = Chunk(a),
           NEW k, k = ThisId
    PROVE  InResponse(k)'
<1>1. done'[k] = a
  BY AcceptedGrows
<1>2. /\ Chunk(a).body = [id |-> k, procs |-> PostProcess(a.kind)]
      /\ Chunk(a).owner = CleanName[a.name]
      /\ Chunk(a).ins <=> a.kind \in InjectKinds
  BY DEF Chunk, Content
<1>3. QED
  BY <1>1, <1>2 DEF InResponse

\* insertFile at the end, and an injection.
LEMMA AddFileLosesNothing ==
    ASSUME IndInv, AllKept, NEW a \in Artifacts, AddFile(a)
    PROVE  AllKept'
<1>1. /\ Handling(a) /\ a.kind \in GeneratorKinds /\ CleanName[a.name] # Refused
      /\ errs' = errs
  BY DEF AddFile, GeneratorKinds
<1>2. Chunk(a) \in Chunks /\ a.kind # "GeneratorError"
  BY <1>1, ChunkHasOrigin
     DEF GeneratorKinds, FileKinds, AppendKinds, InjectKinds
<1> HIDE DEF Chunk
<1>3. /\ chunks \in Seq(Chunks) /\ Len(chunks) \in Nat
      /\ chunks' = Append(chunks, Chunk(a))
  BY LenProperties DEF IndInv, TypeOK, AddFile
<1>4. /\ \A i \in DOMAIN chunks : i \in DOMAIN chunks' /\ chunks'[i] = chunks[i]
      /\ Len(chunks) + 1 \in DOMAIN chunks'
      /\ chunks'[Len(chunks) + 1] = Chunk(a)
  BY <1>2, <1>3
<1>5. ASSUME NEW k \in DOMAIN done, InResponse(k)
      PROVE  InResponse(k)'
  BY <1>1, <1>4, <1>5, MovedIsKept DEF InResponse
<1>6. \A k : k = ThisId => InResponse(k)'
  BY <1>1, <1>4, NewIsInResponse
<1>7. \A k \in DOMAIN done : InErrors(k) => InErrors(k)'
  BY <1>1 DEF InErrors
<1>8. QED
  BY <1>1, <1>2, <1>5, <1>6, <1>7, KeptIsNotLost

\* insertFile with overwrite: what is replaced is a file of the same name.
LEMMA ReplaceFileLosesNothing ==
    ASSUME IndInv, AllKept, NEW a \in Artifacts, ReplaceFile(a)
    PROVE  AllKept'
<1> DEFINE n == CleanName[a.name]
<1>1. /\ Handling(a) /\ a.kind \in GeneratorKinds /\ n # Refused
      /\ a.kind # "GeneratorError" /\ a.kind \in FileKinds /\ a.overwrite
      /\ errs' = errs /\ status' # "exited"
  BY DEF ReplaceFile, Handling, GeneratorKinds, FileKinds
<1>2. /\ Chunk(a) \in Chunks /\ Chunk(a).name = n /\ n # NoName
  BY <1>1, ChunkHasOrigin DEF FileKinds, AppendKinds
<1>3. chunks \in Seq(Chunks)
  BY DEF IndInv, TypeOK
<1>4. PICK h \in DOMAIN chunks : /\ IsFileOf(chunks[h], n)
                                 /\ chunks' = [chunks EXCEPT ![h] = Chunk(a)]
  BY DEF ReplaceFile, IsIndexOfFile
<1>5. /\ \A i \in DOMAIN chunks : i # h => chunks'[i] = chunks[i]
      /\ DOMAIN chunks' = DOMAIN chunks
      /\ chunks'[h] = Chunk(a)
  BY <1>2, <1>3, <1>4
<1>6. ASSUME NEW k \in DOMAIN done, InResponse(k)
      PROVE  InResponse(k)' \/ Overwritten(k)'
  <2>1. PICK i \in DOMAIN chunks :
           /\ chunks[i].body = [id |-> k, procs |-> PostProcess(done[k].kind)]
           /\ chunks[i].owner = CleanName[done[k].name]
           /\ chunks[i].ins <=> done[k].kind \in InjectKinds
    BY <1>6 DEF InResponse
  <2>2. CASE i # h
    <3>1. i \in DOMAIN chunks' /\ chunks'[i] = chunks[i]
      BY <1>5, <2>2
    <3>2. InResponse(k)'
      BY <1>1, <2>1, <3>1, MovedIsKept
    <3>3. QED
      BY <3>2
  <2>3. CASE i = h
    <3>1. chunks[h].body.id = k
      BY <2>1, <2>3
    <3>2. /\ done[k].kind \in GeneratorKinds
          /\ chunks[h].owner = CleanName[done[k].name]
          /\ chunks[h].name = IF done[k].kind \in AppendKinds THEN NoName
                              ELSE chunks[h].owner
          /\ done[k].kind \notin InjectKinds
      BY <1>4, <2>1, <2>3, <3>1 DEF IndInv, ChunkOrigin, IsFileOf
    <3>3. done[k].kind \in FileKinds /\ CleanName[done[k].name] = n
      BY <1>2, <1>4, <3>2 DEF IsFileOf, GeneratorKinds
    <3>4. /\ ThisId \in Accepted' /\ ThisId > k /\ done'[ThisId] = a
          /\ done'[k] = done[k]
      BY <1>1, AcceptedGrows
    <3>5. QED
      BY <1>1, <3>3, <3>4 DEF Overwritten, OverwrittenAfter
  <2>4. QED
    BY <2>2, <2>3
<1>7. \A k : k = ThisId => InResponse(k)'
  BY <1>1, <1>5, NewIsInResponse
<1>8. \A k \in DOMAIN done : InErrors(k) => InErrors(k)'
  BY <1>1 DEF InErrors
<1>9. QED
  BY <1>1, <1>6, <1>7, <1>8, KeptIsNotLost

\* insertAppend: the splice moves what follows it back by one place.
LEMMA AppendLosesNothing ==
    ASSUME IndInv, AllKept, NEW a \in Artifacts, AppendToFile(a)
    PROVE  AllKept'
<1> DEFINE c == Chunk(a)
<1>1. /\ Handling(a) /\ a.kind \in GeneratorKinds /\ CleanName[a.name] # Refused
      /\ a.kind # "GeneratorError" /\ errs' = errs
  BY DEF AppendToFile, GeneratorKinds, AppendKinds
<1>2. c \in Chunks
  BY <1>1, ChunkHasOrigin
<1> HIDE DEF c
<1>3. chunks \in Seq(Chunks) /\ Len(chunks) \in Nat /\ DOMAIN chunks = 1..Len(chunks)
  BY LenProperties DEF IndInv, TypeOK
<1>5. PICK t \in DOMAIN chunks :
         /\ DOMAIN chunks' = 1..(Len(chunks) + 1)
         /\ \A i \in 1..t : chunks'[i] = chunks[i]
         /\ chunks'[t + 1] = c
         /\ \A i \in (t + 2)..(Len(chunks) + 1) : chunks'[i] = chunks[i - 1]
  BY <1>2, AppendSplices DEF c
<1>6. ASSUME NEW i \in DOMAIN chunks
      PROVE  \E j \in DOMAIN chunks' : chunks'[j] = chunks[i]
  <2>1. CASE i <= t
    BY <1>3, <1>5, <2>1
  <2>2. CASE i > t
    <3>1. i + 1 \in (t + 2)..(Len(chunks) + 1) /\ (i + 1) - 1 = i
      BY <1>3, <2>2
    <3>2. i + 1 \in DOMAIN chunks' /\ chunks'[i + 1] = chunks[i]
      BY <1>3, <1>5, <3>1
    <3>3. QED
      BY <3>2
  <2>3. QED
    BY <1>3, <2>1, <2>2
<1>7. ASSUME NEW k \in DOMAIN done, InResponse(k)
      PROVE  InResponse(k)'
  BY <1>1, <1>6, <1>7, MovedIsKept DEF InResponse
<1>8. \A k : k = ThisId => InResponse(k)'
  BY <1>1, <1>3, <1>5, NewIsInResponse DEF c
<1>9. \A k \in DOMAIN done : InErrors(k) => InErrors(k)'
  BY <1>1 DEF InErrors
<1>10. QED
  BY <1>1, <1>7, <1>8, <1>9, KeptIsNotLost

\* Persist loses nothing, whatever it handles.
LEMMA NextLosesNothing ==
    IndInv /\ AllKept /\ [Next]_vars => AllKept'
<1> SUFFICES ASSUME IndInv, AllKept, [Next]_vars PROVE AllKept'
  OBVIOUS
<1>1. ASSUME NEW a \in Artifacts, RecordError(a)
      PROVE  AllKept'
  <2>1. /\ Handling(a) /\ a.kind \notin GeneratorKinds
        /\ chunks' = chunks /\ errs' = Append(errs, ThisId)
        /\ errs \in Seq(1..MaxArtifacts) /\ Len(errs) \in Nat
    BY <1>1, LenProperties
       DEF RecordError, GeneratorKinds, FileKinds, AppendKinds, InjectKinds,
           IndInv, TypeOK
  <2>2. /\ \A e \in DOMAIN errs : e \in DOMAIN errs' /\ errs'[e] = errs[e]
        /\ Len(errs) + 1 \in DOMAIN errs' /\ errs'[Len(errs) + 1] = ThisId
    BY <2>1
  <2>3. \A k \in DOMAIN done : InErrors(k) => InErrors(k)'
    BY <2>2 DEF InErrors
  <2>4. \A k : k = ThisId => InErrors(k)'
    BY <2>2 DEF InErrors
  <2>5. \A k \in DOMAIN done : InResponse(k) => InResponse(k)'
    BY <2>1, AcceptedGrows DEF InResponse
  <2>6. QED
    BY <2>1, <2>3, <2>4, <2>5, KeptIsNotLost
<1>2. ASSUME NEW a \in Artifacts, WriteCustom(a) \/ Exit(a) \/ ExitOnDisk(a)
      PROVE  AllKept'
  <2>1. /\ Handling(a) /\ chunks' = chunks /\ errs' = errs
        /\ \/ status' = "exited"
           \/ a.kind \notin GeneratorKinds /\ a.kind # "GeneratorError"
    BY <1>2 DEF WriteCustom, Exit, ExitOnDisk, CustomKinds, GeneratorKinds,
                FileKinds, AppendKinds, InjectKinds
  <2>2. \A k \in DOMAIN done : InResponse(k) => InResponse(k)'
    BY <2>1, AcceptedGrows DEF InResponse
  <2>3. \A k \in DOMAIN done : InErrors(k) => InErrors(k)'
    BY <2>1 DEF InErrors
  <2>4. QED
    BY <2>1, <2>2, <2>3, KeptIsNotLost
<1>3. CASE Return \/ UNCHANGED vars
  <2>1. /\ chunks' = chunks /\ errs' = errs /\ done' = done
        /\ Accepted' = Accepted
    BY <1>3 DEF Return, vars, Accepted
  <2>2. QED
    BY <2>1 DEF AllKept, InResponse, InErrors, Overwritten, OverwrittenAfter
<1>4. QED
  BY <1>1, <1>2, <1>3, AddFileLosesNothing, ReplaceFileLosesNothing,
     AppendLosesNothing DEF Next, Handle

\* ... no two chunks are of one artifact, and the appends are in the first file
\* of the name they asked for.
OneChunkEach ==
    \A i, j \in DOMAIN chunks : chunks[i].body.id = chunks[j].body.id => i = j

AtFirst(i) == \E h \in DOMAIN chunks : /\ Continues(i, h) /\ i # h
                                       /\ IsIndexOfFile(h, chunks[i].owner)

AppendsAtFirst == \A i \in DOMAIN chunks : chunks[i].name = NoName => AtFirst(i)

\* The artifact at hand is none of those that have a chunk.
LEMMA NewId ==
    ASSUME IndInv, NEW a \in Artifacts, Handling(a)
    PROVE  /\ Chunk(a).body.id = ThisId
           /\ \A i \in DOMAIN chunks : chunks[i].body.id # ThisId
<1>1. \A i \in DOMAIN chunks : chunks[i].body.id \in DOMAIN done
  BY DEF IndInv, ChunkOrigin, Accepted
<1>2. ThisId \notin DOMAIN done
  BY AcceptedGrows
<1>3. QED
  BY <1>1, <1>2 DEF Chunk, Content

\* insertFile at the end, and an injection: a new chunk that starts something.
LEMMA AddFileKeepsFirst ==
    ASSUME IndInv, OneChunkEach, AppendsAtFirst, NEW a \in Artifacts, AddFile(a)
    PROVE  OneChunkEach' /\ AppendsAtFirst'
<1> DEFINE c == Chunk(a)
<1>1. c \in Chunks /\ c.body.id = ThisId /\ c.name # NoName
  BY ChunkHasOrigin DEF AddFile, GeneratorKinds, FileKinds, InjectKinds, AppendKinds
<1>2. \A i \in DOMAIN chunks : chunks[i].body.id # c.body.id
  BY NewId DEF AddFile
<1> HIDE DEF c
<1>3. /\ Len(chunks) \in Nat /\ DOMAIN chunks = 1..Len(chunks)
      /\ chunks \in Seq(Chunks)
  BY LenProperties DEF IndInv, TypeOK
<1>4. /\ DOMAIN chunks' = 1..(Len(chunks) + 1)
      /\ \A i \in 1..Len(chunks) : chunks'[i] = chunks[i]
      /\ chunks'[Len(chunks) + 1] = c
  BY <1>1, <1>3 DEF AddFile, c
<1>5. OneChunkEach'
  BY <1>2, <1>3, <1>4 DEF OneChunkEach
<1>6. ASSUME NEW i \in DOMAIN chunks', chunks'[i].name = NoName PROVE AtFirst(i)'
  <2>1. i \in DOMAIN chunks /\ chunks'[i] = chunks[i]
    BY <1>1, <1>3, <1>4, <1>6
  <2>2. PICK h \in DOMAIN chunks : /\ Continues(i, h) /\ i # h
                                   /\ IsIndexOfFile(h, chunks[i].owner)
    BY <1>6, <2>1 DEF AppendsAtFirst, AtFirst
  <2>3. h \in DOMAIN chunks' /\ Continues(i, h)'
    BY <1>3, <1>4, <2>1, <2>2 DEF Continues
  <2>4. IsIndexOfFile(h, chunks[i].owner)'
    BY <1>3, <1>4, <2>1, <2>2 DEF IsIndexOfFile, IsFileOf
  <2>5. QED
    BY <2>1, <2>2, <2>3, <2>4 DEF AtFirst
<1>7. QED
  BY <1>5, <1>6 DEF AppendsAtFirst

\* insertFile with overwrite: the new chunk starts what the old one did.
LEMMA ReplaceFileKeepsFirst ==
    ASSUME IndInv, OneChunkEach, AppendsAtFirst, NEW a \in Artifacts, ReplaceFile(a)
    PROVE  OneChunkEach' /\ AppendsAtFirst'
<1> DEFINE c == Chunk(a)
           n == CleanName[a.name]
<1>1. /\ c \in Chunks /\ c.body.id = ThisId /\ c.name = n /\ n # NoName
      /\ c.owner = n /\ ~c.ins
  BY ChunkHasOrigin DEF ReplaceFile, GeneratorKinds, FileKinds, InjectKinds,
                        AppendKinds
<1>2. \A i \in DOMAIN chunks : chunks[i].body.id # c.body.id
  BY NewId DEF ReplaceFile
<1> HIDE DEF c
<1>3. /\ Len(chunks) \in Nat /\ DOMAIN chunks = 1..Len(chunks)
      /\ chunks \in Seq(Chunks)
  BY LenProperties DEF IndInv, TypeOK
<1>4. PICK h \in DOMAIN chunks :
         /\ IsIndexOfFile(h, n)
         /\ DOMAIN chunks' = DOMAIN chunks
         /\ chunks'[h] = c
         /\ \A i \in DOMAIN chunks : i # h => chunks'[i] = chunks[i]
         /\ chunks[h].name = n /\ ~chunks[h].ins
         /\ \A i \in DOMAIN chunks : /\ chunks'[i].name = chunks[i].name
                                     /\ chunks'[i].ins = chunks[i].ins
                                     /\ chunks'[i].owner = chunks[i].owner
  BY <1>1, ReplaceFileReplaces DEF c
<1>5. OneChunkEach'
  BY <1>2, <1>4 DEF OneChunkEach
<1>6. \A i \in DOMAIN chunks : chunks'[i].name = chunks[i].name
  BY <1>4
<1>7. \A i, g \in DOMAIN chunks : Continues(i, g)' <=> Continues(i, g)
  BY <1>3, <1>6 DEF Continues
<1>8. \A i \in DOMAIN chunks : \A m : IsFileOf(chunks'[i], m) <=> IsFileOf(chunks[i], m)
  BY <1>4 DEF IsFileOf
<1>9. ASSUME NEW i \in DOMAIN chunks', chunks'[i].name = NoName PROVE AtFirst(i)'
  <2>1. i \in DOMAIN chunks /\ chunks'[i] = chunks[i]
    BY <1>1, <1>4, <1>9
  <2>2. PICK g \in DOMAIN chunks : /\ Continues(i, g) /\ i # g
                                   /\ IsIndexOfFile(g, chunks[i].owner)
    BY <1>9, <2>1 DEF AppendsAtFirst, AtFirst
  <2>3. g \in DOMAIN chunks' /\ Continues(i, g)'
    BY <1>4, <1>7, <2>1, <2>2
  <2>4. IsIndexOfFile(g, chunks[i].owner)'
    <3>1. \A j \in 1..(g - 1) : j \in DOMAIN chunks
      BY <1>3, <2>2
    <3>2. QED
      BY <1>4, <1>8, <2>1, <2>2, <3>1 DEF IsIndexOfFile
  <2>5. QED
    BY <2>1, <2>2, <2>3, <2>4 DEF AtFirst
<1>10. QED
  BY <1>5, <1>9 DEF AppendsAtFirst

\* insertAppend: the new chunk is in the first file of its name, and the chunks
\* behind it move with the ones they continue.
LEMMA AppendKeepsFirst ==
    ASSUME IndInv, OneChunkEach, AppendsAtFirst, NEW a \in Artifacts, AppendToFile(a)
    PROVE  OneChunkEach' /\ AppendsAtFirst'
<1> DEFINE c == Chunk(a)
           n == CleanName[a.name]
<1>1. /\ c \in Chunks /\ c.body.id = ThisId /\ c.name = NoName
      /\ n # NoName /\ c.owner = n
  BY ChunkHasOrigin DEF AppendToFile, GeneratorKinds
<1>2. \A i \in DOMAIN chunks : chunks[i].body.id # c.body.id
  BY NewId DEF AppendToFile
<1> HIDE DEF c
<1>3. /\ Len(chunks) \in Nat /\ DOMAIN chunks = 1..Len(chunks)
      /\ chunks \in Seq(Chunks)
  BY LenProperties DEF IndInv, TypeOK
<1>4. PICK h \in DOMAIN chunks, t \in DOMAIN chunks :
         /\ IsIndexOfFile(h, n)
         /\ IsTailFrom(t, h)
         /\ DOMAIN chunks' = 1..(Len(chunks) + 1)
         /\ \A i \in 1..t : chunks'[i] = chunks[i]
         /\ chunks'[t + 1] = c
         /\ \A i \in (t + 2)..(Len(chunks) + 1) : chunks'[i] = chunks[i - 1]
  BY <1>1, AppendSplices DEF c
<1> DEFINE old(i) == IF i <= t THEN i ELSE i - 1
<1>5. ASSUME NEW i \in DOMAIN chunks', i # t + 1
      PROVE  old(i) \in DOMAIN chunks /\ chunks'[i] = chunks[old(i)]
  BY <1>3, <1>4, <1>5
<1>6. OneChunkEach'
  <2> SUFFICES ASSUME NEW i \in DOMAIN chunks', NEW j \in DOMAIN chunks',
                      chunks'[i].body.id = chunks'[j].body.id
               PROVE  i = j
    BY DEF OneChunkEach
  <2>1. CASE i = t + 1 \/ j = t + 1
    BY <1>2, <1>4, <1>5, <2>1
  <2>2. CASE i # t + 1 /\ j # t + 1
    <3>1. old(i) = old(j)
      BY <1>5, <2>2 DEF OneChunkEach
    <3>2. QED
      BY <1>3, <1>4, <2>2, <3>1
  <2>3. QED
    BY <2>1, <2>2
<1>7. h <= t /\ t \in 1..Len(chunks) /\ h \in 1..Len(chunks)
  BY <1>3, <1>4 DEF IsTailFrom
\* The new chunk.
<1>8. AtFirst(t + 1)'
  <2>1. Continues(t + 1, h)'
    <3>1. ASSUME NEW k \in (h + 1)..(t + 1) PROVE chunks'[k].name = NoName
      <4>1. CASE k = t + 1
        BY <1>1, <1>4, <4>1
      <4>2. CASE k # t + 1
        <5>1. k \in (h + 1)..t /\ k \in 1..t
          BY <1>3, <1>7, <4>2
        <5>2. QED
          BY <1>4, <5>1 DEF IsTailFrom
      <4>3. QED
        BY <4>1, <4>2
    <3>2. QED
      BY <1>3, <1>7, <3>1 DEF Continues
  <2>2. IsIndexOfFile(h, n)'
    <3>1. h \in DOMAIN chunks' /\ h \in 1..t /\ \A j \in 1..(h - 1) : j \in 1..t
      BY <1>3, <1>4, <1>7
    <3>2. QED
      BY <1>4, <3>1 DEF IsIndexOfFile
  <2>3. QED
    <3>1. /\ chunks'[t + 1].owner = n /\ t + 1 # h /\ h \in DOMAIN chunks'
      BY <1>1, <1>3, <1>4, <1>7
    <3>2. QED
      BY <2>1, <2>2, <3>1 DEF AtFirst
\* The others.
<1>9. ASSUME NEW i \in DOMAIN chunks', i # t + 1, chunks'[i].name = NoName
      PROVE  AtFirst(i)'
  <2>1. old(i) \in DOMAIN chunks /\ chunks'[i] = chunks[old(i)]
    BY <1>5, <1>9
  <2>2. PICK g \in DOMAIN chunks : /\ Continues(old(i), g) /\ old(i) # g
                                   /\ IsIndexOfFile(g, chunks[old(i)].owner)
    BY <1>9, <2>1 DEF AppendsAtFirst, AtFirst
  <2>3. chunks[old(i)].owner # NoName
    <3>1. chunks[old(i)] \in Chunks
      BY <1>3, <2>1
    <3>2. QED
      BY <3>1, NamesAssumption DEF Chunks
  <2>4. CASE i <= t
    <3>1. g < i /\ g \in DOMAIN chunks'
      BY <1>3, <1>4, <1>7, <2>1, <2>2, <2>4 DEF Continues
    <3>2. Continues(i, g)'
      <4>1. \A k \in (g + 1)..i : k \in 1..t
        BY <1>3, <1>4, <1>7, <2>2, <2>4, <3>1
      <4>2. QED
        BY <1>4, <2>2, <2>4, <4>1 DEF Continues
    <3>3. IsIndexOfFile(g, chunks[i].owner)'
      <4>1. g \in 1..t /\ \A j \in 1..(g - 1) : j \in 1..t
        BY <1>3, <1>4, <1>7, <2>2, <2>4, <3>1
      <4>2. QED
        BY <1>4, <2>1, <2>2, <2>4, <3>1, <4>1 DEF IsIndexOfFile
    <3>4. QED
      BY <2>2, <2>4, <3>1, <3>2, <3>3 DEF AtFirst
  <2>5. CASE i >= t + 2
    <3>1. i \in (t + 2)..(Len(chunks) + 1) /\ old(i) = i - 1 /\ i - 1 \in DOMAIN chunks
      BY <1>3, <1>4, <1>7, <2>5
    <3>2. g > t
      <4>1. chunks[t + 1].name # NoName
        BY <1>3, <1>4, <1>7, <3>1 DEF IsTailFrom
      <4>2. g <= t => t + 1 \in (g + 1)..(i - 1)
        BY <1>3, <1>7, <2>2, <3>1
      <4>3. QED
        BY <1>3, <1>7, <2>2, <3>1, <4>1, <4>2 DEF Continues
    <3>3. g + 1 \in (t + 2)..(Len(chunks) + 1) /\ chunks'[g + 1] = chunks[g] /\ g < i - 1
      BY <1>3, <1>4, <1>7, <2>2, <3>1, <3>2 DEF Continues
    <3>4. ASSUME NEW k \in (g + 2)..i PROVE chunks'[k].name = NoName
      <4>1. k \in (t + 2)..(Len(chunks) + 1) /\ k - 1 \in (g + 1)..(i - 1)
        BY <1>3, <1>7, <3>1, <3>3
      <4>2. QED
        BY <1>4, <2>2, <3>1, <4>1 DEF Continues
    <3>5. Continues(i, g + 1)'
      BY <1>3, <1>7, <3>1, <3>3, <3>4 DEF Continues
    <3>6. ASSUME NEW k \in 1..g PROVE ~IsFileOf(chunks'[k], chunks[old(i)].owner)
      <4>1. CASE k <= t
        BY <1>3, <1>4, <1>7, <2>2, <3>2, <4>1 DEF IsIndexOfFile
      <4>2. CASE k = t + 1
        BY <1>1, <1>4, <2>3, <4>2 DEF IsFileOf
      <4>3. CASE k >= t + 2
        <5>1. k \in (t + 2)..(Len(chunks) + 1) /\ k - 1 \in 1..(g - 1)
          BY <1>3, <1>7, <3>3, <4>3
        <5>2. QED
          BY <1>4, <2>2, <5>1 DEF IsIndexOfFile
      <4>4. QED
        BY <1>3, <1>7, <4>1, <4>2, <4>3
    <3>7. IsFileOf(chunks'[g + 1], chunks[old(i)].owner)
      BY <2>2, <3>3 DEF IsIndexOfFile
    <3>8. IsIndexOfFile(g + 1, chunks[i].owner)'
      BY <1>3, <1>4, <2>1, <2>2, <3>3, <3>6, <3>7 DEF IsIndexOfFile, IsFileOf
    <3>9. QED
      BY <1>3, <1>4, <1>7, <3>1, <3>3, <3>5, <3>8 DEF AtFirst
  <2>6. QED
    BY <1>3, <1>4, <1>7, <1>9, <2>4, <2>5
<1>10. QED
  BY <1>6, <1>8, <1>9 DEF AppendsAtFirst

\* Every step keeps the chunks apart and the appends in their first file.
LEMMA NextKeepsFirst ==
    IndInv /\ OneChunkEach /\ AppendsAtFirst /\ [Next]_vars
      => OneChunkEach' /\ AppendsAtFirst'
<1> SUFFICES ASSUME IndInv, OneChunkEach, AppendsAtFirst, [Next]_vars
             PROVE  OneChunkEach' /\ AppendsAtFirst'
  OBVIOUS
<1>1. CASE chunks' = chunks
  BY <1>1 DEF OneChunkEach, AppendsAtFirst, AtFirst, Continues, IsIndexOfFile,
              IsFileOf
<1>2. CASE chunks' # chunks
  <2>1. \E a \in Artifacts : ReplaceFile(a) \/ AddFile(a) \/ AppendToFile(a)
    BY <1>2 DEF Next, Handle, WriteCustom, RecordError, Exit, ExitOnDisk, Return,
                vars
  <2>2. QED
    BY <2>1, AddFileKeepsFirst, ReplaceFileKeepsFirst, AppendKeepsFirst
<1>3. QED
  BY <1>1, <1>2

\* Together these are what NothingLost says.
LEMMA KeptAndPlaced ==
    IndInv /\ AllKept /\ OneChunkEach /\ AppendsAtFirst => NothingLost
<1> SUFFICES ASSUME IndInv, AllKept, OneChunkEach, AppendsAtFirst
             PROVE  NothingLost
  OBVIOUS
<1>1. ASSUME NEW k \in Accepted, InResponse(k)
      PROVE  \E i \in DOMAIN chunks : IsChunkFor(i, k)
  <2>1. PICK i \in DOMAIN chunks :
           /\ chunks[i].body = [id |-> k, procs |-> PostProcess(done[k].kind)]
           /\ chunks[i].owner = CleanName[done[k].name]
           /\ chunks[i].ins <=> done[k].kind \in InjectKinds
    BY <1>1 DEF InResponse
  <2>2. /\ chunks[i].body.id = k
        /\ chunks[i].name = IF done[k].kind \in AppendKinds THEN NoName
                            ELSE chunks[i].owner
    BY <2>1 DEF IndInv, ChunkOrigin
  <2>3. CASE done[k].kind \in AppendKinds
    <3>1. AtFirst(i)
      BY <2>2, <2>3 DEF AppendsAtFirst
    <3>2. QED
      BY <2>1, <2>3, <3>1 DEF AtFirst, IsChunkFor
  <2>4. CASE done[k].kind \notin AppendKinds
    <3>1. Continues(i, i)
      BY DEF Continues, IndInv, TypeOK
    <3>2. QED
      BY <2>1, <2>2, <2>4, <3>1 DEF IsChunkFor
  <2>5. QED
    BY <2>3, <2>4
<1>2. QED
  BY <1>1 DEF AllKept, NothingLost, OneChunkEach, Overwritten, InErrors

\* Persist: whatever is spliced in, replaced or added later, every artifact it
\* got past has one chunk, at the start of a file or injection of its name or in
\* the first file of its name, or is a file overwritten by a later one.
THEOREM NothingIsLost == Spec => []NothingLost
<1>1. Init => AllKept /\ OneChunkEach /\ AppendsAtFirst
  <2>1. Init => Accepted = {} /\ DOMAIN chunks = {}
    BY DEF Init, Accepted
  <2>2. QED
    BY <2>1 DEF AllKept, OneChunkEach, AppendsAtFirst
<1>2. QED
  BY InitInv, NextInv, TypeCorrect, NextLosesNothing, NextKeepsFirst, KeptAndPlaced,
     <1>1, PTL DEF Spec

-----------------------------------------------------------------------------
(* What writeFile leaves on disk.                                          *)

\* The file there, or none, is that of before the run.
Untouched(p) ==
    /\ disk[p] = before[p]
    /\ \A k \in Accepted : CustomFor(k, p) => disk[p] # NoFile /\ ~done[k].overwrite

\* The file there is artifact w's.
WrittenBy(p, w) ==
    /\ disk[p] # NoFile
    /\ w \in DOMAIN done /\ CustomFor(w, p)
    /\ w \in Accepted => disk[p].procs = PostProcess(done[w].kind)
    /\ \/ done[w].overwrite
       \/ before[p] = NoFile /\ \A k \in Accepted : CustomFor(k, p) => k >= w
    /\ \A k \in Accepted : CustomFor(k, p) /\ k > w => ~done[k].overwrite

OnDisk(p) == Untouched(p) \/ WrittenBy(p, disk[p].id)

\* A path that is left alone stays right, if what is handled is no custom file
\* for it, keeps the file that is there, or ends the process.
LEMMA DiskKept ==
    ASSUME IndInv, NEW p \in Paths, OnDisk(p), NEW a \in Artifacts, Handling(a),
           disk'[p] = disk[p],
           \/ status' = "exited"
           \/ ~(a.kind \in CustomKinds /\ a.name = p)
           \/ disk[p] # NoFile /\ ~a.overwrite
    PROVE  OnDisk(p)'
<1>1. /\ \A k \in DOMAIN done : /\ CustomFor(k, p)' <=> CustomFor(k, p)
                               /\ done'[k] = done[k]
                               /\ k < ThisId /\ k \in Nat
      /\ Accepted = DOMAIN done /\ Accepted' \subseteq DOMAIN done \cup {ThisId}
      /\ DOMAIN done \subseteq DOMAIN done'
      /\ ThisId \in Nat
  BY AcceptedGrows, ContentType DEF CustomFor, IndInv
<1>2. before' = before
  BY DEF Handling
<1>3. ASSUME NEW k \in Accepted', CustomFor(k, p)', k \notin DOMAIN done
      PROVE  disk[p] # NoFile /\ ~done'[k].overwrite /\ k = ThisId
  <2>1. k = ThisId /\ done'[k] = a
    BY <1>1, <1>3, AcceptedGrows
  <2>2. status' # "exited"
    BY <1>3, AcceptedGrows
  <2>3. QED
    BY <1>3, <2>1, <2>2 DEF CustomFor
<1>4. CASE Untouched(p)
  BY <1>1, <1>2, <1>3, <1>4 DEF Untouched, OnDisk
<1>5. CASE WrittenBy(p, disk[p].id)
  <2> PICK w : w = disk[p].id
    OBVIOUS
  <2>1. /\ disk[p] # NoFile /\ w \in DOMAIN done /\ CustomFor(w, p)
        /\ disk[p].procs = PostProcess(done[w].kind)
        /\ \/ done[w].overwrite
           \/ before[p] = NoFile /\ \A k \in DOMAIN done : CustomFor(k, p) => k >= w
        /\ \A k \in DOMAIN done : CustomFor(k, p) /\ k > w => ~done[k].overwrite
    BY <1>1, <1>5 DEF WrittenBy
  <2>2. /\ w \in DOMAIN done' /\ CustomFor(w, p)' /\ done'[w] = done[w]
        /\ w \in Nat /\ w < ThisId
    BY <1>1, <2>1
  <2>3. \A k \in Accepted' : CustomFor(k, p)' /\ k > w => ~done'[k].overwrite
    BY <1>1, <1>3, <2>1
  <2>4. \/ done'[w].overwrite
        \/ before[p] = NoFile /\ \A k \in Accepted' : CustomFor(k, p)' => k >= w
    BY <1>1, <2>1, <2>2
  <2>5. QED
    BY <1>2, <2>1, <2>2, <2>3, <2>4 DEF WrittenBy, OnDisk
<1>6. QED
  BY <1>4, <1>5 DEF OnDisk

\* A path that is written is right: nothing was there, or it is overwritten.
LEMMA DiskWritten ==
    ASSUME IndInv, NEW p \in Paths, OnDisk(p), NEW a \in Artifacts, Handling(a),
           a.kind \in CustomKinds, a.name = p, disk[p] = NoFile \/ a.overwrite,
           disk'[p].id = ThisId, disk'[p] # NoFile,
           status' # "exited" => disk'[p].procs = PostProcess(a.kind)
    PROVE  OnDisk(p)'
<1> PICK n : n = ThisId
  OBVIOUS
<1>1. /\ \A k \in DOMAIN done : /\ CustomFor(k, p)' <=> CustomFor(k, p)
                               /\ k < n
      /\ Accepted = DOMAIN done /\ Accepted' \subseteq DOMAIN done \cup {n}
      /\ status' = "exited" => Accepted' = DOMAIN done
      /\ done'[n] = a /\ n \in DOMAIN done' /\ n \in Nat
      /\ DOMAIN done \subseteq Nat /\ n \notin DOMAIN done
  BY AcceptedGrows, ContentType DEF CustomFor, IndInv
<1>2. \A k \in Accepted' : ~(k > n)
  BY <1>1
<1>3. CustomFor(n, p)' /\ before' = before
  BY <1>1 DEF CustomFor, Handling
<1>4. \/ a.overwrite
      \/ before[p] = NoFile /\ \A k \in Accepted' : CustomFor(k, p)' => k >= n
  <2>1. CASE a.overwrite
    BY <2>1
  <2>2. CASE disk[p] = NoFile
    <3>1. Untouched(p)
      BY <2>2 DEF OnDisk, WrittenBy
    <3>2. before[p] = NoFile /\ \A k \in DOMAIN done : ~CustomFor(k, p)
      BY <1>1, <2>2, <3>1 DEF Untouched
    <3>3. QED
      BY <1>1, <3>2
  <2>3. QED
    BY <2>1, <2>2
<1>5. n \in Accepted' => disk'[p].procs = PostProcess(a.kind)
  BY <1>1
<1>6. WrittenBy(p, n)'
  BY <1>1, <1>2, <1>3, <1>4, <1>5 DEF WrittenBy
<1>7. QED
  BY <1>6 DEF OnDisk

\* Every artifact leaves on disk what it should.
LEMMA NextKeepsDisk ==
    IndInv /\ DiskIsLastWrite /\ [Next]_vars => DiskIsLastWrite'
<1> SUFFICES ASSUME IndInv, DiskIsLastWrite, [Next]_vars, NEW p \in Paths
             PROVE  OnDisk(p)'
  BY DEF DiskIsLastWrite, OnDisk, Untouched, WrittenBy
<1>1. OnDisk(p)
  BY DEF DiskIsLastWrite, OnDisk, Untouched, WrittenBy
<1>2. p \in DOMAIN disk
  BY DEF IndInv, TypeOK
<1>3. ASSUME NEW a \in Artifacts, WriteCustom(a)
      PROVE  OnDisk(p)'
  <2>1. Handling(a) /\ a.kind \in CustomKinds
    BY <1>3 DEF WriteCustom
  <2>2. /\ Content(a).id = ThisId /\ Content(a).procs = PostProcess(a.kind)
        /\ Content(a) # NoFile
    BY <2>1, ContentType, NoFileAssumption DEF IndInv, Content
  <2>3. CASE a.name # p \/ (disk[p] # NoFile /\ ~a.overwrite)
    BY <1>1, <1>2, <1>3, <2>1, <2>3, DiskKept DEF WriteCustom
  <2>4. CASE a.name = p /\ (disk[p] = NoFile \/ a.overwrite)
    <3>1. disk'[p] = Content(a)
      BY <1>2, <1>3, <2>4 DEF WriteCustom
    <3>2. QED
      BY <1>1, <2>1, <2>2, <2>4, <3>1, DiskWritten
  <2>5. QED
    BY <2>3, <2>4
<1>4. ASSUME NEW a \in Artifacts, ExitOnDisk(a)
      PROVE  OnDisk(p)'
  <2>1. Handling(a) /\ a.kind \in CustomKinds /\ status' = "exited"
    BY <1>4 DEF ExitOnDisk
  <2> DEFINE empty == [id |-> ThisId, procs |-> <<>>]
  <2>2. empty.id = ThisId /\ empty # NoFile
    BY <2>1, ContentType, NoFileAssumption DEF IndInv
  <2> HIDE DEF empty
  <2>3. CASE disk'[p] = disk[p]
    BY <1>1, <2>1, <2>3, DiskKept
  <2>4. CASE disk'[p] # disk[p]
    <3>1. a.name = p /\ (disk[p] = NoFile \/ a.overwrite) /\ disk'[p] = empty
      BY <1>2, <1>4, <2>4 DEF ExitOnDisk, empty
    <3>2. QED
      BY <1>1, <2>1, <2>2, <3>1, DiskWritten
  <2>5. QED
    BY <2>3, <2>4
<1>5. ASSUME NEW a \in Artifacts,
             ReplaceFile(a) \/ AddFile(a) \/ AppendToFile(a) \/ RecordError(a)
               \/ Exit(a)
      PROVE  OnDisk(p)'
  <2>1. /\ Handling(a) /\ disk' = disk
        /\ status' = "exited" \/ a.kind \notin CustomKinds
    BY <1>5 DEF ReplaceFile, AddFile, AppendToFile, RecordError, Exit,
                CustomKinds, FileKinds, AppendKinds, InjectKinds
  <2>2. QED
    BY <1>1, <2>1, DiskKept
<1>6. CASE Return \/ UNCHANGED vars
  <2>1. /\ disk' = disk /\ before' = before /\ done' = done
        /\ Accepted' = Accepted
    BY <1>6 DEF Return, vars, Accepted
  <2>2. QED
    BY <1>1, <2>1 DEF OnDisk, Untouched, WrittenBy, CustomFor
<1>7. QED
  BY <1>3, <1>4, <1>5, <1>6 DEF Next, Handle

\* writeFile: on disk is what the last overwriting custom file of the path wrote;
\* without one, the file that was there before the run, and only without that the
\* first custom file of the path, even when a later artifact ends the process.
THEOREM DiskCorrect == Spec => []DiskIsLastWrite
<1>1. Init => DiskIsLastWrite
  <2> SUFFICES ASSUME Init, NEW p \in Paths PROVE OnDisk(p)
    BY DEF DiskIsLastWrite, OnDisk, Untouched, WrittenBy
  <2>1. Accepted = {} /\ disk = before
    BY DEF Init, Accepted
  <2>2. QED
    BY <2>1 DEF OnDisk, Untouched
<1>2. QED
  BY InitInv, NextInv, TypeCorrect, NextKeepsDisk, <1>1, PTL DEF Spec

-----------------------------------------------------------------------------
(***************************************************************************)
(* The refinement.  The lemmas say what protoc reads from a sequence of    *)
(* chunks with one added at the end, replaced, or spliced in.              *)
(***************************************************************************)
FileType == [name : Names, ins : BOOLEAN, head : Nat, tail : Seq(Nat)]

\* What the fields of a chunk are.
LEMMA ChunkFields ==
  ASSUME NEW c \in Chunks
  PROVE  /\ c.body.id \in Nat /\ c.ins \in BOOLEAN
         /\ c.name \in Names \/ c.name = NoName
<1>1. c.body \in Bodies /\ c.ins \in BOOLEAN /\ c.name \in Names \cup {NoName}
  BY DEF Chunks
<1>2. c.body.id \in 0..MaxArtifacts
  BY <1>1 DEF Bodies
<1> QED BY <1>1, <1>2, BoundAssumption

\* A chunk with a name starts a file.
LEMMA StartedType ==
  ASSUME NEW c \in Chunks, c.name # NoName
  PROVE  /\ StartedBy(c) \in FileType
         /\ StartedBy(c).name = c.name /\ StartedBy(c).ins = c.ins
         /\ StartedBy(c).head = c.body.id /\ StartedBy(c).tail = <<>>
<1>1. <<>> \in Seq(Nat)
  OBVIOUS
<1> QED BY <1>1, ChunkFields DEF StartedBy, FileType

\* Files are the same if their fields are.
LEMMA FileEqual ==
  ASSUME NEW f \in FileType, NEW g \in FileType,
         f.name = g.name, f.ins = g.ins, f.head = g.head, f.tail = g.tail
  PROVE  f = g
BY DEF FileType

-----------------------------------------------------------------------------
(* A file with another head, and one with one more append.                 *)
WithHead(fs, k, h) == [fs EXCEPT ![k].head = h]
WithTail(fs, k, x) == [fs EXCEPT ![k].tail = Append(@, x)]

\* A file with another head is one, in its place.
LEMMA HeadType ==
  ASSUME NEW fs \in Seq(FileType), NEW k \in 1..Len(fs), NEW h \in Nat
  PROVE  /\ WithHead(fs, k, h) \in Seq(FileType)
         /\ Len(WithHead(fs, k, h)) = Len(fs)
         /\ \A i \in 1..Len(fs) : i # k => WithHead(fs, k, h)[i] = fs[i]
         /\ WithHead(fs, k, h)[k].head = h /\ WithHead(fs, k, h)[k].tail = fs[k].tail
         /\ WithHead(fs, k, h)[k].name = fs[k].name /\ WithHead(fs, k, h)[k].ins = fs[k].ins
<1> DEFINE f == [fs[k] EXCEPT !.head = h]
<1>1. fs[k] \in FileType
  BY ElementOfSeq
<1>2. /\ f \in FileType /\ f.head = h /\ f.tail = fs[k].tail
      /\ f.name = fs[k].name /\ f.ins = fs[k].ins
  BY <1>1 DEF FileType
<1>3. WithHead(fs, k, h) = [fs EXCEPT ![k] = f]
  BY DEF WithHead
<1> HIDE DEF f
<1>4. /\ [fs EXCEPT ![k] = f] \in Seq(FileType) /\ Len([fs EXCEPT ![k] = f]) = Len(fs)
      /\ [fs EXCEPT ![k] = f][k] = f
      /\ \A i \in 1..Len(fs) : i # k => [fs EXCEPT ![k] = f][i] = fs[i]
  BY <1>2, ExceptSeq
<1> QED BY <1>2, <1>3, <1>4

\* A file with one append more is one, in its place.
LEMMA TailType ==
  ASSUME NEW fs \in Seq(FileType), NEW k \in 1..Len(fs), NEW x \in Nat
  PROVE  /\ WithTail(fs, k, x) \in Seq(FileType)
         /\ Len(WithTail(fs, k, x)) = Len(fs)
         /\ \A i \in 1..Len(fs) : i # k => WithTail(fs, k, x)[i] = fs[i]
         /\ WithTail(fs, k, x)[k].head = fs[k].head
         /\ WithTail(fs, k, x)[k].tail = Append(fs[k].tail, x)
         /\ WithTail(fs, k, x)[k].name = fs[k].name /\ WithTail(fs, k, x)[k].ins = fs[k].ins
<1> DEFINE f == [fs[k] EXCEPT !.tail = Append(fs[k].tail, x)]
<1>1. fs[k] \in FileType
  BY ElementOfSeq
<1>2. /\ f \in FileType /\ f.head = fs[k].head /\ f.tail = Append(fs[k].tail, x)
      /\ f.name = fs[k].name /\ f.ins = fs[k].ins
  <2>1. Append(fs[k].tail, x) \in Seq(Nat)
    BY <1>1, AppendProperties DEF FileType
  <2> QED BY <1>1, <2>1 DEF FileType
<1>3. WithTail(fs, k, x) = [fs EXCEPT ![k] = f]
  BY DEF WithTail
<1> HIDE DEF f
<1>4. /\ [fs EXCEPT ![k] = f] \in Seq(FileType) /\ Len([fs EXCEPT ![k] = f]) = Len(fs)
      /\ [fs EXCEPT ![k] = f][k] = f
      /\ \A i \in 1..Len(fs) : i # k => [fs EXCEPT ![k] = f][i] = fs[i]
  BY <1>2, ExceptSeq
<1> QED BY <1>2, <1>3, <1>4

-----------------------------------------------------------------------------
(* protoc's reader.                                                        *)

\* A chunk without a name adds to the last file; with a name, it starts one.
LEMMA ReadIs ==
  ASSUME NEW fs \in Seq(FileType), NEW c \in Chunks
  PROVE  /\ c.name # NoName => Read(fs, c) = Append(fs, StartedBy(c))
         /\ c.name = NoName /\ fs # <<>> => Read(fs, c) = WithTail(fs, Len(fs), c.body.id)
         /\ c.name = NoName /\ fs = <<>> => Read(fs, c) = <<>>
BY DEF Read, WithTail

\* Reading files gives files.
LEMMA ReadType ==
  ASSUME NEW fs \in Seq(FileType), NEW c \in Chunks
  PROVE  Read(fs, c) \in Seq(FileType)
<1>1. CASE c.name # NoName
  BY <1>1, ReadIs, StartedType, AppendProperties
<1>2. CASE c.name = NoName /\ fs = <<>>
  BY <1>2, ReadIs
<1>3. CASE c.name = NoName /\ fs # <<>>
  <2>1. Len(fs) \in 1..Len(fs) /\ c.body.id \in Nat
    BY <1>3, ChunkFields, EmptySeq
  <2> QED BY <1>3, <2>1, ReadIs, TailType
<1> QED BY <1>1, <1>2, <1>3

ReadSteps(s) == [i \in 1..Len(s) |-> [v \in Seq(FileType) |-> Read(v, s[i])]]

\* The steps of the reader.
LEMMA ReadStepsType ==
  ASSUME NEW s \in Seq(Chunks)
  PROVE  ReadSteps(s) \in Steps(Len(s), Seq(FileType))
<1>1. \A i \in 1..Len(s) : s[i] \in Chunks
  OBVIOUS
<1> QED BY <1>1, ReadType DEF ReadSteps, Steps

\* The reader goes through the chunks one by one.
LEMMA FilesIterated ==
  ASSUME NEW s \in Seq(Chunks)
  PROVE  FilesOf(s) = Iterated(Len(s), Seq(FileType), ReadSteps(s), <<>>)
<1> DEFINE V == Seq(FileType)
           n == Len(s)
           g == ReadSteps(s)
           v0 == <<>>
           F(it) == it = [T \in SUBSET (DOMAIN s) |->
                      IF T = {} THEN v0 ELSE Read(it[T \ {Max(T)}], s[Max(T)])]
           chosen == CHOOSE it : F(it)
<1>1. n \in Nat /\ DOMAIN s = 1..n /\ v0 \in V /\ g \in Steps(n, V)
  BY ReadStepsType
<1>2. \A v \in V, i \in 1..n : g[i][v] = Read(v, s[i])
  BY DEF ReadSteps
<1>3. FilesOf(s) = chosen[DOMAIN s]
  BY DEF FilesOf, FoldLeft, MapThenFoldSet
<1> HIDE DEF V, n, g, v0
<1>4. \E it : F(it)
  <2>1. PICK it \in FoldsUpTo(n, n, V, g, v0) : TRUE
    BY <1>1, FoldsExist
  <2>2. it \in [SUBSET (1..n) -> V] /\ it[{}] = v0
    BY <2>1 DEF FoldsUpTo
  <2>3. ASSUME NEW T \in SUBSET (1..n), T # {}
        PROVE  it[T] = Read(it[T \ {Max(T)}], s[Max(T)])
    <3>1. Max(T) \in 1..n
      BY <1>1, <2>3, MaxPosition
    <3>2. it[T] = g[Max(T)][it[T \ {Max(T)}]]
      BY <2>1, <2>3 DEF FoldsUpTo
    <3>3. it[T \ {Max(T)}] \in V
      BY <2>2
    <3> QED BY <3>1, <3>2, <3>3, <1>2
  <2>4. \A T \in SUBSET (1..n) :
           it[T] = IF T = {} THEN v0 ELSE Read(it[T \ {Max(T)}], s[Max(T)])
    BY <2>2, <2>3
  <2> QED BY <1>1, <2>2, <2>4
<1>5. F(chosen)
  BY <1>4
<1> HIDE DEF chosen
<1>6. \A T \in SUBSET (1..n) :
         chosen[T] = IF T = {} THEN v0 ELSE Read(chosen[T \ {Max(T)}], s[Max(T)])
  BY <1>1, <1>5
<1>7. chosen[{}] = v0
  BY <1>6
<1>8. ASSUME NEW T \in SUBSET (1..n), T # {}, chosen[T \ {Max(T)}] \in V
      PROVE  chosen[T] = g[Max(T)][chosen[T \ {Max(T)}]]
  <2>1. Max(T) \in 1..n
    BY <1>1, <1>8, MaxPosition
  <2> QED BY <2>1, <1>2, <1>6, <1>8
<1>9. chosen[1..n] = Iterated(n, V, g, v0)
  BY <1>1, <1>7, <1>8, FoldIsIterated
<1> QED BY <1>1, <1>3, <1>9 DEF V, n, g, v0

\* What is read from chunks are files.
LEMMA FilesType ==
  ASSUME NEW s \in Seq(Chunks)
  PROVE  FilesOf(s) \in Seq(FileType)
<1>1. Len(s) \in Nat /\ ReadSteps(s) \in Steps(Len(s), Seq(FileType)) /\ <<>> \in Seq(FileType)
  BY ReadStepsType
<1>2. Iterated(Len(s), Seq(FileType), ReadSteps(s), <<>>) \in Seq(FileType)
  BY <1>1, IteratedType
<1> QED BY <1>2, FilesIterated

\* One chunk more.
LEMMA FilesAppend ==
  ASSUME NEW s \in Seq(Chunks), NEW c \in Chunks
  PROVE  FilesOf(Append(s, c)) = Read(FilesOf(s), c)
<1> DEFINE t == Append(s, c)
           n == Len(s)
           h == ReadSteps(s)
           g == ReadSteps(t)
           V == Seq(FileType)
<1>1. t \in Seq(Chunks) /\ n \in Nat /\ Len(t) = n + 1 /\ t[n + 1] = c
      /\ \A i \in 1..n : t[i] = s[i]
  BY AppendProperties, LenProperties
<1> HIDE DEF t
<1>2. h \in Steps(n, V) /\ g \in Steps(n + 1, V) /\ <<>> \in V
  BY <1>1, ReadStepsType
<1>3. \A i \in 1..n : h[i] = g[i]
  <2> SUFFICES ASSUME NEW i \in 1..n PROVE h[i] = g[i]
    OBVIOUS
  <2>1. i \in 1..(n + 1) /\ t[i] = s[i]
    BY <1>1
  <2> QED BY <1>1, <2>1 DEF ReadSteps
<1>4. FilesOf(s) = Iterated(n, V, h, <<>>)
      /\ FilesOf(t) = Iterated(n + 1, V, g, <<>>)
  BY <1>1, FilesIterated
<1> HIDE DEF h, g, n
<1>5. Iterated(n, V, h, <<>>) \in V
      /\ Iterated(n + 1, V, g, <<>>) = g[n + 1][Iterated(n, V, h, <<>>)]
  <2> HIDE DEF V
  <2> QED BY <1>1, <1>2, <1>3, IteratedNext
<1>6. \A v \in V : g[n + 1][v] = Read(v, c)
  <2>1. n + 1 \in 1..(n + 1)
    BY <1>1
  <2> QED BY <1>1, <2>1 DEF g, ReadSteps
<1> QED BY <1>4, <1>5, <1>6 DEF t

\* No chunks, no files.
LEMMA FilesEmpty == FilesOf(<<>>) = <<>>
<1> DEFINE s == <<>>
           v0 == <<>>
           V == Seq(FileType)
<1>1. s \in Seq(Chunks) /\ Len(s) = 0 /\ v0 \in V
  OBVIOUS
<1>2. FilesOf(s) = Iterated(Len(s), V, ReadSteps(s), v0) /\ ReadSteps(s) \in Steps(Len(s), V)
  BY <1>1, FilesIterated, ReadStepsType
<1> HIDE DEF s, v0, V
<1>3. FilesOf(s) = v0
  BY <1>1, <1>2, IteratedZero
<1> QED BY <1>3 DEF s, v0

\* Reading goes on in the same way when an earlier file has another head.
LEMMA ReadWithHead ==
  ASSUME NEW fs \in Seq(FileType), NEW k \in 1..Len(fs), NEW h \in Nat, NEW c \in Chunks
  PROVE  Read(WithHead(fs, k, h), c) = WithHead(Read(fs, c), k, h)
<1> DEFINE gs == WithHead(fs, k, h)
           n == Len(fs)
<1>0. n \in Nat /\ k \in 1..n /\ n \in 1..n /\ fs # <<>>
  BY LenProperties, EmptySeq
<1>1. /\ gs \in Seq(FileType) /\ Len(gs) = n /\ gs # <<>>
      /\ \A i \in 1..n : i # k => gs[i] = fs[i]
      /\ gs[k].head = h /\ gs[k].tail = fs[k].tail
      /\ gs[k].name = fs[k].name /\ gs[k].ins = fs[k].ins
  BY <1>0, HeadType, EmptySeq
<1>2. \A i \in 1..n : fs[i] \in FileType /\ gs[i] \in FileType
  BY <1>1, ElementOfSeq
<1> HIDE DEF gs
<1>3. CASE c.name # NoName
  <2> DEFINE f == StartedBy(c)
             r == Append(fs, f)
             l == Append(gs, f)
             w == WithHead(r, k, h)
  <2>1. f \in FileType
    BY <1>3, StartedType
  <2> HIDE DEF f
  <2>2. /\ r \in Seq(FileType) /\ Len(r) = n + 1 /\ r[n + 1] = f
        /\ \A i \in 1..n : r[i] = fs[i]
        /\ l \in Seq(FileType) /\ Len(l) = n + 1 /\ l[n + 1] = f
        /\ \A i \in 1..n : l[i] = gs[i]
    BY <1>1, <2>1, AppendProperties
  <2> HIDE DEF r, l
  <2>3. k \in 1..Len(r) /\ k # n + 1
    BY <1>0, <2>2
  <2>4. /\ w \in Seq(FileType) /\ Len(w) = n + 1
        /\ \A i \in 1..(n + 1) : i # k => w[i] = r[i]
        /\ w[k].head = h /\ w[k].tail = r[k].tail
        /\ w[k].name = r[k].name /\ w[k].ins = r[k].ins
    BY <2>2, <2>3, HeadType
  <2>5. w[k] \in FileType
    BY <2>2, <2>3, <2>4, ElementOfSeq
  <2> HIDE DEF w
  <2>6. w[k] = gs[k]
    BY <1>0, <1>1, <1>2, <2>2, <2>4, <2>5, FileEqual
  <2>7. \A i \in 1..(n + 1) : l[i] = w[i]
    <3> SUFFICES ASSUME NEW i \in 1..(n + 1) PROVE l[i] = w[i]
      OBVIOUS
    <3>1. i \in 1..n \/ i = n + 1
      BY <1>0
    <3>2. CASE i = k
      BY <1>0, <2>2, <2>3, <2>6, <3>1, <3>2
    <3>3. CASE i # k
      <4>1. w[i] = r[i]
        BY <2>4, <3>3
      <4> QED BY <1>0, <1>1, <2>2, <3>1, <3>3, <4>1
    <3> QED BY <3>2, <3>3
  <2>8. l = w
    BY <2>2, <2>4, <2>7, SeqEqual
  <2> QED BY <1>1, <1>3, <2>8, ReadIs DEF gs, l, w, r, f
<1>4. CASE c.name = NoName
  <2> DEFINE x == c.body.id
             r == WithTail(fs, n, x)
             l == WithTail(gs, n, x)
             w == WithHead(r, k, h)
  <2>1. x \in Nat
    BY ChunkFields
  <2> HIDE DEF x
  <2>2. /\ r \in Seq(FileType) /\ Len(r) = n
        /\ \A i \in 1..n : i # n => r[i] = fs[i]
        /\ r[n].head = fs[n].head /\ r[n].tail = Append(fs[n].tail, x)
        /\ r[n].name = fs[n].name /\ r[n].ins = fs[n].ins
    BY <1>0, <2>1, TailType
  <2>3. /\ l \in Seq(FileType) /\ Len(l) = n
        /\ \A i \in 1..n : i # n => l[i] = gs[i]
        /\ l[n].head = gs[n].head /\ l[n].tail = Append(gs[n].tail, x)
        /\ l[n].name = gs[n].name /\ l[n].ins = gs[n].ins
    BY <1>0, <1>1, <2>1, TailType
  <2> HIDE DEF r, l
  <2>4. /\ w \in Seq(FileType) /\ Len(w) = n
        /\ \A i \in 1..n : i # k => w[i] = r[i]
        /\ w[k].head = h /\ w[k].tail = r[k].tail
        /\ w[k].name = r[k].name /\ w[k].ins = r[k].ins
    BY <1>0, <2>2, HeadType
  <2> HIDE DEF w
  <2>5. \A i \in 1..n : l[i] \in FileType /\ w[i] \in FileType /\ r[i] \in FileType
    BY <2>2, <2>3, <2>4, ElementOfSeq
  <2>6. ASSUME NEW i \in 1..n PROVE l[i] = w[i]
    <3>1. l[i].name = w[i].name
      BY <1>0, <1>1, <2>2, <2>3, <2>4
    <3>2. l[i].ins = w[i].ins
      BY <1>0, <1>1, <2>2, <2>3, <2>4
    <3>3. l[i].head = w[i].head
      BY <1>0, <1>1, <2>2, <2>3, <2>4
    <3>4. l[i].tail = w[i].tail
      <4>1. gs[i].tail = fs[i].tail /\ w[i].tail = r[i].tail
        BY <1>0, <1>1, <2>4
      <4>2. CASE i # n
        BY <2>2, <2>3, <4>1, <4>2
      <4>3. CASE i = n
        BY <2>2, <2>3, <4>1, <4>3
      <4> QED BY <4>2, <4>3
    <3> QED BY <2>5, <3>1, <3>2, <3>3, <3>4, FileEqual
  <2>7. l = w
    BY <2>3, <2>4, <2>6, SeqEqual
  <2> QED BY <1>0, <1>1, <1>4, <2>7, ReadIs DEF gs, l, w, r, x
<1> QED BY <1>3, <1>4

\* Nor does one more append to a file keep the reader from going on in the same way,
\* if the file is not the last or the next chunk starts another.
LEMMA ReadWithTail ==
  ASSUME NEW fs \in Seq(FileType), NEW k \in 1..Len(fs), NEW x \in Nat, NEW c \in Chunks,
         k < Len(fs) \/ c.name # NoName
  PROVE  Read(WithTail(fs, k, x), c) = WithTail(Read(fs, c), k, x)
<1> DEFINE gs == WithTail(fs, k, x)
           n == Len(fs)
<1>0. n \in Nat /\ k \in 1..n /\ n \in 1..n /\ fs # <<>>
  BY LenProperties, EmptySeq
<1>1. /\ gs \in Seq(FileType) /\ Len(gs) = n /\ gs # <<>>
      /\ \A i \in 1..n : i # k => gs[i] = fs[i]
      /\ gs[k].head = fs[k].head /\ gs[k].tail = Append(fs[k].tail, x)
      /\ gs[k].name = fs[k].name /\ gs[k].ins = fs[k].ins
  BY <1>0, TailType, EmptySeq
<1>2. \A i \in 1..n : fs[i] \in FileType /\ gs[i] \in FileType
  BY <1>1, ElementOfSeq
<1> HIDE DEF gs
<1>3. CASE c.name # NoName
  <2> DEFINE f == StartedBy(c)
             r == Append(fs, f)
             l == Append(gs, f)
             w == WithTail(r, k, x)
  <2>1. f \in FileType
    BY <1>3, StartedType
  <2> HIDE DEF f
  <2>2. /\ r \in Seq(FileType) /\ Len(r) = n + 1 /\ r[n + 1] = f
        /\ \A i \in 1..n : r[i] = fs[i]
        /\ l \in Seq(FileType) /\ Len(l) = n + 1 /\ l[n + 1] = f
        /\ \A i \in 1..n : l[i] = gs[i]
    <3>1. /\ r \in Seq(FileType) /\ Len(r) = n + 1 /\ r[n + 1] = f
          /\ \A i \in 1..n : r[i] = fs[i]
      BY <2>1, AppendProperties
    <3>2. /\ l \in Seq(FileType) /\ Len(l) = Len(gs) + 1 /\ l[Len(gs) + 1] = f
          /\ \A i \in 1..Len(gs) : l[i] = gs[i]
      <4>1. gs \in Seq(FileType)
        BY <1>1
      <4> QED BY ONLY <4>1, <2>1, AppendProperties
    <3> QED BY <1>1, <3>1, <3>2
  <2> HIDE DEF r, l
  <2>3. k \in 1..Len(r) /\ k # n + 1
    BY <1>0, <2>2
  <2>4. /\ w \in Seq(FileType) /\ Len(w) = n + 1
        /\ \A i \in 1..(n + 1) : i # k => w[i] = r[i]
        /\ w[k].head = r[k].head /\ w[k].tail = Append(r[k].tail, x)
        /\ w[k].name = r[k].name /\ w[k].ins = r[k].ins
    BY <2>2, <2>3, TailType, SMTT(30)
  <2>5. w[k] \in FileType
    BY <2>2, <2>3, <2>4, ElementOfSeq
  <2> HIDE DEF w
  <2>6. w[k] = gs[k]
    <3>1. r[k] = fs[k] /\ gs[k] \in FileType
      BY <1>0, <1>2, <2>2
    <3>2. w[k].name = gs[k].name /\ w[k].ins = gs[k].ins
          /\ w[k].head = gs[k].head /\ w[k].tail = gs[k].tail
      BY <1>1, <2>4, <3>1
    <3> QED BY <2>5, <3>1, <3>2, FileEqual
  <2>7. \A i \in 1..(n + 1) : l[i] = w[i]
    BY <1>0, <1>1, <2>2, <2>3, <2>4, <2>6, SMTT(30)
  <2>8. l = w
    BY <2>2, <2>4, <2>7, SeqEqual
  <2> QED BY <1>1, <1>3, <2>8, ReadIs DEF gs, l, w, r, f
<1>4. CASE c.name = NoName
  <2> DEFINE y == c.body.id
             r == WithTail(fs, n, y)
             l == WithTail(gs, n, y)
             w == WithTail(r, k, x)
  <2>1. y \in Nat /\ k # n
    BY <1>0, <1>4, ChunkFields
  <2> HIDE DEF y
  <2>2. /\ r \in Seq(FileType) /\ Len(r) = n
        /\ \A i \in 1..n : i # n => r[i] = fs[i]
        /\ r[n].head = fs[n].head /\ r[n].tail = Append(fs[n].tail, y)
        /\ r[n].name = fs[n].name /\ r[n].ins = fs[n].ins
    BY <1>0, <2>1, TailType
  <2>3. /\ l \in Seq(FileType) /\ Len(l) = n
        /\ \A i \in 1..n : i # n => l[i] = gs[i]
        /\ l[n].head = gs[n].head /\ l[n].tail = Append(gs[n].tail, y)
        /\ l[n].name = gs[n].name /\ l[n].ins = gs[n].ins
    BY <1>0, <1>1, <2>1, TailType
  <2> HIDE DEF r, l
  <2>4. /\ w \in Seq(FileType) /\ Len(w) = n
        /\ \A i \in 1..n : i # k => w[i] = r[i]
        /\ w[k].head = r[k].head /\ w[k].tail = Append(r[k].tail, x)
        /\ w[k].name = r[k].name /\ w[k].ins = r[k].ins
    BY <1>0, <2>2, TailType
  <2> HIDE DEF w
  <2>5. \A i \in 1..n : l[i] \in FileType /\ w[i] \in FileType /\ r[i] \in FileType
    BY <2>2, <2>3, <2>4, ElementOfSeq
  <2>6. ASSUME NEW i \in 1..n PROVE l[i] = w[i]
    <3>1. l[i].name = w[i].name
      BY <1>0, <1>1, <2>1, <2>2, <2>3, <2>4
    <3>2. l[i].ins = w[i].ins
      BY <1>0, <1>1, <2>1, <2>2, <2>3, <2>4
    <3>3. l[i].head = w[i].head
      BY <1>0, <1>1, <2>1, <2>2, <2>3, <2>4
    <3>4. l[i].tail = w[i].tail
      <4>1. CASE i = n
        <5>1. l[n].tail = Append(gs[n].tail, y) /\ gs[n] = fs[n]
          BY <1>0, <1>1, <2>1, <2>3
        <5>2. w[n] = r[n] /\ r[n].tail = Append(fs[n].tail, y)
          BY <1>0, <2>1, <2>2, <2>4
        <5> QED BY <4>1, <5>1, <5>2
      <4>2. CASE i = k
        <5>1. l[k] = gs[k] /\ gs[k].tail = Append(fs[k].tail, x)
          BY <1>0, <1>1, <2>1, <2>3
        <5>2. w[k].tail = Append(r[k].tail, x) /\ r[k] = fs[k]
          BY <1>0, <2>1, <2>2, <2>4
        <5> QED BY <4>2, <5>1, <5>2
      <4>3. CASE i # n /\ i # k
        <5>1. l[i] = gs[i] /\ gs[i] = fs[i]
          BY <1>1, <2>3, <4>3
        <5>2. w[i] = r[i] /\ r[i] = fs[i]
          BY <2>2, <2>4, <4>3
        <5> QED BY <5>1, <5>2
      <4> QED BY <4>1, <4>2, <4>3
    <3> QED BY <2>5, <3>1, <3>2, <3>3, <3>4, FileEqual
  <2>7. l = w
    BY <2>3, <2>4, <2>6, SeqEqual
  <2> QED BY <1>0, <1>1, <1>4, <2>7, ReadIs DEF gs, l, w, r, y
<1> QED BY <1>3, <1>4

\* How many files one chunk more makes, and that those before keep their names.
LEMMA ReadKeeps ==
  ASSUME NEW fs \in Seq(FileType), NEW c \in Chunks
  PROVE  /\ Len(Read(fs, c)) = IF c.name = NoName THEN Len(fs) ELSE Len(fs) + 1
         /\ \A i \in 1..Len(fs) : Read(fs, c)[i].name = fs[i].name
                                  /\ Read(fs, c)[i].ins = fs[i].ins
         /\ c.name # NoName => Read(fs, c)[Len(fs) + 1] = StartedBy(c)
<1>1. CASE c.name # NoName
  <2>1. Read(fs, c) = Append(fs, StartedBy(c)) /\ StartedBy(c) \in FileType
    BY <1>1, ReadIs, StartedType
  <2>2. /\ Len(Append(fs, StartedBy(c))) = Len(fs) + 1
        /\ Append(fs, StartedBy(c))[Len(fs) + 1] = StartedBy(c)
        /\ \A i \in 1..Len(fs) : Append(fs, StartedBy(c))[i] = fs[i]
    BY <2>1, AppendProperties
  <2> QED BY <1>1, <2>1, <2>2
<1>2. CASE c.name = NoName /\ fs = <<>>
  BY <1>2, ReadIs
<1>3. CASE c.name = NoName /\ fs # <<>>
  <2>1. Len(fs) \in 1..Len(fs) /\ c.body.id \in Nat
    BY <1>3, ChunkFields, EmptySeq
  <2>2. Read(fs, c) = WithTail(fs, Len(fs), c.body.id)
    BY <1>3, ReadIs
  <2>3. /\ Len(WithTail(fs, Len(fs), c.body.id)) = Len(fs)
        /\ \A i \in 1..Len(fs) : WithTail(fs, Len(fs), c.body.id)[i].name = fs[i].name
                                 /\ WithTail(fs, Len(fs), c.body.id)[i].ins = fs[i].ins
    BY <2>1, TailType
  <2> QED BY <1>3, <2>2, <2>3
<1> QED BY <1>1, <1>2, <1>3

-----------------------------------------------------------------------------
(* Reading in parts.                                                       *)

\* One chunk more behind two parts.
LEMMA FilesConcatAppend ==
  ASSUME NEW p \in Seq(Chunks), NEW q \in Seq(Chunks), NEW c \in Chunks
  PROVE  /\ p \o q \in Seq(Chunks)
         /\ FilesOf(p \o q) \in Seq(FileType)
         /\ FilesOf(p \o Append(q, c)) = Read(FilesOf(p \o q), c)
<1> DEFINE s == p \o q
<1>1. s \in Seq(Chunks)
  BY ConcatProperties
<1>2. p \o Append(q, c) = Append(s, c)
  BY ConcatAppend
<1> HIDE DEF s
<1>3. FilesOf(Append(s, c)) = Read(FilesOf(s), c) /\ FilesOf(s) \in Seq(FileType)
  BY <1>1, FilesAppend, FilesType
<1> QED BY <1>1, <1>2, <1>3 DEF s

\* What comes after changes neither the number of files before nor their names.
LEMMA FilesKept ==
  ASSUME NEW p \in Seq(Chunks), NEW q \in Seq(Chunks)
  PROVE  /\ p \o q \in Seq(Chunks)
         /\ Len(FilesOf(p \o q)) >= Len(FilesOf(p))
         /\ \A i \in 1..Len(FilesOf(p)) : /\ FilesOf(p \o q)[i].name = FilesOf(p)[i].name
                                          /\ FilesOf(p \o q)[i].ins = FilesOf(p)[i].ins
<1> DEFINE n == Len(FilesOf(p))
           Ok(r) == /\ Len(FilesOf(p \o r)) >= n
                    /\ \A i \in 1..n : /\ FilesOf(p \o r)[i].name = FilesOf(p)[i].name
                                       /\ FilesOf(p \o r)[i].ins = FilesOf(p)[i].ins
           S == {r \in Seq(Chunks) : Ok(r)}
<1>0. n \in Nat
  BY FilesType, LenProperties
<1>1. <<>> \in S
  <2>1. p \o <<>> = p /\ <<>> \in Seq(Chunks)
    BY ConcatEmptySeq
  <2> QED BY <1>0, <2>1
<1>2. ASSUME NEW r \in Seq(Chunks), NEW c \in Chunks, r \in S PROVE Append(r, c) \in S
  <2> DEFINE fs == FilesOf(p \o r)
  <2>1. p \o r \in Seq(Chunks) /\ Append(r, c) \in Seq(Chunks)
    BY ConcatProperties, AppendProperties
  <2>2. FilesOf(p \o Append(r, c)) = Read(fs, c)
    BY FilesConcatAppend
  <2>3. fs \in Seq(FileType) /\ Len(fs) \in Nat
    BY <2>1, FilesType, LenProperties
  <2>4. Len(fs) >= n /\ \A i \in 1..n : fs[i].name = FilesOf(p)[i].name
                                        /\ fs[i].ins = FilesOf(p)[i].ins
    BY <1>2
  <2> HIDE DEF fs, n
  <2>5. Len(Read(fs, c)) >= Len(fs) /\ \A i \in 1..Len(fs) : Read(fs, c)[i].name = fs[i].name
                                                      /\ Read(fs, c)[i].ins = fs[i].ins
    BY <2>3, ReadKeeps
  <2>6. \A i \in 1..n : i \in 1..Len(fs)
    BY <1>0, <2>3, <2>4
  <2>7. Len(Read(fs, c)) >= n
    <3>1. Len(Read(fs, c)) \in Nat
      BY <2>3, ReadType, LenProperties
    <3> QED BY <1>0, <2>3, <2>4, <2>5, <3>1
  <2>8. Ok(Append(r, c))
    BY <2>2, <2>4, <2>5, <2>6, <2>7
  <2> QED BY <2>1, <2>8
<1>3. Seq(Chunks) \subseteq S
  <2> HIDE DEF S
  <2> QED BY <1>1, <1>2, SeqInduct
<1> QED BY <1>3, ConcatProperties

\* Chunks without a name make no more files.
LEMMA NamelessMakeNone ==
  ASSUME NEW p \in Seq(Chunks), NEW q \in Seq(Chunks), \A i \in 1..Len(q) : q[i].name = NoName
  PROVE  Len(FilesOf(p \o q)) = Len(FilesOf(p))
<1> DEFINE Nameless(r) == \A i \in 1..Len(r) : r[i].name = NoName
           S == {r \in Seq(Chunks) : Nameless(r) => Len(FilesOf(p \o r)) = Len(FilesOf(p))}
<1>1. <<>> \in S
  <2>1. p \o <<>> = p /\ <<>> \in Seq(Chunks)
    BY ConcatEmptySeq
  <2> QED BY <2>1
<1>2. ASSUME NEW r \in Seq(Chunks), NEW c \in Chunks, r \in S PROVE Append(r, c) \in S
  <2>1. p \o r \in Seq(Chunks) /\ Append(r, c) \in Seq(Chunks)
    BY ConcatProperties, AppendProperties
  <2> SUFFICES ASSUME Nameless(Append(r, c))
               PROVE  Len(FilesOf(p \o Append(r, c))) = Len(FilesOf(p))
    BY <2>1
  <2>2. Nameless(r) /\ c.name = NoName
    <3>1. /\ Len(r) \in Nat /\ Len(Append(r, c)) = Len(r) + 1 /\ Append(r, c)[Len(r) + 1] = c
          /\ \A i \in 1..Len(r) : Append(r, c)[i] = r[i]
      BY AppendProperties, LenProperties
    <3>2. Len(r) + 1 \in 1..(Len(r) + 1) /\ \A i \in 1..Len(r) : i \in 1..(Len(r) + 1)
      BY <3>1
    <3> QED BY <3>1, <3>2
  <2>3. FilesOf(p \o Append(r, c)) = Read(FilesOf(p \o r), c)
    BY FilesConcatAppend
  <2>4. FilesOf(p \o r) \in Seq(FileType)
    BY <2>1, FilesType
  <2>5. Len(FilesOf(p \o r)) = Len(FilesOf(p))
    BY <1>2, <2>2
  <2>6. Len(Read(FilesOf(p \o r), c)) = Len(FilesOf(p \o r))
    BY <2>2, <2>4, ReadKeeps
  <2> QED BY <2>3, <2>5, <2>6
<1>3. Seq(Chunks) \subseteq S
  <2> HIDE DEF S
  <2> QED BY <1>1, <1>2, SeqInduct
<1> QED BY <1>3

\* Chunks of which none starts file n start no such file.
LEMMA NoSuchFile ==
  ASSUME NEW p \in Seq(Chunks), NEW n, n # NoName, \A i \in 1..Len(p) : ~IsFileOf(p[i], n)
  PROVE  \A i \in 1..Len(FilesOf(p)) : FilesOf(p)[i].name = n => FilesOf(p)[i].ins
<1> DEFINE None(r) == \A i \in 1..Len(r) : ~IsFileOf(r[i], n)
           Ok(r) == \A i \in 1..Len(FilesOf(r)) : FilesOf(r)[i].name = n => FilesOf(r)[i].ins
           S == {r \in Seq(Chunks) : None(r) => Ok(r)}
<1>1. <<>> \in S
  <2>1. <<>> \in Seq(Chunks) /\ Len(FilesOf(<<>>)) = 0
    BY FilesEmpty
  <2> QED BY <2>1
<1>2. ASSUME NEW r \in Seq(Chunks), NEW c \in Chunks, r \in S PROVE Append(r, c) \in S
  <2> DEFINE fs == FilesOf(r)
             gs == Read(fs, c)
  <2>1. Append(r, c) \in Seq(Chunks) /\ FilesOf(Append(r, c)) = gs
    BY AppendProperties, FilesAppend
  <2> SUFFICES ASSUME None(Append(r, c)) PROVE Ok(Append(r, c))
    BY <2>1
  <2>2. None(r) /\ ~IsFileOf(c, n)
    <3>1. /\ Len(r) \in Nat /\ Len(Append(r, c)) = Len(r) + 1 /\ Append(r, c)[Len(r) + 1] = c
          /\ \A i \in 1..Len(r) : Append(r, c)[i] = r[i]
      BY AppendProperties, LenProperties
    <3>2. Len(r) + 1 \in 1..(Len(r) + 1) /\ \A i \in 1..Len(r) : i \in 1..(Len(r) + 1)
      BY <3>1
    <3> QED BY <3>1, <3>2
  <2>3. fs \in Seq(FileType) /\ Len(fs) \in Nat
    BY FilesType, LenProperties
  <2>4. \A i \in 1..Len(fs) : fs[i].name = n => fs[i].ins
    BY <1>2, <2>2
  <2>5. /\ Len(gs) = IF c.name = NoName THEN Len(fs) ELSE Len(fs) + 1
        /\ \A i \in 1..Len(fs) : gs[i].name = fs[i].name /\ gs[i].ins = fs[i].ins
        /\ c.name # NoName => gs[Len(fs) + 1] = StartedBy(c)
    BY <2>3, ReadKeeps
  <2>6. c.name # NoName => StartedBy(c).name = c.name /\ StartedBy(c).ins = c.ins
    BY StartedType
  <2> HIDE DEF fs, gs
  <2>7. \A i \in 1..Len(gs) : gs[i].name = n => gs[i].ins
    <3> SUFFICES ASSUME NEW i \in 1..Len(gs), gs[i].name = n PROVE gs[i].ins
      OBVIOUS
    <3>1. i \in 1..Len(fs) \/ (c.name # NoName /\ i = Len(fs) + 1)
      BY <2>3, <2>5
    <3>2. CASE i \in 1..Len(fs)
      BY <2>4, <2>5, <3>2
    <3>3. CASE c.name # NoName /\ i = Len(fs) + 1
      BY <2>2, <2>5, <2>6, <3>3 DEF IsFileOf
    <3> QED BY <3>1, <3>2, <3>3
  <2> QED BY <2>1, <2>7
<1>3. Seq(Chunks) \subseteq S
  <2> HIDE DEF S
  <2> QED BY <1>1, <1>2, SeqInduct
<1> QED BY <1>3

\* A chunk replaced by one of the same name, neither an append, gives its file
\* another head; whatever comes after it.
LEMMA HeadReplaced ==
  ASSUME NEW p \in Seq(Chunks), NEW c \in Chunks, NEW d \in Chunks, NEW q \in Seq(Chunks),
         c.name # NoName, d.name = c.name, d.ins = c.ins
  PROVE  /\ Len(FilesOf(p)) + 1 \in 1..Len(FilesOf(Append(p, c) \o q))
         /\ FilesOf(Append(p, d) \o q)
              = WithHead(FilesOf(Append(p, c) \o q), Len(FilesOf(p)) + 1, d.body.id)
<1> DEFINE k == Len(FilesOf(p)) + 1
           h == d.body.id
           pc == Append(p, c)
           pd == Append(p, d)
           Ok(r) == /\ k <= Len(FilesOf(pc \o r))
                    /\ FilesOf(pd \o r) = WithHead(FilesOf(pc \o r), k, h)
           S == {r \in Seq(Chunks) : Ok(r)}
<1>0. k \in Nat /\ k > 0 /\ h \in Nat
  BY FilesType, LenProperties, ChunkFields
<1>1. pc \in Seq(Chunks) /\ pd \in Seq(Chunks)
  BY AppendProperties
<1>2. k = Len(FilesOf(pc)) /\ FilesOf(pd) = WithHead(FilesOf(pc), k, h)
  <2> DEFINE fs == FilesOf(p)
             f  == StartedBy(c)
             g  == StartedBy(d)
             l  == Append(fs, g)
             r  == Append(fs, f)
             w  == WithHead(r, k, h)
  <2>1. fs \in Seq(FileType) /\ Len(fs) \in Nat
    BY FilesType, LenProperties
  <2>2. /\ f \in FileType /\ g \in FileType /\ g.name = f.name /\ g.ins = f.ins
        /\ g.head = h /\ g.tail = f.tail
    <3>1. /\ f \in FileType /\ f.name = c.name /\ f.ins = c.ins /\ f.tail = <<>>
      BY StartedType
    <3>2. /\ g \in FileType /\ g.name = d.name /\ g.ins = d.ins /\ g.head = h /\ g.tail = <<>>
      BY StartedType
    <3> QED BY <3>1, <3>2
  <2>3. FilesOf(pc) = r /\ FilesOf(pd) = l
    <3>1. FilesOf(pc) = Read(fs, c) /\ FilesOf(pd) = Read(fs, d)
      BY FilesAppend
    <3> QED BY <2>1, <3>1, ReadIs
  <2> HIDE DEF fs, f, g, h
  <2>4. /\ l \in Seq(FileType) /\ Len(l) = k /\ l[k] = g /\ \A i \in 1..Len(fs) : l[i] = fs[i]
    BY <2>1, <2>2, AppendProperties DEF fs
  <2>5. /\ r \in Seq(FileType) /\ Len(r) = k /\ r[k] = f /\ \A i \in 1..Len(fs) : r[i] = fs[i]
    BY <2>1, <2>2, AppendProperties DEF fs
  <2> HIDE DEF l, r
  <2>6. k \in 1..Len(r)
    BY <1>0, <2>5
  <2>7. /\ w \in Seq(FileType) /\ Len(w) = k
        /\ \A i \in 1..k : i # k => w[i] = r[i]
        /\ w[k].head = h /\ w[k].tail = r[k].tail
        /\ w[k].name = r[k].name /\ w[k].ins = r[k].ins
    <3>1. r \in Seq(FileType) /\ h \in Nat
      BY <1>0, <2>5
    <3> QED BY <2>5, <2>6, <3>1, HeadType, SMTT(30)
  <2>8. w[k] \in FileType
    BY <1>0, <2>7, ElementOfSeq
  <2> HIDE DEF w
  <2>9. w[k] = l[k]
    <3>1. w[k].name = g.name /\ w[k].ins = g.ins /\ w[k].head = g.head /\ w[k].tail = g.tail
      BY <2>2, <2>5, <2>7
    <3> QED BY <2>2, <2>4, <2>8, <3>1, FileEqual
  <2>10. ASSUME NEW i \in 1..k PROVE l[i] = w[i]
    <3>1. i = k \/ (i # k /\ i \in 1..Len(fs))
      BY <1>0, <2>1 DEF fs
    <3> QED BY <2>4, <2>5, <2>7, <2>9, <3>1
  <2>11. l = w
    BY <2>4, <2>7, <2>10, SeqEqual
  <2> QED BY <2>3, <2>5, <2>11 DEF w
<1> HIDE DEF k, h, pc, pd
<1>3. <<>> \in S
  <2>1. pc \o <<>> = pc /\ pd \o <<>> = pd /\ <<>> \in Seq(Chunks)
    BY <1>1, ConcatEmptySeq
  <2> QED BY <1>0, <1>2, <2>1
<1>4. ASSUME NEW r \in Seq(Chunks), NEW x \in Chunks, r \in S PROVE Append(r, x) \in S
  <2> DEFINE fs == FilesOf(pc \o r)
  <2>1. /\ fs \in Seq(FileType)
        /\ FilesOf(pc \o Append(r, x)) = Read(fs, x)
        /\ FilesOf(pd \o Append(r, x)) = Read(FilesOf(pd \o r), x)
    BY <1>1, FilesConcatAppend
  <2>2. k <= Len(fs) /\ FilesOf(pd \o r) = WithHead(fs, k, h)
    BY <1>4
  <2> HIDE DEF fs
  <2>3. Len(fs) \in Nat /\ k \in 1..Len(fs)
    BY <1>0, <2>1, <2>2, LenProperties
  <2>4. Read(WithHead(fs, k, h), x) = WithHead(Read(fs, x), k, h)
    BY <1>0, <2>1, <2>3, ReadWithHead
  <2>5. k <= Len(Read(fs, x))
    <3>1. Len(Read(fs, x)) = IF x.name = NoName THEN Len(fs) ELSE Len(fs) + 1
      BY <2>1, ReadKeeps
    <3> QED BY <2>3, <3>1
  <2>6. Append(r, x) \in Seq(Chunks)
    BY AppendProperties
  <2> QED BY <2>1, <2>2, <2>4, <2>5, <2>6
<1>5. Seq(Chunks) \subseteq S
  <2> HIDE DEF S
  <2> QED BY <1>3, <1>4, SeqInduct
<1>6. Ok(q)
  BY <1>5
<1>7. Append(p, c) \o q \in Seq(Chunks)
  BY <1>1, ConcatProperties DEF pc
<1>8. Len(FilesOf(pc \o q)) \in Nat
  BY <1>7, FilesType, LenProperties DEF pc
<1>9. k \in 1..Len(FilesOf(pc \o q))
  BY <1>0, <1>6, <1>8
<1> QED BY <1>6, <1>9 DEF k, h, pc, pd

\* A chunk without a name, put where its file's chunks end, adds to that file's
\* tail; whatever comes after it.
LEMMA TailSpliced ==
  ASSUME NEW p \in Seq(Chunks), NEW c \in Chunks, NEW q \in Seq(Chunks),
         c.name = NoName, FilesOf(p) # <<>>, q # <<>> => q[1].name # NoName
  PROVE  FilesOf(Append(p, c) \o q) = WithTail(FilesOf(p \o q), Len(FilesOf(p)), c.body.id)
<1> DEFINE k == Len(FilesOf(p))
           x == c.body.id
           pc == Append(p, c)
           Ok(r) == /\ k <= Len(FilesOf(p \o r))
                    /\ r # <<>> => k < Len(FilesOf(p \o r))
                    /\ FilesOf(pc \o r) = WithTail(FilesOf(p \o r), k, x)
           S == {r \in Seq(Chunks) : (r # <<>> => r[1].name # NoName) => Ok(r)}
<1>0. k \in Nat /\ k > 0 /\ x \in Nat
  <2>1. FilesOf(p) \in Seq(FileType)
    BY FilesType
  <2> QED BY <2>1, LenProperties, EmptySeq, ChunkFields
<1>1. pc \in Seq(Chunks)
  BY AppendProperties
<1>2. FilesOf(pc) = WithTail(FilesOf(p), k, x)
  <2>1. FilesOf(pc) = Read(FilesOf(p), c) /\ FilesOf(p) \in Seq(FileType)
    BY FilesAppend, FilesType
  <2> QED BY <2>1, ReadIs
<1> HIDE DEF k, x, pc
<1>3. <<>> \in S
  <2>1. pc \o <<>> = pc /\ p \o <<>> = p /\ <<>> \in Seq(Chunks)
    BY <1>1, ConcatEmptySeq
  <2>2. Len(FilesOf(p)) = k
    BY DEF k
  <2> QED BY <1>0, <1>2, <2>1, <2>2
<1>4. ASSUME NEW r \in Seq(Chunks), NEW d \in Chunks, r \in S PROVE Append(r, d) \in S
  <2> DEFINE fs == FilesOf(p \o r)
  <2>0. Append(r, d) \in Seq(Chunks)
    BY AppendProperties
  <2> SUFFICES ASSUME Append(r, d)[1].name # NoName PROVE Ok(Append(r, d))
    <3>1. Append(r, d) # <<>>
      BY AppendProperties
    <3> QED BY <2>0, <3>1
  <2>1. /\ fs \in Seq(FileType)
        /\ FilesOf(p \o Append(r, d)) = Read(fs, d)
        /\ FilesOf(pc \o Append(r, d)) = Read(FilesOf(pc \o r), d)
    BY <1>1, FilesConcatAppend
  <2>2. (r # <<>> => r[1].name # NoName) /\ (r = <<>> => d.name # NoName)
    <3>1. CASE r = <<>>
      <4>1. Append(r, d)[1] = d
        BY <3>1
      <4> QED BY <3>1, <4>1
    <3>2. CASE r # <<>>
      <4>1. 1 \in 1..Len(r)
        BY <3>2, EmptySeq, LenProperties
      <4>2. Append(r, d)[1] = r[1]
        BY <4>1, AppendProperties
      <4> QED BY <3>2, <4>2
    <3> QED BY <3>1, <3>2
  <2>3. k <= Len(fs) /\ FilesOf(pc \o r) = WithTail(fs, k, x) /\ (r # <<>> => k < Len(fs))
    BY <1>4, <2>2
  <2> HIDE DEF fs
  <2>4. Len(fs) \in Nat /\ k \in 1..Len(fs) /\ (k < Len(fs) \/ d.name # NoName)
    BY <1>0, <2>1, <2>2, <2>3, LenProperties
  <2>5. Read(WithTail(fs, k, x), d) = WithTail(Read(fs, d), k, x)
    BY <1>0, <2>1, <2>4, ReadWithTail
  <2>6. k < Len(Read(fs, d))
    <3>1. Len(Read(fs, d)) = IF d.name = NoName THEN Len(fs) ELSE Len(fs) + 1
      BY <2>1, ReadKeeps
    <3> QED BY <1>0, <2>4, <3>1
  <2>7. k <= Len(Read(fs, d))
    <3>1. Len(Read(fs, d)) \in Nat
      BY <2>1, ReadType, LenProperties
    <3> QED BY <1>0, <2>6, <3>1
  <2> QED BY <2>1, <2>3, <2>5, <2>6, <2>7
<1>5. Seq(Chunks) \subseteq S
  <2> HIDE DEF S
  <2> QED BY <1>3, <1>4, SeqInduct
<1>6. Ok(q)
  BY <1>5
<1> QED BY <1>6 DEF k, x, pc

-----------------------------------------------------------------------------
(* The steps.                                                              *)

\* The place of the file that chunk i starts.
Place(s, i) == Len(FilesOf(FirstOf(s, i - 1))) + 1

\* indexOfFile: the first chunk that starts file n is read as the first file n.
LEMMA FirstIsFirst ==
  ASSUME NEW s \in Seq(Chunks), NEW i \in 1..Len(s), NEW n, n # NoName,
         IsFileOf(s[i], n), \A j \in 1..(i - 1) : ~IsFileOf(s[j], n)
  PROVE  /\ Place(s, i) \in 1..Len(FilesOf(s))
         /\ FilesOf(s)[Place(s, i)].name = n /\ ~FilesOf(s)[Place(s, i)].ins
         /\ \A j \in 1..(Place(s, i) - 1) : FilesOf(s)[j].name = n => FilesOf(s)[j].ins
<1> DEFINE p == FirstOf(s, i - 1)
           q == RestOf(s, i)
           c == s[i]
           k == Len(FilesOf(p)) + 1
           pc == Append(p, c)
<1>1. c \in Chunks /\ c.name = n /\ ~c.ins
  BY ElementOfSeq DEF IsFileOf
<1>2. /\ p \in Seq(Chunks) /\ q \in Seq(Chunks)
      /\ \A j \in 1..Len(p) : ~IsFileOf(p[j], n)
  <2>1. i - 1 \in 0..Len(s) /\ i \in 0..Len(s)
    BY LenProperties
  <2>2. p \in Seq(Chunks) /\ Len(p) = i - 1 /\ \A j \in 1..(i - 1) : p[j] = s[j]
    BY <2>1, FirstOfIs
  <2>3. q \in Seq(Chunks)
    BY <2>1, RestOfIs
  <2> HIDE DEF p, q
  <2> QED BY <2>2, <2>3
<1>3. s = pc \o q
  <2>1. Put(s, i, c) = pc \o q
    BY <1>1, PutParts
  <2>2. Put(s, i, c) = s
    BY PutSame
  <2> QED BY <2>1, <2>2
<1> HIDE DEF p, q, c
<1>4. FilesOf(p) \in Seq(FileType) /\ Len(FilesOf(p)) \in Nat
  BY <1>2, FilesType, LenProperties
<1>5. \A j \in 1..Len(FilesOf(p)) : FilesOf(p)[j].name = n => FilesOf(p)[j].ins
  BY <1>2, NoSuchFile
<1>6. pc \in Seq(Chunks) /\ FilesOf(pc) = Read(FilesOf(p), c)
  BY <1>1, <1>2, FilesAppend, AppendProperties
<1> HIDE DEF pc
<1>7. /\ Len(FilesOf(pc)) = k
      /\ FilesOf(pc)[k].name = n /\ ~FilesOf(pc)[k].ins
      /\ \A j \in 1..(k - 1) : FilesOf(pc)[j].name = FilesOf(p)[j].name
                               /\ FilesOf(pc)[j].ins = FilesOf(p)[j].ins
  <2>1. /\ Len(Read(FilesOf(p), c)) = Len(FilesOf(p)) + 1
        /\ Read(FilesOf(p), c)[Len(FilesOf(p)) + 1] = StartedBy(c)
        /\ \A j \in 1..Len(FilesOf(p)) : Read(FilesOf(p), c)[j].name = FilesOf(p)[j].name
                                  /\ Read(FilesOf(p), c)[j].ins = FilesOf(p)[j].ins
    BY <1>1, <1>4, ReadKeeps
  <2>2. StartedBy(c).name = n /\ ~StartedBy(c).ins
    BY <1>1 DEF StartedBy
  <2>3. k - 1 = Len(FilesOf(p))
    BY <1>4
  <2> QED BY <1>6, <2>1, <2>2, <2>3
<1>8. /\ Len(FilesOf(s)) >= k
      /\ \A j \in 1..k : FilesOf(s)[j].name = FilesOf(pc)[j].name
                         /\ FilesOf(s)[j].ins = FilesOf(pc)[j].ins
  <2>1. /\ Len(FilesOf(pc \o q)) >= Len(FilesOf(pc))
        /\ \A j \in 1..Len(FilesOf(pc)) :
              /\ FilesOf(pc \o q)[j].name = FilesOf(pc)[j].name
              /\ FilesOf(pc \o q)[j].ins = FilesOf(pc)[j].ins
    BY <1>2, <1>6, FilesKept
  <2>2. Len(FilesOf(pc)) = k /\ pc \o q = s
    BY <1>3, <1>7
  <2> HIDE DEF k
  <2> QED BY <2>1, <2>2
<1>9. Len(FilesOf(s)) \in Nat
  BY FilesType, LenProperties
<1>10. k \in 1..Len(FilesOf(s)) /\ k \in 1..k /\ \A j \in 1..(k - 1) : j \in 1..k
                                  /\ j \in 1..Len(FilesOf(p))
  BY <1>4, <1>8, <1>9
<1>11. FilesOf(s)[k].name = n /\ ~FilesOf(s)[k].ins
  BY <1>7, <1>8, <1>10
<1>12. ASSUME NEW j \in 1..(k - 1), FilesOf(s)[j].name = n PROVE FilesOf(s)[j].ins
  BY <1>5, <1>7, <1>8, <1>10, <1>12
<1> QED BY <1>10, <1>11, <1>12 DEF p, Place

\* What an accepted artifact's chunk is.
LEMMA ChunkOf ==
  ASSUME IndInv, NEW a \in Artifacts, Handling(a),
         a.kind \in GeneratorKinds, CleanName[a.name] # Refused
  PROVE  /\ Chunk(a) \in Chunks /\ Chunk(a).body.id = Len(done) + 1
         /\ CleanName[a.name] \in Names /\ CleanName[a.name] # NoName
         /\ Chunk(a).name = IF a.kind \in AppendKinds THEN NoName ELSE CleanName[a.name]
         /\ a.kind \notin InjectKinds => Chunk(a).ins = FALSE
<1>1. Chunk(a) \in Chunks /\ Chunk(a).body.id = ThisId
  BY ChunkHasOrigin
<1>2. Chunk(a).owner = CleanName[a.name] /\ Chunk(a).owner \in Names
  BY <1>1 DEF Chunk, Chunks
<1>3. Chunk(a).ins \in BOOLEAN /\ (Chunk(a).ins <=> a.kind \in InjectKinds)
  BY <1>1, ChunkHasOrigin, ChunkFields
<1>4. Chunk(a).name = IF a.kind \in AppendKinds THEN NoName ELSE CleanName[a.name]
  BY DEF Chunk
<1>5. a.kind \notin InjectKinds => Chunk(a).ins = FALSE
  BY <1>3
<1> QED BY <1>1, <1>2, <1>4, <1>5, NamesAssumption DEF ThisId

\* The operations handed in, one for each artifact.
LEMMA HandedGrows ==
  ASSUME IndInv, NEW a \in Artifacts, Handling(a)
  PROVE  /\ Len(Handed) = Len(done)
         /\ Handed' = Append(Handed, Operation(a))
<1>1. /\ done \in Seq(Artifacts) /\ Len(done) \in Nat /\ DOMAIN done = 1..Len(done)
      /\ done' = Append(done, a)
  BY LenProperties DEF IndInv, TypeOK, Handling
<1>2. /\ DOMAIN done' = 1..(Len(done) + 1) /\ done'[Len(done) + 1] = a
      /\ \A k \in 1..Len(done) : done'[k] = done[k]
  BY <1>1
<1>3. Handed = [k \in 1..Len(done) |-> Operation(done[k])]
  BY <1>1 DEF Handed
<1>4. Handed' = [k \in 1..(Len(done) + 1) |-> Operation(done'[k])]
  BY <1>2 DEF Handed, Operation, OpOf
<1> HIDE DEF Operation
<1>5. Len(Handed) = Len(done)
  BY <1>1, <1>3
<1>6. Append(Handed, Operation(a))
        = [k \in 1..(Len(done) + 1) |->
             IF k = Len(done) + 1 THEN Operation(a) ELSE Handed[k]]
  BY <1>1, <1>3, <1>5
<1>7. \A k \in 1..(Len(done) + 1) :
         Operation(done'[k]) = IF k = Len(done) + 1 THEN Operation(a) ELSE Handed[k]
  BY <1>1, <1>2, <1>3
<1> QED BY <1>4, <1>5, <1>6, <1>7

\* An operation is one that ResponseFiles knows.
LEMMA OperationType ==
  ASSUME NEW a \in Artifacts
  PROVE  Operation(a) \in Files!Operations
<1>1. a.kind \in GeneratorKinds => CleanName[a.name] \in Names \cup {Refused}
  BY ArtifactsAssumption, NamesAssumption
     DEF ArtifactType, GeneratorKinds, FileKinds, AppendKinds, InjectKinds, CustomKinds
<1>2. OpOf(a) \in {"file", "overwrite", "append", "injection", "other"}
  BY DEF OpOf
<1> QED BY <1>1, <1>2 DEF Operation, Files!Operations

\* What each artifact's operation is.
LEMMA OperationOf ==
  ASSUME NEW a \in Artifacts
  PROVE  /\ a.kind \in GeneratorKinds => Operation(a).name = CleanName[a.name]
         /\ a.kind \in FileKinds =>
              Operation(a).op = IF a.overwrite THEN "overwrite" ELSE "file"
         /\ a.kind \in AppendKinds => Operation(a).op = "append"
         /\ a.kind \in InjectKinds => Operation(a).op = "injection"
         /\ a.kind \notin GeneratorKinds => Operation(a).op = "other"
BY DEF Operation, OpOf, GeneratorKinds, FileKinds, AppendKinds, InjectKinds

\* insertFile and injections: a new file at the end.
LEMMA AddFileAdds ==
  ASSUME IndInv, NEW a \in Artifacts, AddFile(a)
  PROVE  /\ CleanName[a.name] \in Names
         /\ a.kind \in FileKinds => Files!Add(CleanName[a.name], FALSE)
         /\ a.kind \in InjectKinds => Files!Add(CleanName[a.name], TRUE)
         /\ a.kind \in FileKinds /\ a.overwrite => ~Files!Exists(CleanName[a.name])
<1> DEFINE n == CleanName[a.name]
           c == Chunk(a)
<1>1. Handling(a) /\ a.kind \in FileKinds \cup InjectKinds /\ n # Refused
      /\ chunks' = Append(chunks, c)
  BY DEF AddFile
<1>2. a.kind \in GeneratorKinds /\ a.kind \notin AppendKinds
  BY <1>1 DEF GeneratorKinds, FileKinds, InjectKinds, AppendKinds
<1>3. c \in Chunks /\ c.body.id = Len(done) + 1 /\ n \in Names /\ n # NoName /\ c.name = n
  BY <1>1, <1>2, ChunkOf
<1>4. chunks \in Seq(Chunks) /\ FilesOf(chunks) \in Seq(FileType)
  BY FilesType DEF IndInv, TypeOK
<1>5. ProtocFiles' = Append(ProtocFiles, StartedBy(c))
  <2>1. FilesOf(Append(chunks, c)) = Read(FilesOf(chunks), c)
    BY <1>3, <1>4, FilesAppend
  <2>2. Read(FilesOf(chunks), c) = Append(FilesOf(chunks), StartedBy(c))
    BY <1>3, <1>4, ReadIs
  <2> QED BY <1>1, <2>1, <2>2 DEF ProtocFiles
<1>6. StartedBy(c) = [name |-> n, ins |-> c.ins, head |-> Len(done) + 1, tail |-> <<>>]
  BY <1>3 DEF StartedBy
<1>7. c.ins \in BOOLEAN /\ (c.ins <=> a.kind \in InjectKinds)
  BY <1>1, <1>2, <1>3, ChunkHasOrigin, ChunkFields
<1>8. /\ a.kind \in FileKinds => c.ins = FALSE
      /\ a.kind \in InjectKinds => c.ins = TRUE
  BY <1>7 DEF FileKinds, InjectKinds
<1>9. Len(Handed) = Len(done)
  BY <1>1, HandedGrows
<1>10. a.kind \in FileKinds /\ a.overwrite => ~Files!Exists(n)
  <2> SUFFICES ASSUME a.kind \in FileKinds, a.overwrite PROVE ~Files!Exists(n)
    OBVIOUS
  <2>1. \A i \in 1..Len(chunks) : ~IsFileOf(chunks[i], n)
    BY <1>4 DEF AddFile, HasFile
  <2> HIDE DEF n
  <2>2. \A i \in 1..Len(FilesOf(chunks)) :
           FilesOf(chunks)[i].name = n => FilesOf(chunks)[i].ins
    BY <1>3, <1>4, <2>1, NoSuchFile
  <2>3. DOMAIN FilesOf(chunks) = 1..Len(FilesOf(chunks))
    BY <1>4
  <2> QED BY <2>2, <2>3 DEF Files!Exists, Files!First, ProtocFiles
<1> HIDE DEF n, c
<1>11. /\ a.kind \in FileKinds => Files!Add(n, FALSE)
       /\ a.kind \in InjectKinds => Files!Add(n, TRUE)
  <2>1. CASE a.kind \in FileKinds
    <3>1. c.ins = FALSE /\ a.kind \notin InjectKinds
      BY <1>8, <2>1 DEF FileKinds, InjectKinds
    <3> QED BY <1>5, <1>6, <1>9, <2>1, <3>1 DEF Files!Add, Files!Number
  <2>2. CASE a.kind \in InjectKinds
    <3>1. c.ins = TRUE /\ a.kind \notin FileKinds
      BY <1>8, <2>2 DEF FileKinds, InjectKinds
    <3> QED BY <1>5, <1>6, <1>9, <2>2, <3>1 DEF Files!Add, Files!Number
  <2> QED BY <2>1, <2>2
<1> QED BY <1>3, <1>10, <1>11 DEF n

\* insertFile with Overwrite: another head for the first file of that name, which
\* keeps its tail.
LEMMA ReplaceFileOverwrites ==
  ASSUME IndInv, NEW a \in Artifacts, ReplaceFile(a)
  PROVE  CleanName[a.name] \in Names /\ Files!Overwrite(CleanName[a.name])
<1> DEFINE n == CleanName[a.name]
           d == Chunk(a)
<1>1. Handling(a) /\ a.kind \in FileKinds /\ n # Refused
  BY DEF ReplaceFile
<1>2. PICK i \in DOMAIN chunks : IsIndexOfFile(i, n) /\ chunks' = [chunks EXCEPT ![i] = d]
  BY DEF ReplaceFile
<1>3. a.kind \in GeneratorKinds /\ a.kind \notin AppendKinds /\ a.kind \notin InjectKinds
  BY <1>1 DEF GeneratorKinds, FileKinds, InjectKinds, AppendKinds
<1>4. d \in Chunks /\ d.body.id = Len(done) + 1 /\ n \in Names /\ n # NoName /\ d.name = n
      /\ d.ins = FALSE
  <2>1. /\ d \in Chunks /\ d.body.id = Len(done) + 1 /\ n \in Names /\ n # NoName
        /\ d.name = IF a.kind \in AppendKinds THEN NoName ELSE n
        /\ a.kind \notin InjectKinds => d.ins = FALSE
    BY <1>1, <1>3, ChunkOf
  <2> HIDE DEF d, n
  <2> QED BY <1>3, <2>1
<1> HIDE DEF n, d
<1> DEFINE p == FirstOf(chunks, i - 1)
           q == RestOf(chunks, i)
           c == chunks[i]
           k == Place(chunks, i)
<1>5. chunks \in Seq(Chunks) /\ i \in 1..Len(chunks)
  BY <1>2 DEF IndInv, TypeOK
<1>6. /\ IsFileOf(chunks[i], n) /\ \A j \in 1..(i - 1) : ~IsFileOf(chunks[j], n)
  BY <1>2 DEF IsIndexOfFile
<1>7. c \in Chunks /\ c.name = n /\ c.ins = FALSE
  <2>1. c \in Chunks
    BY <1>5, ElementOfSeq
  <2> QED BY <1>6, <2>1, ChunkFields DEF IsFileOf
<1>8. p \in Seq(Chunks) /\ q \in Seq(Chunks)
  <2>1. i - 1 \in 0..Len(chunks) /\ i \in 0..Len(chunks)
    BY <1>5, LenProperties
  <2> QED BY <1>5, <2>1, FirstOfIs, RestOfIs
<1>9. /\ k \in 1..Len(FilesOf(chunks))
      /\ FilesOf(chunks)[k].name = n /\ ~FilesOf(chunks)[k].ins
      /\ \A j \in 1..(k - 1) : FilesOf(chunks)[j].name = n => FilesOf(chunks)[j].ins
  <2> HIDE DEF k
  <2> QED BY <1>4, <1>5, <1>6, FirstIsFirst, ZenonT(30) DEF k
<1>10. chunks = Append(p, c) \o q /\ chunks' = Append(p, d) \o q
  <2>1. Put(chunks, i, c) = Append(p, c) \o q
    BY <1>5, <1>7, PutParts
  <2>2. Put(chunks, i, d) = Append(p, d) \o q
    BY <1>4, <1>5, PutParts
  <2>3. Put(chunks, i, c) = chunks
    BY <1>5, PutSame
  <2>4. chunks' = Put(chunks, i, d)
    BY <1>2 DEF Put
  <2> QED BY <2>1, <2>2, <2>3, <2>4
<1>11. FilesOf(Append(p, d) \o q)
         = WithHead(FilesOf(Append(p, c) \o q), Len(FilesOf(p)) + 1, d.body.id)
  <2> HIDE DEF p, q, c, k
  <2>1. d.name = c.name /\ d.ins = c.ins /\ c.name # NoName
    BY <1>4, <1>7
  <2> QED BY <1>4, <1>7, <1>8, <2>1, HeadReplaced
<1> HIDE DEF p, q, c
<1>12. ProtocFiles' = [ProtocFiles EXCEPT ![k].head = Len(done) + 1]
  BY <1>4, <1>10, <1>11 DEF WithHead, ProtocFiles, Place, p
<1>13. /\ k \in DOMAIN ProtocFiles /\ ProtocFiles[k].name = n /\ ~ProtocFiles[k].ins
       /\ \A j \in 1..(k - 1) : ProtocFiles[j].name = n => ProtocFiles[j].ins
  <2>1. DOMAIN FilesOf(chunks) = 1..Len(FilesOf(chunks))
    BY <1>5, FilesType, LenProperties
  <2> QED BY <1>9, <2>1 DEF ProtocFiles
<1> HIDE DEF k
<1>14. Files!First(k, n)
  BY <1>13 DEF Files!First
<1>15. Files!Overwrite(n)
  <2>1. Len(Handed) = Len(done)
    BY <1>1, HandedGrows
  <2> QED BY <1>12, <1>13, <1>14, <2>1 DEF Files!Overwrite, Files!Number
<1> QED BY <1>4, <1>15 DEF n

\* insertAppend: one more append to the first file of that name.
LEMMA AppendAppends ==
  ASSUME IndInv, NEW a \in Artifacts, AppendToFile(a)
  PROVE  CleanName[a.name] \in Names /\ Files!AppendTo(CleanName[a.name])
<1> DEFINE n == CleanName[a.name]
           d == Chunk(a)
<1>1. Handling(a) /\ a.kind \in AppendKinds /\ n # Refused
  BY DEF AppendToFile
<1>2. PICK i \in DOMAIN chunks, t \in DOMAIN chunks :
         IsIndexOfFile(i, n) /\ IsTailFrom(t, i) /\ chunks' = InsertAt(chunks, t + 1, d)
  BY DEF AppendToFile
<1>3. a.kind \in GeneratorKinds
  BY <1>1 DEF GeneratorKinds
<1>4. d \in Chunks /\ d.body.id = Len(done) + 1 /\ n \in Names /\ n # NoName /\ d.name = NoName
  BY <1>1, <1>3, ChunkOf
<1> HIDE DEF n, d
<1> DEFINE p == FirstOf(chunks, i - 1)
           u == FirstOf(chunks, t)
           q == RestOf(chunks, t)
           k == Place(chunks, i)
<1>5. chunks \in Seq(Chunks) /\ i \in 1..Len(chunks) /\ t \in 1..Len(chunks) /\ i <= t
      /\ i \in 1..t
  <2>1. chunks \in Seq(Chunks)
    BY DEF IndInv, TypeOK
  <2>2. i \in 1..Len(chunks) /\ t \in 1..Len(chunks) /\ t \in i..Len(chunks)
    BY <1>2, <2>1 DEF IsTailFrom
  <2> QED BY <2>1, <2>2
<1>6. /\ IsFileOf(chunks[i], n) /\ \A j \in 1..(i - 1) : ~IsFileOf(chunks[j], n)
      /\ \A j \in (i + 1)..t : chunks[j].name = NoName
      /\ t < Len(chunks) => chunks[t + 1].name # NoName
  BY <1>2 DEF IsIndexOfFile, IsTailFrom
<1>7. /\ k \in 1..Len(FilesOf(chunks))
      /\ FilesOf(chunks)[k].name = n /\ ~FilesOf(chunks)[k].ins
      /\ \A j \in 1..(k - 1) : FilesOf(chunks)[j].name = n => FilesOf(chunks)[j].ins
  <2> HIDE DEF k
  <2> QED BY <1>4, <1>5, <1>6, FirstIsFirst DEF k
<1>8. /\ u \in Seq(Chunks) /\ Len(u) = t /\ \A j \in 1..t : u[j] = chunks[j]
      /\ q \in Seq(Chunks)
      /\ q # <<>> => t < Len(chunks) /\ q[1] = chunks[t + 1]
      /\ chunks = u \o q
      /\ InsertAt(chunks, t + 1, d) = Append(u, d) \o q
  <2>1. t \in 0..Len(chunks) /\ Len(chunks) \in Nat
    BY <1>5, LenProperties
  <2>2. /\ u \in Seq(Chunks) /\ Len(u) = t /\ \A j \in 1..t : u[j] = chunks[j]
    BY <1>5, <2>1, FirstOfIs
  <2>3. /\ q \in Seq(Chunks) /\ Len(q) = Len(chunks) - t
        /\ \A j \in 1..(Len(chunks) - t) : q[j] = chunks[t + j]
    BY <1>5, <2>1, RestOfIs
  <2>4. chunks = u \o q
    BY <1>5, SplitParts
  <2>5. InsertAt(chunks, t + 1, d) = Append(u, d) \o q
    BY <1>4, <1>5, SpliceParts
  <2>6. q # <<>> => t < Len(chunks) /\ q[1] = chunks[t + 1]
    <3> HIDE DEF u, q
    <3> SUFFICES ASSUME q # <<>> PROVE t < Len(chunks) /\ q[1] = chunks[t + 1]
      OBVIOUS
    <3>1. Len(q) # 0 /\ Len(q) \in Nat
      BY <2>3, EmptySeq, LenProperties
    <3>2. t < Len(chunks) /\ 1 \in 1..(Len(chunks) - t)
      BY <2>1, <2>3, <3>1
    <3> QED BY <2>3, <3>2
  <2> QED BY <2>2, <2>3, <2>4, <2>5, <2>6
<1>9. Len(FilesOf(u)) = k /\ FilesOf(u) # <<>>
  <2> DEFINE v == RestOf(u, i)
             c == u[i]
             pc == Append(p, c)
  <2>1. FirstOf(u, i - 1) = p
    <3>1. t \in 0..Len(chunks) /\ i - 1 \in 0..t
      BY <1>5
    <3> QED BY <1>5, <3>1, BeginningTwice DEF FirstOf
  <2> HIDE DEF u, p
  <2>2. c \in Chunks /\ c.name = n
    <3>1. c = chunks[i]
      BY <1>5, <1>8
    <3> QED BY <1>5, <1>6, <3>1, ElementOfSeq DEF IsFileOf
  <2>3. /\ p \in Seq(Chunks) /\ v \in Seq(Chunks) /\ Len(v) = t - i
        /\ \A j \in 1..(t - i) : v[j] = u[i + j]
    <3>1. i \in 0..Len(u) /\ i - 1 \in 0..Len(u)
      BY <1>5, <1>8
    <3>2. FirstOf(u, i - 1) \in Seq(Chunks)
      BY <1>8, <3>1, FirstOfIs
    <3>3. /\ v \in Seq(Chunks) /\ Len(v) = Len(u) - i
          /\ \A j \in 1..(Len(u) - i) : v[j] = u[i + j]
      BY <1>8, <3>1, RestOfIs, ZenonT(30)
    <3> HIDE DEF v
    <3> QED BY <1>8, <2>1, <3>2, <3>3
  <2>4. Put(u, i, c) = u /\ Put(u, i, c) = pc \o v
    <3>1. i \in 1..Len(u)
      BY <1>5, <1>8
    <3>2. Put(u, i, c) = u
      BY <1>8, <3>1, PutSame
    <3>3. Put(u, i, c) = Append(FirstOf(u, i - 1), c) \o v
      BY <1>8, <2>2, <3>1, PutParts
    <3> QED BY <2>1, <3>2, <3>3
  <2> HIDE DEF v, c
  <2>5. u = pc \o v
    BY <2>4
  <2>6. \A j \in 1..Len(v) : v[j].name = NoName
    <3> SUFFICES ASSUME NEW j \in 1..Len(v) PROVE v[j].name = NoName
      OBVIOUS
    <3>1. v[j] = u[i + j] /\ i + j \in 1..t /\ i + j \in (i + 1)..t
      <4>1. j \in 1..(t - i)
        BY <2>2, <2>3
      <4> QED BY <1>5, <2>2, <2>3, <4>1
    <3> QED BY <1>6, <1>8, <3>1
  <2>7. pc \in Seq(Chunks) /\ FilesOf(pc) = Read(FilesOf(p), c) /\ FilesOf(p) \in Seq(FileType)
    BY <2>2, <2>3, FilesAppend, FilesType, AppendProperties
  <2> HIDE DEF pc
  <2>8. Len(FilesOf(pc \o v)) = Len(FilesOf(pc))
    BY <2>2, <2>3, <2>6, <2>7, NamelessMakeNone
  <2>9. Len(Read(FilesOf(p), c)) = Len(FilesOf(p)) + 1
    BY <1>4, <2>2, <2>7, ReadKeeps
  <2>10. Len(FilesOf(p)) \in Nat
    BY <2>7, LenProperties
  <2>11. Len(FilesOf(u)) = Len(FilesOf(p)) + 1
    BY <2>5, <2>7, <2>8, <2>9
  <2>12. FilesOf(u) \in Seq(FileType)
    BY <1>8, FilesType
  <2> QED BY <2>10, <2>11, <2>12, EmptySeq DEF Place, p
<1> HIDE DEF p, u, q, k
<1>10. FilesOf(Append(u, d) \o q) = WithTail(FilesOf(u \o q), Len(FilesOf(u)), d.body.id)
  <2>1. q # <<>> => q[1].name # NoName
    BY <1>6, <1>8
  <2> QED BY <1>4, <1>8, <1>9, <2>1, TailSpliced
<1>11. ProtocFiles' = [ProtocFiles EXCEPT ![k].tail = Append(@, Len(done) + 1)]
  BY <1>2, <1>4, <1>8, <1>9, <1>10 DEF WithTail, ProtocFiles
<1>12. /\ k \in DOMAIN ProtocFiles /\ ProtocFiles[k].name = n /\ ~ProtocFiles[k].ins
       /\ \A j \in 1..(k - 1) : ProtocFiles[j].name = n => ProtocFiles[j].ins
  <2>1. DOMAIN FilesOf(chunks) = 1..Len(FilesOf(chunks))
    BY <1>5, FilesType, LenProperties
  <2> QED BY <1>7, <2>1 DEF ProtocFiles
<1> HIDE DEF k
<1>13. Files!First(k, n)
  BY <1>12 DEF Files!First
<1>14. Files!AppendTo(n)
  <2>1. Len(Handed) = Len(done)
    BY <1>1, HandedGrows
  <2> QED BY <1>11, <1>12, <1>13, <2>1 DEF Files!AppendTo, Files!Number
<1> QED BY <1>4, <1>14 DEF n

\* Every step of the loop of Persist does to the files what the operation of its
\* artifact asks for, or stops.
LEMMA StepOfFiles ==
  ASSUME IndInv, [Next]_vars
  PROVE  Files!Next \/ UNCHANGED Files!vars
<1>1. ASSUME NEW a \in Artifacts, Handle(a) PROVE Files!Next
  <2>1. Handling(a) /\ status = "persisting"
    BY <1>1 DEF Handle, ReplaceFile, AddFile, AppendToFile, WriteCustom, RecordError, Exit,
                ExitOnDisk, Handling
  <2>2. Handed' = Append(Handed, Operation(a)) /\ Operation(a) \in Files!Operations
    BY <2>1, HandedGrows, OperationType
  <2>3. CASE ReplaceFile(a)
    <3>1. a.kind \in FileKinds /\ a.kind \in GeneratorKinds /\ a.overwrite
      BY <2>3 DEF ReplaceFile, GeneratorKinds
    <3>2. Operation(a).op = "overwrite" /\ Operation(a).name = CleanName[a.name]
      BY <3>1, OperationOf
    <3>3. Files!Effect(Operation(a))
      BY <2>3, <3>2, ReplaceFileOverwrites DEF Files!Effect
    <3>4. status' = status
      BY <2>3 DEF ReplaceFile
    <3> QED BY <2>1, <2>2, <3>3, <3>4 DEF Files!Next, Files!Do
  <2>4. CASE AddFile(a)
    <3>1. a.kind \in FileKinds \/ a.kind \in InjectKinds
      BY <2>4 DEF AddFile
    <3>2. /\ a.kind \in FileKinds =>
               Operation(a).op = IF a.overwrite THEN "overwrite" ELSE "file"
          /\ a.kind \in InjectKinds => Operation(a).op = "injection"
          /\ Operation(a).name = CleanName[a.name]
      BY <3>1, OperationOf DEF GeneratorKinds
    <3>3. Files!Effect(Operation(a))
      BY <2>4, <3>1, <3>2, AddFileAdds DEF Files!Effect
    <3>4. status' = status
      BY <2>4 DEF AddFile
    <3> QED BY <2>1, <2>2, <3>3, <3>4 DEF Files!Next, Files!Do
  <2>5. CASE AppendToFile(a)
    <3>1. a.kind \in AppendKinds /\ a.kind \in GeneratorKinds
      BY <2>5 DEF AppendToFile, GeneratorKinds
    <3>2. Operation(a).op = "append" /\ Operation(a).name = CleanName[a.name]
      BY <3>1, OperationOf
    <3>3. Files!Effect(Operation(a))
      BY <2>5, <3>2, AppendAppends DEF Files!Effect
    <3>4. status' = status
      BY <2>5 DEF AppendToFile
    <3> QED BY <2>1, <2>2, <3>3, <3>4 DEF Files!Next, Files!Do
  <2>6. CASE WriteCustom(a) \/ RecordError(a)
    <3>1. a.kind \notin GeneratorKinds /\ chunks' = chunks /\ status' = status
      BY <2>6 DEF WriteCustom, RecordError, GeneratorKinds, FileKinds, AppendKinds,
                  InjectKinds, CustomKinds
    <3>2. Operation(a).op = "other" /\ ProtocFiles' = ProtocFiles
      BY <3>1, OperationOf DEF ProtocFiles
    <3>3. Files!Effect(Operation(a))
      BY <3>2 DEF Files!Effect
    <3> QED BY <2>1, <2>2, <3>1, <3>3 DEF Files!Next, Files!Do
  <2>7. CASE Exit(a) \/ ExitOnDisk(a)
    <3>1. chunks' = chunks /\ status' = "exited"
      BY <2>7 DEF Exit, ExitOnDisk
    <3>2. ProtocFiles' = ProtocFiles
      BY <3>1 DEF ProtocFiles
    <3> QED BY <2>1, <2>2, <3>1, <3>2 DEF Files!Next, Files!Stop
  <2> QED BY <1>1, <2>3, <2>4, <2>5, <2>6, <2>7 DEF Handle
<1>2. CASE Return \/ UNCHANGED vars
  <2>1. /\ chunks' = chunks /\ done' = done
        /\ (status' = "exited") = (status = "exited")
    BY <1>2 DEF Return, vars
  <2> QED BY <2>1 DEF ProtocFiles, Handed, Files!vars
<1> QED BY <1>1, <1>2 DEF Next

\* Persist, for any artifacts in any order and number: each has on the files that
\* protoc reads exactly the effect that its type and its clean name ask for, as on
\* separate buffers, or the process exits, so no splice and no replacement moves an
\* append to another file, drops it or makes another artifact of it.
THEOREM FilesCorrect == Spec => ImplementsFiles
<1>1. Init => Files!Init
  <2> SUFFICES ASSUME Init PROVE Files!Init
    OBVIOUS
  <2>1. chunks = <<>> /\ done = <<>> /\ status # "exited"
    BY DEF Init
  <2>2. ProtocFiles = <<>>
    BY <2>1, FilesEmpty DEF ProtocFiles
  <2>3. Handed = <<>>
    BY <2>1 DEF Handed
  <2> QED BY <2>1, <2>2, <2>3 DEF Files!Init
<1>2. IndInv /\ [Next]_vars => [Files!Next]_(Files!vars)
  BY StepOfFiles
<1>3. Spec => []IndInv
  BY InitInv, NextInv, TypeCorrect, PTL DEF Spec
<1> QED BY <1>1, <1>2, <1>3, PTL DEF Spec, ImplementsFiles, Files!Spec
=============================================================================
