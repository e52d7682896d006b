------------------------------ MODULE Persister ------------------------------
(***************************************************************************)
(* persister.go with artifact.go: Persist turns the artifacts of all the   *)
(* modules into the CodeGeneratorResponse handed to protoc and into files  *)
(* written directly to disk.  One step handles one artifact, with all the  *)
(* ways in which it can fail; a failure is CheckErr, Assert or Failf, and  *)
(* those log and call os.Exit(1).                                          *)
(*                                                                         *)
(* A response is a sequence of chunks.  A nameless chunk (an append) has   *)
(* no other tie to its file than its position: protoc adds it to the chunk *)
(* before it.                                                              *)
(***************************************************************************)
EXTENDS Naturals, Sequences, SequencesExt

CONSTANTS
  Raw,           \* names as modules write them ("./a.go", "a.go", "../a.go")
  Names,         \* names after filepath.Clean
  CleanName,     \* cleanGeneratorFileName, for each Raw name
  Refused,       \* its error result: absolute, "." or starting with ".."
  NoName,        \* the unset Name of an append's CodeGeneratorResponse_File
  Paths,         \* places on disk of custom files
  NoFile,        \* what is on disk at a path where there is no file
  Artifacts,     \* the artifacts modules may hand in
  Matches,       \* for each post-processor, in order, the kinds it matches
  MaxArtifacts   \* bound on the length of the artifact list

FileKinds   == {"GeneratorFile", "GeneratorTemplateFile"}
AppendKinds == {"GeneratorAppend", "GeneratorTemplateAppend"}
InjectKinds == {"GeneratorInjection", "GeneratorTemplateInjection"}
CustomKinds == {"CustomFile", "CustomTemplateFile"}
Templates   == {"GeneratorTemplateFile", "GeneratorTemplateAppend",
                "GeneratorTemplateInjection", "CustomTemplateFile"}
GeneratorKinds == FileKinds \cup AppendKinds \cup InjectKinds
Kinds == GeneratorKinds \cup CustomKinds \cup {"GeneratorError", "unrecognized"}

ArtifactType ==
    [kind : GeneratorKinds, name : Raw, overwrite : BOOLEAN]
      \cup [kind : CustomKinds, name : Paths, overwrite : BOOLEAN]
      \cup [kind : {"GeneratorError", "unrecognized"}]

ASSUME NamesAssumption ==
    /\ NoName \notin Names /\ Refused \notin Names
    /\ CleanName \in [Raw -> Names \cup {Refused}]
ASSUME ArtifactsAssumption == Artifacts \subseteq ArtifactType
ASSUME MatchesAssumption == Matches \in Seq(SUBSET Kinds)
ASSUME BoundAssumption == MaxArtifacts \in Nat

VARIABLES
  done,    \* the artifacts handled so far, in order
  chunks,  \* resp.File
  errs,    \* the messages joined in resp.Error
  disk,    \* the file system, for each path
  status,  \* "persisting", "returned" (resp is given out) or "exited"
  before   \* history: the file system as it was before the run

vars == <<done, chunks, errs, disk, status, before>>

-----------------------------------------------------------------------------
(* A content is told apart by the position of its artifact in the list and *)
(* the post-processors it has been through.  Position 0 is a file that was *)
(* on disk before.                                                         *)

ThisId == Len(done) + 1

\* postProcess: the registered processors that match, in order.
PostProcess(kind) == SelectSeq([p \in DOMAIN Matches |-> p],
                               LAMBDA p : kind \in Matches[p])

Content(a) == [id |-> ThisId, procs |-> PostProcess(a.kind)]

\* The chunk an artifact's ProtoFile makes.  owner is not in the code: it is
\* the file the module asked for, which an append chunk does not carry.
Chunk(a) ==
    [name  |-> IF a.kind \in AppendKinds THEN NoName ELSE CleanName[a.name],
     ins   |-> a.kind \in InjectKinds,
     body  |-> Content(a),
     over  |-> a.kind \in FileKinds /\ a.overwrite,
     owner |-> CleanName[a.name]]

IsFileOf(c, n) == c.name = n /\ ~c.ins

\* A mistake: the last chunk that starts file n is found.
IsLastIndexOfFile(i, n) ==
    /\ i \in DOMAIN chunks
    /\ IsFileOf(chunks[i], n)
    /\ \A j \in (i + 1)..Len(chunks) : ~IsFileOf(chunks[j], n)

\* i is indexOfFile(n): the first chunk that starts file n.
IsIndexOfFile(i, n) ==
    /\ i \in DOMAIN chunks
    /\ IsFileOf(chunks[i], n)
    /\ \A j \in 1..(i - 1) : ~IsFileOf(chunks[j], n)

HasFile(n) == \E i \in DOMAIN chunks : IsFileOf(chunks[i], n)

\* Two mistakes: appends go right after the file's first chunk, or to the end of
\* the response.
IsHead(t, i) == t = i
IsEnd(t, i)  == t = Len(chunks)

\* t is tailOfFile: the last of the nameless chunks that follow chunk i.
IsTailFrom(t, i) ==
    /\ t \in i..Len(chunks)
    /\ \A k \in (i + 1)..t : chunks[k].name = NoName
    /\ t < Len(chunks) => chunks[t + 1].name # NoName

-----------------------------------------------------------------------------
Init ==
    /\ done = <<>>
    /\ chunks = <<>>
    /\ errs = <<>>
    /\ before \in [Paths -> {NoFile, [id |-> 0, procs |-> <<>>]}]
    /\ disk = before
    /\ status = "persisting"

Handling(a) ==
    /\ status = "persisting"
    /\ Len(done) < MaxArtifacts
    /\ done' = Append(done, a)
    /\ UNCHANGED before

\* insertFile with overwrite and a file of that name: replaced in place.
ReplaceFile(a) ==
    /\ Handling(a)
    /\ a.kind \in FileKinds
    /\ CleanName[a.name] # Refused
    /\ a.overwrite
    /\ \E i \in DOMAIN chunks :
          /\ IsIndexOfFile(i, CleanName[a.name])
          /\ chunks' = [chunks EXCEPT ![i] = Chunk(a)]
    /\ UNCHANGED <<errs, disk, status>>

\* A mistake: the error of cleanGeneratorFileName is not looked at.
AddFileUnchecked(a) ==
    /\ Handling(a)
    /\ a.kind \in FileKinds \cup InjectKinds
    /\ a.kind \in FileKinds /\ a.overwrite => ~HasFile(CleanName[a.name])
    /\ chunks' = Append(chunks, Chunk(a))
    /\ UNCHANGED <<errs, disk, status>>

\* insertFile otherwise, and every injection: added at the end.
AddFile(a) ==
    /\ Handling(a)
    /\ a.kind \in FileKinds \cup InjectKinds
    /\ CleanName[a.name] # Refused
    /\ a.kind \in FileKinds /\ a.overwrite => ~HasFile(CleanName[a.name])
    /\ chunks' = Append(chunks, Chunk(a))
    /\ UNCHANGED <<errs, disk, status>>

\* A mistake: what follows the place of the append is dropped.
AppendDropsRest(a) ==
    /\ Handling(a)
    /\ a.kind \in AppendKinds
    /\ CleanName[a.name] # Refused
    /\ \E i, t \in DOMAIN chunks :
          /\ IsIndexOfFile(i, CleanName[a.name])
          /\ IsTailFrom(t, i)
          /\ chunks' = Append(SubSeq(chunks, 1, t), Chunk(a))
    /\ UNCHANGED <<errs, disk, status>>

\* insertAppend: spliced in after the last chunk of its file.
AppendToFile(a) ==
    /\ Handling(a)
    /\ a.kind \in AppendKinds
    /\ CleanName[a.name] # Refused
    /\ \E i, t \in DOMAIN chunks :
          /\ IsIndexOfFile(i, CleanName[a.name])
          /\ IsTailFrom(t, i)
          /\ chunks' = InsertAt(chunks, t + 1, Chunk(a))
    /\ UNCHANGED <<errs, disk, status>>

\* A mistake: Overwrite is not looked at.
WriteCustomAlways(a) ==
    /\ Handling(a)
    /\ a.kind \in CustomKinds
    /\ disk' = [disk EXCEPT ![a.name] = Content(a)]
    /\ UNCHANGED <<chunks, errs, status>>

\* writeFile when all its file system calls succeed.
WriteCustom(a) ==
    /\ Handling(a)
    /\ a.kind \in CustomKinds
    /\ disk' = IF disk[a.name] # NoFile /\ ~a.overwrite
               THEN disk
               ELSE [disk EXCEPT ![a.name] = Content(a)]
    /\ UNCHANGED <<chunks, errs, status>>

\* A GeneratorError is recorded and the loop goes on.
RecordError(a) ==
    /\ Handling(a)
    /\ a.kind = "GeneratorError"
    /\ errs' = Append(errs, ThisId)
    /\ UNCHANGED <<chunks, disk, status>>

\* The artifact cannot be converted, rendered, post-processed or placed.
CannotConvert(a) ==
    \/ a.kind = "unrecognized"
    \/ a.kind \in GeneratorKinds /\ CleanName[a.name] = Refused
    \/ a.kind \in AppendKinds /\ ~HasFile(CleanName[a.name])
    \/ a.kind \in Templates
    \/ a.kind # "GeneratorError" /\ PostProcess(a.kind) # <<>>

Exit(a) ==
    /\ Handling(a)
    /\ CannotConvert(a)
    /\ status' = "exited"
    /\ UNCHANGED <<chunks, errs, disk>>

\* writeFile when MkdirAll, Exists or WriteFile fails.  WriteFile truncates
\* before it writes: the old file may be lost and an empty one left (procs is
\* then <<>>, id that of the artifact).
ExitOnDisk(a) ==
    /\ Handling(a)
    /\ a.kind \in CustomKinds
    /\ \/ disk' = disk
       \/ /\ disk[a.name] = NoFile \/ a.overwrite
          /\ disk' = [disk EXCEPT ![a.name] = [id |-> ThisId, procs |-> <<>>]]
    /\ status' = "exited"
    /\ UNCHANGED <<chunks, errs>>

\* The list is at its end: Persist returns resp.
Return ==
    /\ status = "persisting"
    /\ status' = "returned"
    /\ UNCHANGED <<done, chunks, errs, disk, before>>

Handle(a) == \/ ReplaceFile(a) \/ AddFile(a) \/ AppendToFile(a)
             \/ WriteCustom(a) \/ RecordError(a)
             \/ Exit(a) \/ ExitOnDisk(a)

Next == Return \/ \E a \in Artifacts : Handle(a)

Spec == Init /\ [][Next]_vars

-----------------------------------------------------------------------------
Bodies == [id : 0..MaxArtifacts,
           procs : {PostProcess(k) : k \in Kinds} \cup {<<>>}]

\* That there is no file is not a file of any content.
ASSUME NoFileAssumption == NoFile \notin Bodies

Chunks == [name : Names \cup {NoName}, ins : BOOLEAN, body : Bodies,
           over : BOOLEAN, owner : Names]

\* The types of the state.
TypeOK ==
    /\ done \in Seq(Artifacts)
    /\ Len(done) <= MaxArtifacts
    /\ chunks \in Seq(Chunks)
    /\ errs \in Seq(1..MaxArtifacts)
    /\ disk \in [Paths -> Bodies \cup {NoFile}]
    /\ status \in {"persisting", "returned", "exited"}
    /\ before \in [Paths -> Bodies \cup {NoFile}]

\* protoc puts chunk j into the file or injection that chunk i starts or
\* continues.
Continues(j, i) ==
    /\ i <= j
    /\ \A k \in (i + 1)..j : chunks[k].name = NoName

\* insertAppend: whatever is spliced in, added or replaced around it, an
\* append ends up in the file its module named: never in another file, never
\* in an injection, and never as a nameless chunk at the very start, which
\* protoc refuses.
AppendsInPlace ==
    /\ chunks # <<>> => chunks[1].name # NoName
    /\ \A i, j \in DOMAIN chunks :
          Continues(j, i) => /\ chunks[i].owner = chunks[j].owner
                             /\ i < j => ~chunks[i].ins

\* insertAppend: the appends of a file come out in the order in which the
\* modules handed them in, and after one another.
AppendsInOrder ==
    \A i, j \in DOMAIN chunks :
       Continues(j, i) /\ i < j /\ chunks[i].name = NoName
         => chunks[i].body.id < chunks[j].body.id

\* insertFile: a file that was handed in with Overwrite is never the second of
\* its name in the response, which protoc refuses ("written twice").  (It takes
\* the place of the first one: a name that modules generated twice without
\* Overwrite stays twice, as module.go:111-112 says of them.)
OverwriteIsNoDuplicate ==
    \A n \in Names : \A i, j \in DOMAIN chunks :
       i < j /\ IsFileOf(chunks[i], n) /\ IsFileOf(chunks[j], n)
         => ~chunks[j].over

\* The artifacts the loop of Persist got past: all of done, but for the one
\* that made the process exit.
Accepted == {k \in DOMAIN done : status = "exited" => k < Len(done)}

OverwrittenAfter(k) ==
    \E m \in Accepted : /\ m > k
                        /\ done[m].kind \in FileKinds
                        /\ done[m].overwrite
                        /\ CleanName[done[m].name] = CleanName[done[k].name]

\* Chunk i is what artifact k asked for: its content, through the processors
\* that match, at the start of a file or an injection of its name, or
\* continuing the first file of its name.
IsChunkFor(i, k) ==
    /\ chunks[i].body = [id |-> k, procs |-> PostProcess(done[k].kind)]
    /\ \E h \in DOMAIN chunks :
          /\ Continues(i, h)
          /\ IF done[k].kind \in AppendKinds
             THEN i # h /\ IsIndexOfFile(h, CleanName[done[k].name])
             ELSE /\ i = h
                  /\ chunks[h].name = CleanName[done[k].name]
                  /\ chunks[h].ins <=> done[k].kind \in InjectKinds

\* Persist: every artifact it got past is in the response, once and in the
\* right place: a splice or a replacement loses, doubles or moves to another
\* file no append, no injection and no file other than one a later file
\* overwrites; an error is not lost either.
NothingLost ==
    /\ \A k \in Accepted :
          /\ done[k].kind \in GeneratorKinds =>
                \/ \E i \in DOMAIN chunks : IsChunkFor(i, k)
                \/ done[k].kind \in FileKinds /\ OverwrittenAfter(k)
          /\ done[k].kind = "GeneratorError" => \E e \in DOMAIN errs : errs[e] = k
    /\ \A i, j \in DOMAIN chunks : chunks[i].body.id = chunks[j].body.id => i = j

\* module.go:154-158: an append is accepted only if this plugin generated a
\* file of that name before it; neither a later file nor an injection into a
\* file of that name is enough.
AppendsHaveTarget ==
    \A k \in Accepted : done[k].kind \in AppendKinds =>
       \E m \in Accepted : /\ m < k
                           /\ done[m].kind \in FileKinds
                           /\ CleanName[done[m].name] = CleanName[done[k].name]

CustomFor(k, p) == done[k].kind \in CustomKinds /\ done[k].name = p

\* writeFile: on disk is what the last overwriting custom file of that path
\* wrote; without one, the file that was there before the run, and only
\* without that the first custom file of the path.  What was written has been
\* through every processor that matches.  (A write that failed leaves the path
\* alone or an empty file.)
DiskIsLastWrite ==
    \A p \in Paths :
       LET w == disk[p].id
           writers == {k \in Accepted : CustomFor(k, p)}
       IN \/ /\ disk[p] = before[p]
             /\ \A k \in writers : disk[p] # NoFile /\ ~done[k].overwrite
          \/ /\ disk[p] # NoFile
             /\ w \in DOMAIN done /\ CustomFor(w, p)
             /\ w \in Accepted => disk[p].procs = PostProcess(done[w].kind)
             /\ done[w].overwrite \/ (before[p] = NoFile /\ \A k \in writers : k >= w)
             /\ \A k \in writers : k > w => ~done[k].overwrite

\* Where a chunk comes from, and with it the inductive invariant under the
\* invariants above that speak of chunks.
ChunkOrigin ==
    \A i \in DOMAIN chunks :
       LET c == chunks[i]
           k == c.body.id
       IN /\ k \in Accepted
          /\ done[k].kind \in GeneratorKinds
          /\ c.owner = CleanName[done[k].name]
          /\ c.name = IF done[k].kind \in AppendKinds THEN NoName ELSE c.owner
          /\ c.ins <=> done[k].kind \in InjectKinds

IndInv == /\ TypeOK
          /\ ChunkOrigin
          /\ AppendsInPlace
          /\ AppendsInOrder
          /\ OverwriteIsNoDuplicate
          /\ AppendsHaveTarget

\* module.go:118-120, artifact.go:71-72: an overwritten file is replaced, so
\* that nothing of the old one remains: what follows a file's first chunk was
\* appended after that chunk was added.  (The code does not do so.)
OverwriteReplaces ==
    \A i, j \in DOMAIN chunks :
       Continues(j, i) /\ i < j => chunks[i].body.id < chunks[j].body.id
=============================================================================
