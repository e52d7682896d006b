------------------------- MODULE PersisterRefinement -------------------------
(***************************************************************************)
(* The chunk list of Persister implements the files of ResponseFiles: the  *)
(* refinement mapping is the way protoc reads the chunks, and each         *)
(* artifact stands for the operation its type and clean name ask for.      *)
(***************************************************************************)
EXTENDS Persister

\* protoc's reader (not part of the repository), chunk by chunk: one with a name
\* starts a file or an injection, one without goes to the file before it.
StartedBy(c) == [name |-> c.name, ins |-> c.ins, head |-> c.body.id, tail |-> <<>>]

Read(fs, c) ==
    IF c.name = NoName
    THEN [fs EXCEPT ![Len(fs)].tail = Append(@, c.body.id)]
    ELSE Append(fs, StartedBy(c))

FilesOf(s) == FoldLeft(LAMBDA fs, c : Read(fs, c), <<>>, s)

ProtocFiles == FilesOf(chunks)

OpOf(a) == CASE a.kind \in FileKinds   -> IF a.overwrite THEN "overwrite" ELSE "file"
             [] a.kind \in AppendKinds -> "append"
             [] a.kind \in InjectKinds -> "injection"
             [] OTHER                  -> "other"

Operation(a) ==
    [op   |-> OpOf(a),
     name |-> IF a.kind \in GeneratorKinds THEN CleanName[a.name] ELSE Refused]

Handed == [k \in DOMAIN done |-> Operation(done[k])]

Files == INSTANCE ResponseFiles WITH
           files <- ProtocFiles, handed <- Handed, stopped <- status = "exited"

\* Persist: every artifact has on protoc's files exactly the effect that its
\* type and its clean name ask for, as on separate buffers, or the process
\* exits: none is dropped or made another, and splicing chunks moves no append
\* to another file.
ImplementsFiles == Files!Spec
=============================================================================
