----------------------------- MODULE BuildContext -----------------------------
(***************************************************************************)
(* build_context.go and the part of module.go that keeps a BuildContext:   *)
(* every module is given a context below a common root and pushes prefixes *)
(* (of the Debugger's output) and directories on it.  A context is a value *)
(* that knows its parent; here it is the sequence of frames from the root. *)
(***************************************************************************)
EXTENDS Naturals, Sequences, SequencesExt

CONSTANTS
  Modules,    \* each named by its prefix
  Tags,       \* what modules push
  Dirs,       \* the directories they push, as in PathType
  Roots,      \* the values of the output_path parameter
  MaxDepth    \* bounds on the frames of each module's context

\* A slash-separated path: whether it begins with a slash, and its elements.
\* "." is the relative path without elements.
PathType == [abs : BOOLEAN, elems : Seq(STRING)]

ASSUME DirsAssumption == Dirs \subseteq PathType /\ Roots \subseteq PathType
ASSUME DepthAssumption == MaxDepth \in [Modules -> Nat]

VARIABLES
  ctx,     \* the BuildContext of each module: its frames, the root first
  output,  \* the root's OutputPath
  opens,   \* for each module, the pushes not undone: what was there before
  alive    \* no Fail has ended the process

contextVars == <<ctx, output, opens, alive>>

-----------------------------------------------------------------------------
\* filepath.Clean, by one element after the others: ".." removes the element
\* before it, if there is one to remove.
Cleaned(abs, done, e) ==
    IF e # ".." THEN Append(done, e)
    ELSE IF done # <<>> /\ Last(done) # ".." THEN Front(done)
    ELSE IF abs THEN done ELSE Append(done, e)

\* The elements of a path that begins with a slash or not.
CleanElems(abs, elems) == FoldLeft(LAMBDA done, e : Cleaned(abs, done, e), <<>>, elems)

Clean(p) == [p EXCEPT !.elems = CleanElems(p.abs, p.elems)]

\* filepath.Join: what comes second is never a root of its own, so a directory
\* with a leading slash goes below the current one as any other does.
Join(p, q) == Clean([abs |-> p.abs, elems |-> p.elems \o q.elems])

\* A frame of a context: prefixContext with its prefix, dirContext with its path
\* or the root.
Root(out)      == [kind |-> "root", dir |-> Clean(out)]
PrefixFrame(x) == [kind |-> "prefix", prefix |-> x]
DirFrame(d)    == [kind |-> "dir", dir |-> Clean(d)]

\* A mistake: paths are put together but not cleaned.
OutputPathUncleaned(c) ==
    FoldLeft(LAMBDA path, f : CASE f.kind = "root"   -> f.dir
                                [] f.kind = "dir"    -> [path EXCEPT !.elems = @ \o f.dir.elems]
                                [] f.kind = "prefix" -> path,
             [abs |-> FALSE, elems |-> <<>>], c)

\* OutputPath of one context, given that of its parent: a dirContext joins its
\* path to it.
Below(path, f) == CASE f.kind = "root"   -> f.dir
                    [] f.kind = "dir"    -> Join(path, f.dir)
                    [] f.kind = "prefix" -> path

NoPath == [abs |-> FALSE, elems |-> <<>>]

OutputPath(c) == FoldLeft(LAMBDA path, f : Below(path, f), NoPath, c)

\* The prefixes of the Debugger: a dirContext has the one of its parent.
PrefixesOf(c) == SelectSeq(c, LAMBDA f : f.kind = "prefix")

-----------------------------------------------------------------------------
\* standardWorkflow.Run: a module's context is the root with its name pushed.
ContextInit ==
    /\ output \in Roots
    /\ ctx = [m \in Modules |-> <<Root(output), PrefixFrame(m)>>]
    /\ opens = [m \in Modules |-> <<>>]
    /\ alive = TRUE

\* What there is of a context before a push.
Before(c, kind) == [kind |-> kind, path |-> OutputPath(c), prefixes |-> PrefixesOf(c)]

PushFrame(m, f) ==
    /\ alive /\ Len(ctx[m]) < MaxDepth[m]
    /\ ctx' = [ctx EXCEPT ![m] = Append(@, f)]
    /\ opens' = [opens EXCEPT ![m] = Append(@, Before(ctx[m], f.kind))]
    /\ UNCHANGED <<output, alive>>

\* ModuleBase.Push and PushDir.
Push(m, x)    == PushFrame(m, PrefixFrame(x))
PushDir(m, d) == PushFrame(m, DirFrame(d))

\* A mistake: the root is popped like any other.
PopAnyway(m) ==
    /\ alive
    /\ ctx' = [ctx EXCEPT ![m] = Front(@)]
    /\ opens' = [opens EXCEPT ![m] = IF @ = <<>> THEN @ ELSE Front(@)]
    /\ UNCHANGED <<output, alive>>

\* ModuleBase.Pop: the parent; the root has none, and that is the end.
Pop(m) ==
    /\ alive
    /\ IF Len(ctx[m]) > 1
       THEN /\ ctx' = [ctx EXCEPT ![m] = Front(@)]
            /\ opens' = [opens EXCEPT ![m] = IF @ = <<>> THEN @ ELSE Front(@)]
            /\ UNCHANGED <<output, alive>>
       ELSE /\ alive' = FALSE
            /\ UNCHANGED <<ctx, output, opens>>

\* PopDir of a context: prefixes are popped until a dirContext has been, or the
\* root is reached, which stays.
LastDir(s) == {i \in DOMAIN s : s[i].kind # "prefix"
                                /\ \A j \in (i + 1)..Len(s) : s[j].kind = "prefix"}

\* A mistake: PopDir of a prefix pops the prefix only.
PoppedOnce(c) == IF Len(c) = 1 THEN c ELSE Front(c)

PoppedDir(c) == LET i == CHOOSE j \in LastDir(c) : TRUE
                IN SubSeq(c, 1, IF i = 1 THEN 1 ELSE i - 1)

Closed(s) == IF LastDir(s) = {} THEN <<>>
             ELSE SubSeq(s, 1, (CHOOSE j \in LastDir(s) : TRUE) - 1)

\* ModuleBase.PopDir.
PopDir(m) ==
    /\ alive
    /\ ctx' = [ctx EXCEPT ![m] = PoppedDir(@)]
    /\ opens' = [opens EXCEPT ![m] = Closed(@)]
    /\ UNCHANGED <<output, alive>>

ContextNext(m) ==
    \/ \E x \in Tags : Push(m, x)
    \/ \E d \in Dirs : PushDir(m, d)
    \/ Pop(m) \/ PopDir(m)

-----------------------------------------------------------------------------
Frames == [kind : {"root", "dir"}, dir : PathType]
            \cup [kind : {"prefix"}, prefix : Modules \cup Tags]

\* The types of this part of the state; a context has one root, which is at its bottom.
ContextTypeOK ==
    /\ output \in PathType
    /\ alive \in BOOLEAN
    /\ ctx \in [Modules -> Seq(Frames)]
    /\ \A m \in Modules :
          /\ ctx[m] # <<>>
          /\ \A i \in DOMAIN ctx[m] : ctx[m][i].kind = "root" <=> i = 1

\* build_context.go:34-42: a Pop undoes the last push that is open, a PopDir the
\* last PushDir together with the prefixes pushed since: OutputPath and prefixes
\* are what they were before it, whatever was pushed and popped in between.  (A
\* PopDir without a PushDir takes prefixes from the module that it did not push.)
PopsUndoPushes ==
    [][\A m \in Modules :
          Len(ctx'[m]) < Len(ctx[m]) /\ opens[m] # <<>> =>
             LET before == opens[m][Len(opens'[m]) + 1]
             IN /\ OutputPath(ctx'[m]) = before.path
                /\ before.kind = "dir" \/ Len(ctx'[m]) = Len(ctx[m]) - 1
                     => PrefixesOf(ctx'[m]) = before.prefixes]_contextVars

\* All the elements of the directories of a context.
AllElems(c) == FlattenSeq([i \in DOMAIN c |-> IF c[i].kind = "prefix" THEN <<>>
                                              ELSE c[i].dir.elems])

\* No directory with a leading slash was pushed.
OnlyRelative(c) == \A i \in 2..Len(c) : c[i].kind = "dir" => ~c[i].dir.abs

\* build_context.go:8-17, 26-28: relative directories are applied relative to the
\* path below them.  Joining one after the other, with a Clean at each, gives what
\* cleaning the whole path at once gives; ".." may climb over a directory that was
\* pushed before, but no path keeps a ".." after a name.
PathsAreClean ==
    \A m \in Modules : OnlyRelative(ctx[m]) =>
       LET path == OutputPath(ctx[m])
       IN /\ path.elems = CleanElems(output.abs, AllElems(ctx[m]))
          /\ path.abs = output.abs
          /\ \A i \in 1..(Len(path.elems) - 1) :
                path.elems[i] # ".." => path.elems[i + 1] # ".."

\* build_context.go:26-28: "PushDir changes the BuildContext's OutputPath to dir.
\* If dir is relative, it is applied relative to the current value of OutputPath."
\* So after the push of an absolute one OutputPath is that directory.
AbsoluteDirsReplace ==
    \A m \in Modules :
       Len(ctx[m]) > 1 /\ Last(ctx[m]).kind = "dir" /\ Last(ctx[m]).dir.abs =>
          OutputPath(ctx[m]) = Last(ctx[m]).dir

-----------------------------------------------------------------------------
\* The inductive invariant under these properties: what is open are the frames on
\* top, each with what there was before it; below them are the root and, unless it
\* has been popped, the module's own prefix.
OpenedBy(c, i) == Before(SubSeq(c, 1, i - 1), c[i].kind)

OpenedAbove(c, b) == [i \in 1..(Len(c) - b) |-> OpenedBy(c, b + i)]

IsBase(c, b) == b \in 1..2 /\ b <= Len(c) /\ (b = 2 => c[2].kind = "prefix")

Rooted == \A m \in Modules : ctx[m][1] = Root(output)

OpensAreFrames ==
    /\ opens = [m \in Modules |-> opens[m]]
    /\ \A m \in Modules :
          \E b \in 1..2 : IsBase(ctx[m], b) /\ opens[m] = OpenedAbove(ctx[m], b)

ContextInv == ContextTypeOK /\ Rooted /\ OpensAreFrames
=============================================================================
