# protoc-gen-star in TLA+

protoc-gen-star (package `pgs`) is a library for writing protoc plugins. protoc
starts the plugin, writes a `CodeGeneratorRequest` to its standard input and
reads one `CodeGeneratorResponse` from its standard output. In between the
library builds a graph of entities (the AST) from the descriptors, runs the
plugin's modules over it and turns what they produce, their *artifacts*, into the
response and into files on disk.

This directory holds TLA+ modules of the parts of the library that keep state,
TLC configurations that check them on small instances, and TLAPS proofs about
them. Paths below are relative to the repository.

## 1. Inventory

| Part | State | Operations | What must hold |
|---|---|---|---|
| **Persister** (`persister.go`, `artifact.go`, `post_process.go`) | the response's `File` slice and `Error`; the file system | `Persist` over the artifacts: `insertFile`, `insertAppend`, `writeFile`, error artifacts; post-processors | an append stays with its file and in order; nothing is lost or duplicated; files on disk obey `Overwrite` |
| **Generator and workflow** (`generator.go`, `workflow.go`, `init_option.go`) | modules, three `sync.Once`, the AST, the artifacts | `RegisterModule`, `AST`, `Render`; stages Init, Run, Persist | each stage once, in order, for any number of goroutines; modules get their context before any runs; one response; nobody waits for ever |
| **AST hydration** (`ast.go`, `extension.go`, `field*.go`) | `graph`: entities by name, targets, packages, pending extensions; edges between entities | `ProcessCodeGeneratorRequest(Bidirectional)` and the `hydrate...` methods | a right request is never refused; a request without an import is; every field and extension has its type; both directions of an edge agree |
| **Dependents and dependencies** (`message.go`, `enum.go`) | a cache in each message and enum | `Dependents`, `Dependencies` and their depth-first walks | sound, complete, stable, ends on recursive messages |
| **File accessors** (`file.go`, `package.go`, `message.go`) | cache of a file's dependents; slices whose arrays callers share | `Imports`, `TransitiveImports`, `UnusedImports`, `Dependents`; `Messages`, `AllMessages`, `Enums`, `AllEnums` | dependents as above, for imports; an import reported as unused is unused; what an entity holds stays whatever callers do with their lists |
| **Source code info** (`source_code_info.go`, `childAtPath` everywhere) | the info of each entity, of syntax and package | `hydrateSourceCodeInfo` | every entity has its own location, whatever order they come in |
| **Visitor walk** (`node.go`, `accept` everywhere) | the Go call stack and the visitor variable of each frame | `Walk` | depth first; children get the visitor their parent's visit returned; nil skips, an error halts |
| **Build context** (`build_context.go`) | the stack of prefixes and directories of each module | `Push`, `PushDir`, `Pop`, `PopDir`, `OutputPath` | pops undo pushes; paths are clean; the root stays |
| **Module base** (`module.go`) | a module's context and its buffer of artifacts | `InitContext`, `Execute`, `Artifacts`, the `Add...` and `Overwrite...` methods | every artifact arrives once and in order |
| **Debugger** (`debug.go`) | prefix, exit function | `CheckErr`, `Assert`, `Fail`: log and exit | a failure ends the process |
| **Entities** (`message.go`, `field.go`, `oneof.go`, ...) | what hydration gave them | `InOneOf`, `InRealOneOf`, `HasPresence`, `RealOneOfs`, `Required`, ... | real and synthetic oneofs are told apart; presence is as documented |
| **Parameters, names, comments** (`parameters.go`, `name.go`, `comment.go`) | a map; none | pure algorithms | parse and print agree; no part of a name is lost; wrapping keeps every word |
| **Go support** (`lang/go/`) | caches of nothing; pure | names, packages and paths of generated Go code | agreement with protoc-gen-go |
| **Tools** (`testutils/loader.go`, `protoc-gen-debug/`) | none | file input and output | - |

How they interact: `Generator.Render` goes through `onceWorkflow` (one `sync.Once`
per stage) to `standardWorkflow`, which reads the request, hydrates the AST, gives
every module a `BuildContext`, executes them, and hands their artifacts to the
persister. Modules call `Walk`, `Dependents` and the like while they are executed.
Everything is a direct call; the only waiting is that of goroutines for a
`sync.Once`, the only shared state across goroutines is that behind the Onces, and
the only things outside are protoc's pipes and the file system. Failures that the
library finds end the process with `os.Exit(1)`.

What is hard here: goroutines that meet in a stage, panics that leave a
`sync.Once` done, nameless append chunks that belong to whatever precedes them,
overwriting and splicing in one shared slice, files that are written although a
later artifact ends the process, lookups among half-built entities, caches that
are copied while they are being filled, a visitor variable that is reassigned in a
recursion, paths that are indexed with or without map entries. `PROJECT.json`
lists every such hazard at its line, with the properties that watch it.

## 2. Modules and how they correspond to the code

In every module a definition marked "A mistake" is an altered form of the
definition that follows it. None is part of a specification: they are used to
check that each property fails when the code is wrong in a plausible way.
The `MC...` modules only give the constants values.

### Persister, ResponseFiles, PersisterRefinement, PersisterProofs

`Persister` is `stdPersister.Persist`. A step handles one artifact (`Handle`), with
the conversion, post-processing and placement it makes, or its failure (`Exit`,
`ExitOnDisk`); the artifact is any of `Artifacts`, so a behaviour is a list of
artifacts as modules could hand it in. `chunks` is `resp.File`, `errs` what is
joined in `resp.Error`, `disk` the file system. Contents are told apart by the
position of their artifact and the post-processors they went through. A chunk has
one field that the code does not have: `owner`, the file the module asked for. An
append chunk carries no name, and `owner` is what it ought to belong to. `before`
keeps the file system as it was before the run, as a custom file that does not
overwrite leaves what is there.

`ResponseFiles` is what modules are promised: named files with separate
contents and appends that go to the end of theirs. It is handed operations, each
with a name (`handed`), and an operation either has the effect that it and its name
ask for or stops everything (`stopped`). `PersisterRefinement` maps the chunks to
these files the way protoc reads a response (a nameless chunk continues the one
before, `Read`), maps each artifact to the operation of its type and clean name
(`Operation`), and states that `Persister` implements it: no artifact may be
dropped, or have the effect of another.

A failing `WriteFile` may leave an empty file; this is why `disk` may hold a
content without post-processors and with the id of the failed artifact.

### Workflow, OneShot, WorkflowRefinement, WorkflowProofs

`Workflow` is `Generator`, `onceWorkflow` and `standardWorkflow` as any number of
goroutines run them. `pc` is where each is; `Enter`, `Skip` and waiting are
`sync.Once.Do`; `Read` and `Build` are the stage Init, `InitModule`, `AllInited`,
`ExecuteModule` and `AllExecuted` the stage Run, `Write` the stage Persist. `Exit` is
every failure that ends the process, `Panic` code of the plugin (a module, a
parameter mutator, a post-processor) that panics into a caller that recovers.
`RegisterModule` is enabled only before the first `Render`, as its comment asks.
`ended` says whether a `Render` has ended, after which no module may be registered;
`panicked` is a history variable, there for properties only: a `Render` after a
recovered panic may write a response without the artifacts.

`OneShot` is what `generator.go` tells concurrent callers, in one state variable and
the call each caller is in; once the plugin's own code has panicked it is "broken"
and promises nothing more; what still holds then is in `ModuleProtocol`,
`OneFullResponse` and `CallsEnd`.
`WorkflowRefinement` states that `Workflow` implements it.

### Hydration, HydrationProofs

`Hydration` is `graph` in `ast.go`. A request is a record of what descriptors say; a
step declares a file, resolves a method, gives a field its type, ends a file,
resolves an extension or assigns a message's dependents. `todo` is what a loop has
left. `known` stands for the map of entities, `phase = "failed"` for an exit and
`phase = "panicked"` for a nil dereference. The order of all lookups is the code's.
The type of a field is single, repeated or a map, with its element and key, and a
method has its two messages (`inOut`). Which users an entity gets and what a message
depends on are two definitions (`GivesDependent`, `DependsOn`) with a branch for each kind
of type, as `assignDependent` has them; `EdgesAreInverse` says that they agree.
Go's random map order matters in one place, the packages in the pass over
dependents, and makes no difference there: the sets built are the same.

A request is as protoc sends it in this: files and entities have different names
(`NamesAssumption`), no message is nested in itself (`NestingAssumption`), and the entry of
a map has a key, which is a scalar, and a value, neither repeated (`MapsAssumption`).
Nothing is assumed of references, imports or the order of files, which may be wrong.
protoc also sends fields that are groups of proto2; the code refuses them
(`ast.go:363-365`), and so does the model: `WellFormed`, the requests that must be
accepted, leaves them out.

### Dependents, DependentsProofs

The depth-first walk of `populateDependentsCache` with its call stack made explicit.
`direct` is `dependents` or `dependencies`, the code being the same for both. `Query`
is a call from outside, `Descend` and `Copy` are the two ways `getDependents` answers
for a direct use, `Return` the copy into the caller's cache. Direct uses are taken
in any order, which includes the order of the slice; `made` separates a nil cache
from an empty one.

### Tree, SourceInfo, Walk, Tour, TourProofs

`Tree` is what hydration leaves behind: each node with the lists that hold its
children. `Walk` assumes that it is a tree: hydration makes each entity from one
descriptor, adds it to one parent, once, and goes from the outside in, so a node has
one parent (`ParentsAssumption`), is in its lists once and is not below itself
(`TreeAssumption`). `Tree` says of all lists, map entries included, that each is of one
kind (`KindsAssumption`) and that nothing is nested in itself (`NestingAssumption`).

`SourceInfo` is `hydrateSourceCodeInfo` with every `childAtPath`: a step takes one
location. `Meaning` says independently of
`childAtPath` what each path stands for, and `PathsAssumption` that it is what
`descriptor.proto` says: pairs that lead from the file down (`Meant`), by its numbering
of the fields that hold declarations (`DeclarationFields`). An entity is declared in one
place (`PlacesAssumption`). The first location is that of the whole file,
as protoc sends it; the others come in any order.

`Walk` is `Walk` with every `accept`, the Go call stack being a sequence of frames. A
visit may return any visitor, nil or an error. The accept method of a leaf ignores
the visitor a visit returned, and so does the model.

`Tour` composes the two over one tree: the file's locations, in any order, and then
a walk from any node by a visitor that reads the comments of what it visits. The
one property that needs both is `VisitsFindComments`: the walk goes by lists of
entities (messages, then map entries), the paths of locations by declaration order
(with map entries among the nested messages), and still each visited entity has
its own comments.

### BuildContext, ModuleBase, ModuleProofs

`BuildContext` keeps the contexts of modules, each a sequence of frames from the
root. Paths are sequences of elements with a flag for the leading slash, and
`Clean` and `Join` of `path/filepath` are modelled by what they do to "..". `opens`
records what was there before each push and is used by properties only.

`ModuleBase` composes it with the buffer of artifacts in `module.go` and the loops of
`standardWorkflow.Run`: modules are given their contexts and executed one after the
other, and in both calls they push and pop (`Move`) and add artifacts (`Add`).
`Take` is an `Execute` that calls `Artifacts` before its end, `Executed` what it
returns, `NotImplemented` the `Execute` of `ModuleBase` itself.

### Lists, Files, FilesProofs

`Lists` is what `Messages`, `Enums`, `AllMessages` and `AllEnums` return, with the arrays
behind the slices: `heap` holds the arrays, a slice is a view of one, and an append
writes behind its end or moves to a new array, as Go does. The room that hydration
leaves behind a slice is any up to a bound, as the runtime rounds capacities; a
file's slices are made with the capacity they need and have none. Callers keep
slices and append to them (`held`, which records the accessor that was asked: the
answer of `Messages` is the own list, that of `AllMessages` all that is nested).

`AllMessages` is a recursion that hands the arrays on from call to call; here it is a
fold over the appends that the calls come to, innermost first (`Appends`, `AppendOne`),
each call starting with its holder's own slice. `NestingAssumption` says what
`descriptor.proto` does: an enum or message is in one place of one list, and no
message is nested in itself.

`Files` is the import graph on top of it. Files are numbered by the order of
hydration, which puts imports first. `Filled` is the recursion of `file.Dependents`
with its caches, as two functions over the files: which calls are made, and what
each call's file has in its cache when it returns; `UnusedImports` goes through
`AllMessages` and so may write behind the slices of messages. What it finds used are
the files of all places that name a type: a field itself, an element, a map's value,
the two messages of a method (`FieldImports`, `MethodImports`). Each graph comes with the files whose dependents are asked for
and the number of slices that callers keep: the two questions are asked of
different graphs to keep their product small.

### Comment, Names, Parameters, GoNames, Presence, Texts

The pure algorithms, each over sequences of characters and each with a reference
that does not use it. `Comment` is `C` and `splitComment`; lines are pairs of indices
of the text. `Names` is `Name.Split` with the conversions that put the parts together.
`Parameters` is `ParseParameters`, `Parameters.String`, `SetStr` and the plugins parameter
of `lang/go`. `GoNames` is `PGGUpperCamelCase`, the names of nested types, fields and
wrappers of oneofs, and the options, parameters and import paths that give a file
its package, for two files that may be in different directories; `ProtocGenGo` is how protoc-gen-go itself names things, which is not in
this repository and is marked external. `Presence` tells real and synthetic oneofs
apart, over messages that are written as a sequence of kinds of fields.

`Texts` types a text of one of these kinds character by character, so that TLC comes
by every text up to a bound, and states at each what its algorithm promises.

### SequenceLemmas

Facts that five of the proof modules rest on: induction over the numbers and over
the length of a sequence, what folds and concatenations return, how a sequence is
taken apart and put together around a position, and that functions defined by
recursion over a finite set without cycles exist.

## 3. What the runs check

All runs set `CHECK_DEADLOCK FALSE`: every modelled program ends (it returns, exits
or reaches a bound), and then nothing more happens. Where ending matters there is
a liveness property or a property of the final state.

| Run | Instance and bounds | Shows |
|---|---|---|
| PersisterAll | every kind, two file names, unclean and refused names, two post-processors, two paths on disk; 5 artifacts | `TypeOK`, `AppendsInPlace`, `OverwriteIsNoDuplicate`, `NothingLost`, `DiskIsLastWrite`, `ImplementsFiles` |
| PersisterOverwrite | files, overwriting files, appends, injections; 4 artifacts | `OverwriteReplaces` is violated |
| WorkflowAll | 3 goroutines, 2 calls each, 2 modules, panics, fairness | `TypeOK`, `StagesExclusive`, `ModuleProtocol`, `OneFullResponse`, `ImplementsPromise`, `CallsEnd` |
| DependentsAll | all graphs over 3 nodes and all acyclic ones over 4 (up to names), 3 calls, fairness | `TypeOK`, `Sound`, `CompleteIfAcyclic`, `FirstAnswerComplete`, `AnswersStable`, `CallsReturn` |
| DependentsIncomplete | as DependentsAll, 2 calls | `EveryAnswerComplete` is violated |
| HydrationAll | 2 files in any order or missing, any imports, owners of a map entry; any types of three fields and a map's value, a method; one or both directions | `TypeOK`, `WellFormedIsBuilt` (and what lacks an import is refused), `GraphIsWired`, `EdgesAreInverse` |
| HydrationExtension | the requests of HydrationAll in which the other file may be missing | `TypesAreTied` is violated |
| TourAll | a package of two files with 17 nodes; 15 locations and that of the file, in every order; then a walk from each node, 2 visitors | `VisitsFindComments`, `DepthFirst`, `VisitorInherited`, `AllButSkipped` |
| ModuleAll | 2 modules; 4 directories with "..", absolute or not, 2 roots, depth 5 and 2; 3 artifacts | `TypeOK`, `PathsAreClean`, `ArtifactsArriveOnce`, `PopsUndoPushes` |
| ModuleAbsolute | as ModuleAll, with 1 artifact | `AbsoluteDirsReplace` is violated |
| FilesAll | all imports among 4 files; public imports and any types of fields, elements, map values and a method; up to 2 kept slices of a file with nested messages and enums | `ListsStay`, `AnswersAreAll`, `DependentsImport`, `UnusedIsUnused` |
| TextsAll | all comments of 13 characters and widths from -1 to 5, names of 7, parameters of 6 with the plugins one set or not, packages of 6 with dots, messages of 5 fields | `CommentsKeepWords`, `NamesAreSplit`, `GoNamesAgree`, `ParametersStay`, `GoPackagesAreNamed`, `PresenceIsRight` |

### Why the bounds are enough

* A splice goes wrong between neighbours: a file, its appends, an injection and
  another file are four chunks, and a fifth artifact overwrites one of them. Two
  names are one that is meant and one that is not. What `PersisterAll` checks, the
  refinement included, is also proved for any number of artifacts and names.
* Three goroutines are one inside a stage and two that wait; two modules have an
  order; a second call comes after the end of another, be it the caller's own.
  A panic is possible in each and forced in none, so behaviours without one are
  among those checked.
* Three nodes hold a cycle with a way in or out of it; the violated property needs
  only two. Four nodes hold a diamond, where a cached node is met twice. The safety
  properties are proved for any graph.
* Hydration has a forward and a backward reference for each kind of lookup with
  two files, and a nested message with a map entry in the right or wrong message. The
  four properties are proved for any requests.
* The tree of `TourAll` has every kind of node, a map entry that is declared before
  a nested message (its index differs from that of the lists), and a second file;
  two visitors are enough to see which one a node got. All four properties are proved
  for any tree, any locations and any visitors.
* A depth of 5 leaves room for four pushes below the root: directory, prefix,
  directory, prefix. The second module shows that contexts are apart. All four
  properties are proved for any modules, directories and depths.
* Four files hold a diamond of imports; a file that is cached on the way to another
  is the third. Two kept slices are what it takes for one append to write over
  another's; a nested message in a nested message is the depth at which an answer is
  built of answers. All four properties are proved for any files, nesting and number of
  kept slices.
* The algorithms on texts look at three or four characters at a time; the lengths
  allow two boundaries and a leading separator. A comment of 13 holds three words
  and runs of spaces at either side of a width of up to 5; widths below one are
  those of `C` with a width below its comment sign's.

### Fairness

`Workflow` assumes weak fairness of each goroutine's `Step`: the Go scheduler runs a
goroutine that can go on, and one that waits for a Once can go on when the Once is
done, for good. No fairness is assumed of `Start` or `RegisterModule`: nobody has to
call. `Step` contains `Exit` and `Panic`, so neither is assumed to happen or not to.
`Dependents` assumes weak fairness of the walk, which is sequential code without
waiting, and none of `Query`.

### Where code and documentation differ

Four runs are expected to end in a violation; each states what a comment of the
repository says and shows a behaviour of the code that differs. `PROJECT.json`
quotes the lines.

1. `OverwriteReplaces` - an overwritten file keeps what was appended to the file it
   replaces: `insertFile` replaces the first chunk only.
2. `EveryAnswerComplete` - among recursive messages a later call of `Dependents` may
   leave out messages, as a half-filled cache was copied and kept.
3. `TypesAreTied` - the type of an extension is tied to the field embedded in the
   extension, which has no message.
4. `AbsoluteDirsReplace` - `PushDir` of an absolute directory joins it to the current
   path, where its comment says that `OutputPath` changes to it. `PathsAreClean`
   is about relative directories, for which code and comment agree.

More differences are in the models as the code has them, without a run of their
own; each is named at the definition or property it bears on.

Of the state:

* a `Render` after one that panicked writes a response without any artifact, as a
  Once counts a stage that panicked as done (`Workflow`, with `MayPanic`);
* the comments of an extension are dropped: no `childAtPath` leads to extensions
  (`SourceInfo`);
* a file without a syntax stanza has the location of the whole file as that of its
  syntax (`SourceInfo`);
* an import whose types are named only through its own public imports is reported
  as unused, and so is one that only extensions or options use (`file.go:23-24`,
  `Files`);
* an answer of a message's `AllMessages` or `AllEnums` may share the array behind the
  message's own slice: what is appended to one answer may show up in another.
  `ListsStay` therefore says of lists that were got from a message no more than that
  the message's own list stays; a file's lists belong to their callers (`Lists`);
* an extension's `HasPresence`, `Required` and `Syntax` go through its message, which
  is nil, and panic; so does the Go type of an extension.

Of the algorithms:

* the last line of a comment may be longer than the width by a word, as the end of
  the text is not taken for a space (`comment.go:14`);
* "_foo1" is one part although numbers stand alone (`name.go:54-56`), and
  `ScreamingSnakeCase` of "_aa1" and `SnakeCase` of ".fooBar" change when done twice;
* parameters that were never parsed and are empty print as "", which is parsed to
  a key without a name; `AddPlugin("")` on an unset parameter enables all plugins;
* the import path parameter is used as a whole, where `lang/go/parameters.go:84-86`
  says that what is up to the last slash is ignored; names mapped by M parameters
  are not made identifiers;
* a file without a `go_package` option has the package name of the first file of its
  proto package that has one, but when that option is an unqualified name each is
  imported from its own directory (`package.go:76`, `GoNames`);
* the name of a oneof's wrapper is looked up once: if that with an underscore is
  taken too, it collides.

## 4. What is proved

The modules `PersisterProofs`, `WorkflowProofs`, `HydrationProofs`, `DependentsProofs`,
`TourProofs`, `ModuleProofs` and `FilesProofs` hold theorems that TLAPS checks for every
value of the constants: any number of artifacts, names, post-processors, goroutines,
modules, calls, files, messages and fields, any request, any graph of messages, any
tree and any visitors, any directories, any lists and callers. They assume what the modules state with
ASSUME, and TLC evaluates on every instance:

* what a raw name cleans to is a name or refused, the artifacts are of their type,
  the value of a path that has no file is not a content (`Persister`);
* the requests are of their type, with what section 2 says of them (`Hydration`);
* the graphs are graphs over the nodes (`Dependents`);
* a tree's lists hold nodes of their kind, it is a tree, and paths mean what
  `descriptor.proto` says (`Tree`, `Walk`, `SourceInfo`, section 2);
* directories are paths, and every module is called in one place of the order of
  registration (`BuildContext`, `ModuleBase`);
* files and messages hold lists of enums and messages, nested as `descriptor.proto` says
  (`OwnAssumption`, `NestingAssumption` of `Lists`); a file is one holder and has all that
  is nested in it, and it imports files that are hydrated before it (`FilesAssumption`,
  `GraphsAssumption` of `Files`);
* bounds are numbers. The bounds (`MaxRoom`, `MaxHeld`, `MaxArtifacts`, `MaxCalls`, `MaxQueries`, `MaxDepth`,
  `MaxAdded`) are parameters, so what is proved holds for behaviours of any length.

**Persister.** `TypeCorrect`, `AppendsCorrect`, `OverwriteCorrect`, `TargetsCorrect`,
`NothingIsLost` and `DiskCorrect`. That appends are in place is not inductive: where a
chunk goes is decided by its name, and an append chunk has none, so it takes what is
known of the first chunk of each file. `IndInv` adds to the types that each chunk
comes from an accepted artifact, which fixes its owner and, if it begins a file, its
name (`ChunkOrigin`), and that accepted appends have a file before them
(`AppendsHaveTarget`). The steps are those of `Handle`: a new file at the end, a
replaced first chunk, an append spliced in before the next named chunk, an
injection at the end. `SpliceElements` says of the splice which element ends up
where, and the rest is about positions before, at and after it. `NothingIsLost` says that
every accepted artifact has one chunk and no second, unless it was overwritten, and
that this chunk is in its file: it bears the name, or continues the first
chunk of that name. Each step keeps every chunk or replaces it by one that overwrites
it (`KeptIsNotLost`), bodies differ by the position of their artifact (`OneChunkEach`),
and an append stays with the first chunk of its file (`AppendsAtFirst`). `DiskCorrect`
goes path by path over what a step writes, `before` being part of what stays.

**Persister refinement.** `FilesCorrect` is `ImplementsFiles`: every artifact has on the files
that protoc reads from the chunks the effect that its type and clean name ask for, as
it would on separate buffers, or the process exits. The
mapping is a fold over the chunks, so the proof is about what a change at one place
does to everything read after it. `FilesKept` says that chunks read later change no
earlier file's name; with it `FirstIsFirst` says that the first chunk that starts a
file is read as the first file of that name. `HeadReplaced`: with another first chunk of
the same name, the files read are the same but for one head. `TailSpliced`: with a
nameless chunk put in before the next named one, they are the same but for one more
append at one file's end, and this needs that the chunk is put in behind all nameless
chunks of the file, or it would be read in another order. Each kind of step of
`Handle` then is that step of `ResponseFiles` which the artifact's operation allows (`AddFileAdds`, `ReplaceFileOverwrites`,
`AppendAppends`), and the others leave the chunks alone.

**Workflow.** `TypeCorrect`, `StagesCorrect`, `ProtocolCorrect`, `ResponseCorrect` and
`PromiseKept`, with and without panics of the plugin's code. The invariant has four parts: `Exclusive` (who is
inside a stage runs its Once, and a stage is begun only when the one before is
done), `CallersInPlace` (only `Render` gets beyond Init), `Progress` (how many modules
have their context and how many are executed, by where the caller in Run is) and
`Responding` (the artifacts of a Run that ended are those of all modules). For
`PromiseKept`, that the generator implements `OneShot`, `Delivered` ties the state of
the first and last Once to the values `OneShot` speaks of; then each step is a step of
`OneShot` or leaves its variables alone.

**Hydration.** `TypeCorrect`, `Built`, `Wired` and `Edges`. That a request is not refused, and that a
finished graph is right, are facts about the end of a long pass; `HydrationInv` says
what holds in the middle of it. `FilesDeclared` gives the maps of the graph as a
function of how far the pass has come (`UpTo`, `VisibleAt`): the names known are those of
the files gone through and of what those declare. `TypesAreMeant` says that whatever type
a field has is the one its descriptor means, with its element and key (`FieldTypeMeant`),
`MethodsInTurn` that the methods gone through have their two messages, `FieldsInTurn` and `ExtensionsInTurn` that
the fields gone through have one and that pending extensions are still to come,
`EdgesInTurn` which users have been assigned. `Accepted` is the part that makes
`WellFormedIsBuilt` inductive: no lookup of a right request misses, because what it
names is declared in this file, all of whose entities are known before the first
lookup, or in an import, which is earlier in the list. A map's key and value are typed
before the map since the entry's fields come first (`EntryParts`, `EntryComesFirst`).
That the two directions agree is a comparison of their branches (`BothDirections`). That the lists of
`AllMessages` and their fields hold all of them and nothing else goes by induction over
nesting (`BelowType`).

**Dependents.** `TypeCorrect`, `CachesSound`, `AnswersKept`, `FirstComplete` and
`AcyclicComplete`. `Uses` is a least set; three lemmas say that it is transitive,
least, and made of the direct uses and theirs. Soundness needs that each node
on the stack is used by those below (`Chain`): a cache goes to the node below. A
finished cache stays since only the two topmost nodes' caches are written. That
the first answer is complete even among recursive messages rests on `Collected`:
everything that was come to is in a cache of the stack, all of which end up in that
of the node asked, and a set that holds all direct uses of what it holds is closed.
Without recursion `Filled` says that what a call has come to is in its cache with
all its uses, save the use that is being worked on; a use that is copied is
never on the stack, or `Chain` would close a cycle.

**Tour.** `TypeCorrect`, `ErrorsHalt`, `VisitorsInherited`, `NothingMissed`, `WalksDepthFirst` and
`CommentsFound`. That a node was visited by what its parent's visit returned is a
fact about the log, whose entries outlive the frames that made them: `FrameOrigin`
ties each frame to the entry of its node and to the one below it on the stack, so
that the visitor a frame hands on is the one its entry returned (`InheritInv`).
`HaltInv` says that an error, once returned, is the last entry and is what all frames
give back. `CoverInv` is `NothingMissed` before the walk has ended: a child of a node
that was visited, and neither skipped nor a leaf, was visited too or is pending in
its parent's frame; when the stack is empty nothing is pending. It needs that a node
has one parent, or a visit could be taken for another's.

That the walk is depth first is a claim about positions of the log that are far
apart, and `DepthInv` makes it one about the stack: all that was visited since the node
of a frame is below that node (`OpenSince`), the frames belong to later and later
visits, and what a frame is yet to come to is in it once and was not visited before
(`Fresh`). A visit is below the node on top, which is not before that of any frame, so
it is below each (`OpenKept`). That the children of a node come to are new
(`NothingBelow`) is where the tree matters: one that was visited would have been come
to from this node, which is new itself, or be the node the walk started with, and
then the nodes visited would form a cycle.

`CommentsFound` is `VisitsFindComments`. `childAtPath` is a fold over the pairs of a path:
`PathTaken` gives the entities it comes through, and `ChildAtPathIs` says that, extensions
apart, the last of them is what the path means, its lists being those of
`DeclarationFields` (`FollowedIs`, `ChildIs`); going back from the end, none of them was nil.
An info is overwritten by a later location that leads to the same entity, so it must
be that no two paths do: `OnePath`. From their ends, two such ways come from the same
places, and if one were longer it would declare a file (`OneWay`). The step itself is
then short (`InfoStep`), and `FindInv` adds that nothing is visited before the last
location.

**Module base and contexts.** `TypeCorrect`, `PopsUndo`, `PathsClean` and `ArriveOnce`. `opens`, which
records what was there before each push, is a function of the frames: `OpensAreFrames`
says that it lists, for the frames above the base, the paths and prefixes of what
lies below each. So a pop, which drops the last frames, restores what the last entry
recorded (`PopsUndo`, for `PopDir` with any number of prefixes above the directory). For
`PathsClean`, which is about contexts of relative directories, cleaning is a fold over the elements of a path; `CleanInSteps` says that to
clean a prefix first changes nothing in the end, as ".." takes away what the prefix's
last element left, and `PathOfContext` carries this over the frames. `ArriveOnce` counts
by module: what one has added is in its buffer, in what it took itself, or in what
was collected, and in one of these only (`NothingLost` of `ModuleBase`); which, follows
from how many modules have been called (`TodoIsRest`).

**Files and their lists.** `DependentsCorrect`, `ListsCorrect`, `AnswersCorrect` and `UnusedCorrect`. What a
recursive function is comes first: `Recursive` of `SequenceLemmas` shows, for a finite
set and needs without a cycle, that a function exists that is what it is made of, and
with it `Transitive`, `Filled`, `Below` and `Appends` are unfolded once each. For the imports the
order is that of hydration: `FirstAndLast` takes the first or last file for which a
claim fails, and imports, or dependents, on the other side of it are right. A cache
that is made is right (`CachesRight`); a call of `Dependents` fills in caches of the files
it comes through from caches that are right, or are filled before (`FilledRight`).

`ListsStay` is about who may write where. `ListsInv` says that every entity's array begins
with what it holds (`IsHeap`), that a file's has no room behind it, and that a slice got
from a file is of a file's array, which an append therefore leaves, or of an array that
no other kept slice is of (`AreKept`). An append writes behind the end of its slice, and
no slice ends before what its array's entity holds (`WrittenBehind`, `HeapWritten`).

`AnswersAreAll` says of an answer of `Messages` or `Enums` that it is the own list, and
of one of `AllMessages` or `AllEnums` that it has all that is nested, at any depth, once.
It is the hard one, since a nested call may write behind the own slice of a
message while outer calls hold slices too. `States` says what a call may find: each
holder's slice is in its own array or in one that the call made, and no two are in
the same. Then an append to one slice leaves all others' contents (`OneAppended`), and
the arrays no longer matter: the fold joins contents. A call for a message gathers
all below it and touches no other's slice (`IsComplete`). That holds for a message when
it holds for those nested in it (`CompleteFromNested`), hence for all, as a least
message for which it fails would have none nested in it that fails (`Innermost`).
Nothing comes twice because the parts of a list are apart: two messages of one list
have nothing below both of them (`Siblings`), or one would be nested in the other.
`UnusedCorrect` adds that what is below a file's holder is all that is in the file
(`InFile`), and that an import which no field or method of theirs names is in none of
their imports (`ImportsNamed`), so no use is overlooked, however deep and in whatever
place.

**Induction over data.** The library states induction with an operator as a parameter,
which the installed provers cannot instantiate. `SequenceLemmas` states it with sets: a
set of numbers that holds zero and each one's successor holds all (`NatInduct`), a set
of sequences that holds the empty one and what an append makes of its members holds
all (`SeqInduct`). Both come from the library's pigeonhole fact on finite sets
(`Descent`: one cannot go down for ever). The folds of the community modules are
recursive functions; `FoldsExist` and `FoldIsIterated` show that such a function exists
and takes one step per element, and the lemmas on `FlattenSeq`, `FilesOf`, `Cleaned` and
`OutputPath` follow.

The theorems are about the models. That a step of `Workflow` may be atomic rests on
`sync.Once`, that one of the others may be on their being called from one goroutine at
a time.

Only model-checked, on the instances above:

* liveness (`CallsEnd`, `CallsReturn`): the prover has no rules for fairness;
* the properties of `Texts`: each compares two ways to go through a text, by folds,
  recursive functions and choices of positions, and takes an induction of its own over
  the text, of which none has been made.

## 5. What is not modelled

* Conversions that belong to Go's library: the typed accessors of parameters
  (`Int`, `Bool`, `Duration` and so on), title-casing of names, `FilePath`, the formatting
  post-processors of `lang/go`.
* The tables of `proto.go` and `wkt.go`, names that add a suffix (services, servers),
  `JoinPath`, and accessors that return a field of a struct: they have nothing to
  check.
* Oneofs and enum values in `Hydration`: their hydration refers to nothing but
  their parents. Which oneofs are real is in `Presence`.
* `RegisterModule` called by a module: one that registers another in `InitContext` has
  it executed without a context, as the range over the modules has been taken
  (`generator.go:55`); `generator.go:47` asks not to. And plugin code that calls `AST` or
  `Render` inside the stage it runs in (a goroutine waiting for itself). Both are
  listed as hazards.
* Races on caches: nothing says that entities may be used by several goroutines.
* Comments with newlines, which give lines without "//", and texts above 4096 bytes,
  which `bufio.Scanner` hands out in pieces.
* Logging, the wording of errors, protobuf's encoding, the templates' output.
* The test loader and the debug plugin: tools around the library that read and
  write files.

## 6. Plan

What was done, in this order, and what is left.

1. `Persister` with `ResponseFiles`: the response is what the library is for. Done.
2. Proof of the placement of chunks, of `NothingLost` and of `DiskIsLastWrite`
   (`PersisterProofs`). Done.
3. `Workflow` with `OneShot`: the only concurrent part; its proofs. Done.
4. `Dependents`: caches among recursive messages; its proofs. Done.
5. `Hydration`: order of lookups, wiring, both directions; its proofs. Done.
6. `SourceInfo` and `Walk`, composed in `Tour`; proofs about the walk, its order
   included. Done.
7. `BuildContext`, composed with a module's buffer in `ModuleBase`; its proofs. Done.
8. `Lists` and `Files`: shared arrays, imports and dependents of files. Done.
9. The algorithms on texts against references (`Texts`). Done.
10. The refinement `ImplementsFiles`, with the lemmas on folds it takes
    (`PersisterProofs`, `SequenceLemmas`). Done.
11. Proofs about `Lists` and `Files`: shared arrays, complete answers, caches of imports,
    unused imports (`FilesProofs`). Done.
12. Proof of `VisitsFindComments`, with what `descriptor.proto` says of paths as an
    assumption (`TourProofs`). Done.
13. Left to prove: the algorithms of `Texts`, one induction over the text each.
14. Left to model: `RegisterModule` while modules are given their contexts, as an
    extension of `Workflow`; the composition of `Workflow` with `Persister`, where a second
    stage finds artifacts on disk.
