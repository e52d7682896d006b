------------------------------ MODULE Hydration ------------------------------
(***************************************************************************)
(* ast.go: a CodeGeneratorRequest is made into a graph of entities that    *)
(* refer to each other.  Files are taken in the order of the request;      *)
(* whatever an entity refers to is looked up among those known so far      *)
(* (mustSeen), and a name that is not known ends the process.  So it       *)
(* matters when each reference is looked up: imports at once, methods when *)
(* the messages of their file are there, types of fields at the end of     *)
(* their file, extensions when all the files are there.                    *)
(***************************************************************************)
EXTENDS Naturals, Sequences, SequencesExt

CONSTANTS
  Files, Packages, Messages, Enums,
  Fields,      \* fields, those of map entries and extensions included
  Requests,    \* the requests to consider, see RequestType
  Nobody,      \* nil
  Embedded     \* the anonymous `field' inside of an extension

Declared == Messages \cup Enums

\* What a FieldDescriptorProto says: its type, its label and the type's name.
Descriptors ==
    [type : {"scalar"}, rep : BOOLEAN, ref : {Nobody}]
      \cup [type : {"enum"}, rep : BOOLEAN, ref : Enums]
      \cup [type : {"message", "group"}, rep : BOOLEAN, ref : Messages]

RequestType ==
    [list     : Seq(Files),                 \* proto_file
     generate : SUBSET Files,               \* file_to_generate
     bidi     : BOOLEAN,                    \* ...Bidirectional was called
     package  : [Files -> Packages],
     deps     : [Files -> SUBSET Files],    \* dependency
     enums    : [Files -> SUBSET Enums],    \* top-level and nested
     top      : [Files -> Seq(Messages)],   \* message_type
     nested   : [Messages -> Seq(Messages)],  \* nested_type, the map entries
     entries  : [Messages -> Seq(Messages)],  \* being kept apart
     fields   : [Messages -> Seq(Fields)],
     exts     : [Files -> Seq(Fields)],     \* extension, top-level and nested
     extendee : [Fields -> Messages],
     methods  : [Files -> Seq(Messages \X Messages)],
     desc     : [Fields -> Descriptors]]

ASSUME NamesAssumption ==
    /\ Files \cap Declared = {} /\ Messages \cap Enums = {}
    /\ Nobody \notin Files \cup Declared
ASSUME RequestsAssumption == Requests \subseteq RequestType

\* descriptor.proto: no message is nested in itself.
ASSUME NestingAssumption ==
    /\ IsFiniteSet(Messages)
    /\ \A r \in Requests : \A ms \in (SUBSET Messages) \ {{}} :
          \E m \in ms : ToSet(r.nested[m]) \cap ms = {}

\* descriptor.proto: the entry of a map has a key and a value, neither of them
\* repeated, the key being a number, a bool or a string; an extension is no map.
ASSUME MapsAssumption ==
    \A r \in Requests :
       /\ \A m \in Messages : \A e \in ToSet(r.entries[m]) :
             /\ Len(r.fields[e]) = 2 /\ r.desc[r.fields[e][1]].type = "scalar"
             /\ \A x \in ToSet(r.fields[e]) : ~r.desc[x].rep
       /\ \A f \in Files : \A x \in ToSet(r.exts[f]) :
             r.desc[x].rep => \A m \in Messages : r.desc[x].ref \notin ToSet(r.entries[m])

VARIABLES
  req,        \* the request; never changes
  at,         \* the position of the file being hydrated
  phase,      \* what is being hydrated: see Phases
  todo,       \* the methods or the fields that are left in this phase
  known,      \* graph.entities (their fields, values and oneofs left out)
  targets,    \* graph.targets: a File, or nil
  packages,   \* graph.packages, each with its files
  importedBy, \* file.dependents
  pending,    \* graph.extensions
  inOut,      \* the in and out of the methods of each file of the request
  typ,        \* field.typ
  applied,    \* msg.exts
  usedBy,     \* msg.dependents and enum.dependents
  uses        \* msg.dependencies

control == <<at, phase, todo>>
files   == <<known, targets, packages, importedBy, pending>>
edges   == <<applied, usedBy, uses>>
vars    == <<req, control, files, inOut, typ, edges>>

Phases == {"file", "methods", "types", "extensions", "dependents", "done",
           "failed", "panicked"}

\* A FieldTypeElem is what it is (a scalar, an enum, a message) and the enum or
\* message; a FieldType has, besides those, its element and key and its field.
NoElem == [what |-> "nil", ref |-> Nobody]
NoType == [what |-> "nil", ref |-> Nobody, el |-> NoElem, key |-> NoElem, field |-> Nobody]

Init ==
    /\ req \in Requests
    /\ at = 1
    /\ phase = "file"
    /\ todo = <<>>
    /\ known = {}
    /\ targets = [f \in req.generate |-> Nobody]
    /\ packages = [p \in Packages |-> <<>>]
    /\ importedBy = [f \in Files |-> {}]
    /\ pending = <<>>
    /\ inOut = [i \in DOMAIN req.list |-> <<>>]
    /\ typ = [f \in Fields |-> NoType]
    /\ applied = [m \in Messages |-> {}]
    /\ usedBy = [d \in Declared |-> {}]
    /\ uses = [m \in Messages |-> {}]

-----------------------------------------------------------------------------
\* msg.AllMessages and file.AllMessages: map entries are not among them.
Below(ms) == LET all[m \in Messages] ==
                   req.nested[m] \o FlattenSeq([i \in DOMAIN req.nested[m] |->
                                                  all[req.nested[m][i]]])
             IN FlattenSeq([i \in DOMAIN ms |-> all[ms[i]]])

AllMessages(f) == req.top[f] \o Below(req.top[f])

FieldsOf(ms) == FlattenSeq([i \in DOMAIN ms |-> req.fields[ms[i]]])

\* A mistake: the fields of map entries get their types after those of their
\* message.
OwnFieldsFirst(f) ==
    LET ms == AllMessages(f)
    IN FlattenSeq([i \in DOMAIN ms |->
                     req.fields[ms[i]] \o FieldsOf(req.entries[ms[i]])])

\* The order in which hydrateFile gives fields their types: for each message
\* the fields of its map entries and then its own.
FieldsInOrder(f) ==
    LET ms == AllMessages(f)
    IN FlattenSeq([i \in DOMAIN ms |->
                     FieldsOf(req.entries[ms[i]]) \o req.fields[ms[i]]])

DeclaredIn(f) ==
    req.enums[f] \cup ToSet(AllMessages(f))
      \cup UNION {ToSet(req.entries[m]) : m \in ToSet(AllMessages(f))}

Entries == UNION {ToSet(req.entries[m]) : m \in Messages}

IsMapEntry(m) == m \in Entries

Fail == /\ phase' = "failed"
        /\ UNCHANGED <<req, at, todo, inOut, typ, files, edges>>

ThisFile == req.list[at]

\* Imports are looked up when the file itself is known.
ImportsKnown(f) == req.deps[f] \subseteq known \cup {f}

\* A mistake: files that are not to be generated become targets too.
EveryFileIsTarget(f) ==
    [g \in req.generate \cup {f} |-> IF g = f THEN f ELSE targets[g]]

TargetsWith(f) == [g \in req.generate |-> IF g = f THEN f ELSE targets[g]]

-----------------------------------------------------------------------------
\* hydrateFile up to its services: imports are looked up, enums, extensions and
\* messages become known.
DeclareFile ==
    /\ phase = "file" /\ at <= Len(req.list)
    /\ ImportsKnown(ThisFile)
    /\ known' = known \cup {ThisFile} \cup DeclaredIn(ThisFile)
    /\ importedBy' = [f \in Files |-> IF f \in req.deps[ThisFile]
                                      THEN importedBy[f] \cup {ThisFile}
                                      ELSE importedBy[f]]
    /\ targets' = TargetsWith(ThisFile)
    /\ pending' = pending \o req.exts[ThisFile]
    /\ todo' = req.methods[ThisFile]
    /\ phase' = "methods"
    /\ UNCHANGED <<req, at, packages, inOut, typ, edges>>

ImportUnknown ==
    /\ phase = "file" /\ at <= Len(req.list)
    /\ ~ImportsKnown(ThisFile)
    /\ Fail

\* hydrateMethod: both messages of the method are looked up and kept.
HydrateMethod ==
    /\ phase = "methods" /\ todo # <<>>
    /\ IF Head(todo)[1] \in known /\ Head(todo)[2] \in known
       THEN /\ inOut' = [inOut EXCEPT ![at] = Append(@, Head(todo))]
            /\ todo' = Tail(todo)
            /\ UNCHANGED <<req, at, phase, typ, files, edges>>
       ELSE Fail

EndMethods ==
    /\ phase = "methods" /\ todo = <<>>
    /\ phase' = "types"
    /\ todo' = FieldsInOrder(ThisFile)
    /\ UNCHANGED <<req, at, inOut, typ, files, edges>>

\* hydrateFieldType, which needs what the field refers to; a repeated field of
\* a map entry's type is a map.
Elem(d) == CASE d.type = "enum" -> "enum" [] d.type = "message" -> "embed"
             [] OTHER -> "scalar"

Resolves(fld) ==
    LET d == req.desc[fld]
    IN d.type # "group" /\ (d.type = "scalar" \/ d.ref \in known)

IsMapField(fld) ==
    LET d == req.desc[fld] IN d.rep /\ d.type = "message" /\ IsMapEntry(d.ref)

\* The key and the value in the entry of a map.
Key(fld)   == req.fields[req.desc[fld].ref][1]
Value(fld) == req.fields[req.desc[fld].ref][2]

\* The element that says what a descriptor says.
ElemOf(d) == [what |-> Elem(d), ref |-> d.ref]

\* toElem of a type, which panics for a type that is nil, repeated or a map.
HasElem(t) == t.what \in {"scalar", "enum", "embed"}
ToElem(t)  == [what |-> t.what, ref |-> t.ref]

Single(d, tied) == [what |-> Elem(d), ref |-> d.ref, el |-> NoElem, key |-> NoElem,
                    field |-> tied]
List(what, el, key, tied) == [what |-> what, ref |-> Nobody, el |-> el, key |-> key,
                              field |-> tied]

\* A mistake: the element of a map is its entry.
EntryIsElement(fld, tied) ==
    LET d == req.desc[fld]
    IN IF d.rep THEN List("rep", ElemOf(d), NoElem, tied) ELSE Single(d, tied)

\* The type of a field; tied is the field its setField is given.  The key and the
\* element of a map are those of the types that the fields of its entry have by now.
FieldType(fld, tied) ==
    LET d == req.desc[fld]
    IN CASE IsMapField(fld) -> List("map", ToElem(typ[Value(fld)]),
                                    ToElem(typ[Key(fld)]), tied)
         [] ~IsMapField(fld) /\ d.rep -> List("rep", ElemOf(d), NoElem, tied)
         [] OTHER -> Single(d, tied)

EntryHasTypes(fld) == HasElem(typ[Key(fld)]) /\ HasElem(typ[Value(fld)])

HydrateField ==
    /\ phase = "types" /\ todo # <<>>
    /\ LET fld == Head(todo)
       IN CASE ~Resolves(fld) -> Fail
            [] Resolves(fld) /\ IsMapField(fld) /\ ~EntryHasTypes(fld) ->
                 /\ phase' = "panicked"
                 /\ UNCHANGED <<req, at, todo, inOut, typ, files, edges>>
            [] OTHER ->
                 /\ typ' = [typ EXCEPT ![fld] = FieldType(fld, fld)]
                 /\ todo' = Tail(todo)
                 /\ UNCHANGED <<req, at, phase, inOut, files, edges>>

\* The file is through (its source code info is not modelled here) and is added
\* to its package.
EndFile ==
    /\ phase = "types" /\ todo = <<>>
    /\ packages' = [packages EXCEPT ![req.package[ThisFile]] = Append(@, ThisFile)]
    /\ at' = at + 1
    /\ phase' = "file"
    /\ UNCHANGED <<req, todo, known, targets, importedBy, pending, inOut, typ, edges>>

EndFiles ==
    /\ phase = "file" /\ at > Len(req.list)
    /\ phase' = "extensions"
    /\ todo' = pending
    /\ UNCHANGED <<req, at, inOut, typ, files, edges>>

\* Extensions get their type and their extendee.  addType is that of the field
\* embedded in the extension, so that is what the type is tied to.
HydrateExtension ==
    /\ phase = "extensions" /\ todo # <<>>
    /\ LET x == Head(todo)
       IN IF Resolves(x) /\ req.extendee[x] \in known
          THEN /\ typ' = [typ EXCEPT ![x] = FieldType(x, Embedded)]
               /\ applied' = [applied EXCEPT ![req.extendee[x]] = @ \cup {x}]
               /\ todo' = Tail(todo)
               /\ UNCHANGED <<req, at, phase, inOut, usedBy, uses, files>>
          ELSE Fail

\* Dependents are recorded only if both directions were asked for.  (The code
\* takes packages in any order, which makes no difference to the sets built.)
EndExtensions ==
    /\ phase = "extensions" /\ todo = <<>>
    /\ phase' = IF req.bidi THEN "dependents" ELSE "done"
    /\ todo' = IF ~req.bidi THEN <<>>
               ELSE FlattenSeq([i \in DOMAIN req.list |-> AllMessages(req.list[i])])
    /\ UNCHANGED <<req, at, inOut, typ, files, edges>>

\* IsEnum and IsEmbed of a type or an element, and Embed, which is nil if it is none.
IsEnum(t)  == t.what = "enum"
IsEmbed(t) == t.what = "embed"
Embed(t)   == IF IsEmbed(t) THEN t.ref ELSE Nobody

IsList(t) == t.what \in {"rep", "map"}

\* assignDependent, branch by branch: that on which it calls addDependent.
GivesDependent(t) ==
    {d \in Declared :
        \/ IsEnum(t) /\ d = t.ref
        \/ IsEmbed(t) /\ d = t.ref
        \/ IsList(t) /\ IsEnum(t.el) /\ d = t.el.ref
        \/ IsList(t) /\ IsEmbed(t.el) /\ d = t.el.ref
        \/ t.what = "map" /\ IsEnum(t.key) /\ d = t.key.ref
        \/ t.what = "map" /\ IsEmbed(t.key) /\ d = t.key.ref
        \/ t.what = "map" /\ IsEmbed(t.el) /\ d = t.el.ref}

\* A mistake: the last branch of the other direction is missing.
DependsOnNoRepeated(t) ==
    {d \in Messages :
        \/ IsEmbed(t) /\ d = t.ref
        \/ IsList(t) /\ IsEmbed(t.el) /\ d = Embed(t)
        \/ t.what = "map" /\ IsEmbed(t.el) /\ d = t.el.ref}

\* And that with which it calls addDependency, which leaves out nil: two branches
\* ask the list itself for its message, and it has none.
DependsOn(t) ==
    {d \in Messages :
        \/ IsEmbed(t) /\ d = t.ref
        \/ IsList(t) /\ IsEmbed(t.el) /\ d = Embed(t)
        \/ t.what = "map" /\ IsEmbed(t.key) /\ d = Embed(t)
        \/ t.what = "map" /\ IsEmbed(t.el) /\ d = t.el.ref
        \/ t.what = "rep" /\ IsEmbed(t.el) /\ d = t.el.ref}

\* Both, for all the fields of a message.
AssignDependents ==
    /\ phase = "dependents" /\ todo # <<>>
    /\ LET m == Head(todo)
           own == ToSet(req.fields[m])
       IN /\ usedBy' = [d \in Declared |->
                           IF \E x \in own : d \in GivesDependent(typ[x])
                           THEN usedBy[d] \cup {m} ELSE usedBy[d]]
          /\ uses' = [uses EXCEPT ![m] = @ \cup UNION {DependsOn(typ[x]) : x \in own}]
    /\ todo' = Tail(todo)
    /\ UNCHANGED <<req, at, phase, inOut, typ, applied, files>>

Finish ==
    /\ phase = "dependents" /\ todo = <<>>
    /\ phase' = "done"
    /\ UNCHANGED <<req, at, todo, inOut, typ, files, edges>>

Next ==
    \/ DeclareFile \/ ImportUnknown \/ HydrateMethod \/ EndMethods
    \/ HydrateField \/ EndFile \/ EndFiles
    \/ HydrateExtension \/ EndExtensions \/ AssignDependents \/ Finish

Spec == Init /\ [][Next]_vars

-----------------------------------------------------------------------------
Refs     == Declared \cup {Nobody}
Elements == [what : {"nil", "scalar", "enum", "embed"}, ref : Refs]
Types    == [what : {"nil", "scalar", "enum", "embed", "rep", "map"}, ref : Refs,
             el : Elements, key : Elements, field : Fields \cup {Embedded, Nobody}]

\* The types of the state.
TypeOK ==
    /\ req \in RequestType
    /\ at \in 1..(Len(req.list) + 1)
    /\ phase \in Phases
    /\ todo \in Seq(Messages \X Messages) \cup Seq(Fields) \cup Seq(Messages)
    /\ known \subseteq Files \cup Declared
    /\ targets \in [req.generate -> Files \cup {Nobody}]
    /\ packages \in [Packages -> Seq(Files)]
    /\ importedBy \in [Files -> SUBSET Files]
    /\ pending \in Seq(Fields)
    /\ inOut \in [DOMAIN req.list -> Seq(Messages \X Messages)]
    /\ typ \in [Fields -> Types]
    /\ applied \in [Messages -> SUBSET Fields]
    /\ usedBy \in [Declared -> SUBSET Messages]
    /\ uses \in [Messages -> SUBSET Messages]

Listed == ToSet(req.list)

UpTo(i) == {req.list[j] : j \in 1..i}

VisibleAt(i) == UNION {DeclaredIn(f) : f \in UpTo(i)}

AllFieldsOf(f) == ToSet(FieldsInOrder(f))

\* What protoc promises of a request: files come after those they import, they
\* refer only to what they or earlier files declare, the entry of a map is in
\* the message of its field; and, what the files of proto2 need not keep to, there
\* are no groups.
WellFormed ==
    \A i \in DOMAIN req.list :
       LET f == req.list[i]
           flds == AllFieldsOf(f) \cup ToSet(req.exts[f])
       IN /\ req.deps[f] \subseteq UpTo(i - 1)
          /\ \A x \in flds : req.desc[x].type # "group"
          /\ \A x \in flds : req.desc[x].ref \in VisibleAt(i) \cup {Nobody}
          /\ \A x \in ToSet(req.exts[f]) : req.extendee[x] \in VisibleAt(i)
          /\ \A k \in DOMAIN req.methods[f] :
                ToSet(req.methods[f][k]) \subseteq VisibleAt(i)
          /\ \A m \in ToSet(AllMessages(f)) : \A x \in ToSet(req.fields[m]) :
                IsMapField(x) => req.desc[x].ref \in ToSet(req.entries[m])

\* hydrateFile: a request as protoc makes it, of files without groups (which
\* ast.go:363-365 refuses), is never refused and never makes the code panic:
\* everything is looked up late enough, in whatever order the files, the messages
\* in them and the references between them are, and the entry of a map has its
\* types before the map takes its key and element from it.  But (ast.go:99-101) a
\* file set that lacks a file that another imports, or has it too late, is refused.
WellFormedIsBuilt ==
    /\ WellFormed => phase \notin {"failed", "panicked"}
    /\ phase = "done" =>
          \A i \in DOMAIN req.list : req.deps[req.list[i]] \subseteq UpTo(i)

\* The files of a package among the first n of the request.
InPackage(p, n) ==
    FlattenSeq([i \in 1..n |-> IF req.package[req.list[i]] = p THEN <<req.list[i]>>
                               ELSE <<>>])

\* The message or enum a field refers to, the value's for a map.
RefOf(x) == IF IsMapField(x) THEN req.desc[Value(x)].ref ELSE req.desc[x].ref

\* The type of a field says what its descriptor says: a map has the key and the
\* element that the descriptors in its entry say, a repeated field has an element
\* and no key, any other has neither; the enum or message is one of the graph.
Meant(x) ==
    LET d == req.desc[x]
        t == [what |-> typ[x].what, ref |-> typ[x].ref, el |-> typ[x].el, key |-> typ[x].key]
    IN /\ d.type # "group" /\ RefOf(x) \in known \cup {Nobody}
       /\ \/ /\ IsMapField(x) /\ req.desc[Value(x)].type # "group"
             /\ t = [what |-> "map", ref |-> Nobody, el |-> ElemOf(req.desc[Value(x)]),
                     key |-> ElemOf(req.desc[Key(x)])]
          \/ /\ ~IsMapField(x) /\ d.rep
             /\ t = [what |-> "rep", ref |-> Nobody, el |-> ElemOf(d), key |-> NoElem]
          \/ /\ ~d.rep
             /\ t = [what |-> Elem(d), ref |-> d.ref, el |-> NoElem, key |-> NoElem]

\* hydrateFieldType, hydrateMethod, the loops at the end: in a finished graph every
\* field and extension has the type that its descriptor says, and every method the
\* messages that its descriptor says, all of them in the graph.  An extension is
\* among those of its extendee and of no other message.  The files to generate are
\* the targets, with no nil among those that protoc sent, and every file is in its
\* package once, in the order of the request.
GraphIsWired ==
    phase = "done" =>
       /\ \A f \in Listed : \A x \in AllFieldsOf(f) \cup ToSet(req.exts[f]) : Meant(x)
       /\ \A i \in DOMAIN req.list :
             /\ inOut[i] = req.methods[req.list[i]]
             /\ \A k \in DOMAIN inOut[i] : ToSet(inOut[i][k]) \subseteq known
       /\ \A m \in Messages :
             applied[m] = {x \in UNION {ToSet(req.exts[f]) : f \in Listed} :
                             req.extendee[x] = m}
       /\ \A f \in req.generate : targets[f] = f <=> f \in Listed
       /\ \A p \in Packages :
             packages[p] = InPackage(p, Len(req.list))

\* assignDependent, whose branches record one direction or the other: the two are
\* the inverse of each other, and are exactly what the fields say; so are a file's
\* imports and its dependents.
EdgesAreInverse ==
    phase = "done" =>
       /\ req.bidi => \A f \in Listed : \A m \in ToSet(AllMessages(f)) :
             \A d \in Declared :
                /\ m \in usedBy[d] <=> \E x \in ToSet(req.fields[m]) : RefOf(x) = d
                /\ d \in Messages => (m \in usedBy[d] <=> d \in uses[m])
       /\ \A f, g \in Listed : f \in importedBy[g] <=> g \in req.deps[f]

\* field_type.go:5-6: each type is tied to its field.  (That of an extension is
\* tied to another field, which has no message.)
TypesAreTied ==
    phase = "done" =>
       \A f \in Listed : \A x \in AllFieldsOf(f) \cup ToSet(req.exts[f]) :
          typ[x].field = x
-----------------------------------------------------------------------------
\* The inductive invariant under the properties above, by what the parts of the
\* state have to do with the files that are declared.
Live == phase \notin {"failed", "panicked"}

\* The files that are declared are the first ones.
Through == IF phase \in {"methods", "types"} THEN at ELSE at - 1

\* The types of the state, with those of todo.
TypeInv ==
    /\ TypeOK
    /\ req \in Requests
    /\ phase \in {"methods", "types"} => at <= Len(req.list)
    /\ phase \in {"extensions", "dependents", "done"} => at = Len(req.list) + 1
    /\ phase = "file" => todo = <<>>
    /\ phase = "methods" => todo \in Seq(Messages \X Messages)
    /\ phase \in {"types", "extensions"} => todo \in Seq(Fields)
    /\ phase = "dependents" => todo \in Seq(Messages)

ExtensionsUpTo(i) == UNION {ToSet(req.exts[f]) : f \in UpTo(i)}

FilesDeclared ==
    Live => /\ known = UpTo(Through) \cup VisibleAt(Through)
            /\ \A f \in Files : importedBy[f] = {g \in UpTo(Through) : f \in req.deps[g]}
            /\ \A f \in req.generate : targets[f] = IF f \in UpTo(Through) THEN f ELSE Nobody
            /\ ToSet(pending) = ExtensionsUpTo(Through)
            /\ \A p \in Packages : packages[p] = InPackage(p, at - 1)
            /\ \A i \in 1..Through : req.deps[req.list[i]] \subseteq UpTo(i)

IsTyped(x) == typ[x] # NoType

TypesAreMeant == \A x \in Fields : IsTyped(x) => Meant(x)

\* How many of the fields of this file have been gone through.
Typed == Len(FieldsInOrder(ThisFile)) - Len(todo)

\* The fields of the files before this one have their types, and of those of this
\* one all that come before what is left to do.
FieldsInTurn ==
    Live => /\ \A i \in 1..(at - 1) : \A x \in AllFieldsOf(req.list[i]) : IsTyped(x)
            /\ phase = "types" =>
                  /\ Typed \in Nat
                  /\ \A j \in DOMAIN todo : todo[j] = FieldsInOrder(ThisFile)[Typed + j]
                  /\ \A j \in 1..Typed : IsTyped(FieldsInOrder(ThisFile)[j])

\* The methods of the files before this one have their messages, and of this one
\* those that are not left to do.
MethodsInTurn ==
    Live => \A i \in DOMAIN req.list :
               /\ i <= Through /\ ~(i = at /\ phase = "methods") =>
                     inOut[i] = req.methods[req.list[i]]
               /\ i = at /\ phase = "methods" => inOut[i] \o todo = req.methods[req.list[i]]
               /\ i > Through => inOut[i] = <<>>
               /\ \A k \in DOMAIN inOut[i] : ToSet(inOut[i][k]) \subseteq known

ExtensionsOf(m) == {x \in ToSet(pending) : req.extendee[x] = m}

ExtensionsInTurn ==
    /\ phase \in {"file", "methods", "types"} => \A m \in Messages : applied[m] = {}
    /\ phase = "extensions" =>
          /\ ToSet(todo) \subseteq ToSet(pending)
          /\ \A x \in ToSet(pending) : IsTyped(x) \/ x \in ToSet(todo)
          /\ \A m \in Messages : /\ applied[m] \subseteq ExtensionsOf(m)
                                 /\ ExtensionsOf(m) \subseteq applied[m] \cup ToSet(todo)
    /\ phase \in {"dependents", "done"} =>
          /\ \A x \in ToSet(pending) : IsTyped(x)
          /\ \A m \in Messages : applied[m] = ExtensionsOf(m)

\* What refers to what, as far as it has been gone through.
Refers(m, d) == \E x \in ToSet(req.fields[m]) : RefOf(x) = d

EdgesInTurn ==
    /\ \A m, d \in Messages : m \in usedBy[d] <=> d \in uses[m]
    /\ \A m \in Messages, d \in Declared : m \in usedBy[d] => Refers(m, d)
    /\ phase = "dependents" => \A m \in ToSet(todo) : \E f \in Listed : m \in ToSet(AllMessages(f))
    /\ phase \in {"dependents", "done"} /\ req.bidi =>
          \A f \in Listed : \A m \in ToSet(AllMessages(f)) :
             \/ phase = "dependents" /\ m \in ToSet(todo)
             \/ \A d \in Declared : Refers(m, d) => m \in usedBy[d]

\* Methods are looked up in order, and what protoc makes is never refused.
Accepted ==
    /\ phase = "methods" => ToSet(todo) \subseteq ToSet(req.methods[ThisFile])
    /\ WellFormed => Live

HydrationInv ==
    /\ TypeInv /\ FilesDeclared /\ TypesAreMeant /\ MethodsInTurn /\ FieldsInTurn
    /\ ExtensionsInTurn /\ EdgesInTurn /\ Accepted
=============================================================================
