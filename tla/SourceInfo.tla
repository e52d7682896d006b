------------------------------ MODULE SourceInfo ------------------------------
(***************************************************************************)
(* graph.hydrateSourceCodeInfo and the childAtPath methods: protoc sends,  *)
(* for a file, locations with the comments around them.  The path of a     *)
(* location says what it is about: pairs of a field of the descriptor and  *)
(* an index in it, from the file down.  Each entity is to get the location *)
(* of its own.                                                             *)
(***************************************************************************)
EXTENDS Tree

CONSTANTS
  file,       \* the file that protoc describes
  Paths,      \* the paths of the locations, that of the file excepted
  Meaning,    \* the entity each path stands for, "syntax", "package" or "other"
  Nobody      \* nil

\* source_code_info.go
packagePath == 2
messageTypePath == 4
enumTypePath == 5
servicePath == 6
syntaxPath == 12
messageTypeFieldPath == 2
messageTypeNestedTypePath == 3
messageTypeEnumTypePath == 4
messageTypeOneofDeclPath == 8
enumTypeValuePath == 2
serviceTypeMethodPath == 2

Root == <<>>

\* What is in the file.
Entities ==
    LET below[n \in Nodes] == {n} \cup UNION {UNION {below[m] : m \in ToSet(Decl[n][l])} : l \in Lists}
    IN below[file]

\* What descriptor.proto says of paths: the field of a kind's descriptor that holds
\* the declarations of a list.
DeclarationFields ==
    {<<"file", 4, "msgs">>, <<"file", 5, "enums">>, <<"file", 6, "srvs">>,
     <<"file", 7, "defExts">>,
     <<"message", 2, "fields">>, <<"message", 3, "preservedMsgs">>,
     <<"message", 4, "enums">>, <<"message", 6, "defExts">>, <<"message", 8, "oneofs">>,
     <<"enum", 2, "vals">>, <<"service", 2, "methods">>}

\* e is what is declared in p at the index, from zero, of the field.
Declares(p, field, index, e) ==
    \E l \in Lists : /\ <<KindOf[p], field, l>> \in DeclarationFields
                     /\ index + 1 \in DOMAIN Decl[p][l] /\ Decl[p][l][index + 1] = e

\* The entities that a path of pairs leads to, from the file down.
Meant(path) ==
    LET n == Len(path) \div 2
    IN {c[n] : c \in {d \in [0..n -> Nodes] :
          /\ Len(path) = 2 * n /\ d[0] = file
          /\ \A i \in 1..n : Declares(d[i - 1], path[2 * i - 1], path[2 * i], d[i])}}

ASSUME FileAssumption == file \in Nodes /\ KindOf[file] = "file" /\ Nobody \notin Nodes \cup Paths
ASSUME PathsAssumption ==
    /\ Paths \subseteq Seq(Nat) \ {Root}
    /\ Meaning \in [Paths -> Entities \cup {"syntax", "package", "other"}]
    /\ \A path \in Paths :
          /\ LET meant == Meant(path)
             IN \A e \in Entities \ {file} : Meaning[path] = e <=> e \in meant
          /\ Meaning[path] = "syntax"  => path = <<12>>
          /\ Meaning[path] = "package" => path = <<2>>

\* Each entity is declared in one place.
ASSUME PlacesAssumption ==
    \A f, g \in DeclarationFields :
       \A p \in {n \in Nodes : KindOf[n] = f[1]}, q \in {n \in Nodes : KindOf[n] = g[1]} :
          \A i \in DOMAIN Decl[p][f[3]], j \in DOMAIN Decl[q][g[3]] :
             Decl[p][f[3]][i] = Decl[q][g[3]][j] => f = g /\ p = q /\ i = j

VARIABLES
  seen,         \* the locations gone through; that of the file comes first
  info,         \* the info of each entity: its location's path, or Nobody
  syntaxInfo,   \* the file's
  packageInfo

infoVars == <<seen, info, syntaxInfo, packageInfo>>

-----------------------------------------------------------------------------
\* The list that childAtPath indexes for a field of a descriptor.  Those of extensions
\* are not among them: an extension is left without info.
Followed(kind, code) ==
    CASE kind = "file"    /\ code = messageTypePath           -> "msgs"
      [] kind = "file"    /\ code = enumTypePath              -> "enums"
      [] kind = "file"    /\ code = servicePath               -> "srvs"
      [] kind = "message" /\ code = messageTypeFieldPath      -> "fields"
      [] kind = "message" /\ code = messageTypeNestedTypePath -> "preservedMsgs"
      [] kind = "message" /\ code = messageTypeEnumTypePath   -> "enums"
      [] kind = "message" /\ code = messageTypeOneofDeclPath  -> "oneofs"
      [] kind = "enum"    /\ code = enumTypeValuePath         -> "vals"
      [] kind = "service" /\ code = serviceTypeMethodPath     -> "methods"
      [] OTHER                                                -> "none"

\* A mistake: nested messages are indexed without the map entries among them.
MsgsOnly(e, code) ==
    LET l == Followed(KindOf[e], code) IN Decl[e][IF l = "preservedMsgs" THEN "msgs" ELSE l]

List(e, code) == Decl[e][Followed(KindOf[e], code)]

\* The code indexes without a check and panics where an index is out of range; the
\* indices protoc sends are in range, so that Nobody stands for no list only.
Child(e, code, index) ==
    IF e # Nobody /\ Followed(KindOf[e], code) # "none"
       /\ index + 1 \in DOMAIN List(e, code)
    THEN List(e, code)[index + 1] ELSE Nobody

\* childAtPath, from the file: paths of declarations come in pairs.
ChildAtPath(path) ==
    IF Len(path) % 2 = 1 THEN Nobody
    ELSE FoldLeft(LAMBDA e, i : Child(e, path[2 * i - 1], path[2 * i]),
                  file, [i \in 1..(Len(path) \div 2) |-> i])

Stanza(path) ==
    CASE path = <<syntaxPath>>  -> "syntax"
      [] path = <<packagePath>> -> "package"
      [] OTHER                  -> "none"

InfoWith(e, path) == [x \in Entities |-> IF x = e THEN path ELSE info[x]]

\* One turn of the loop in hydrateSourceCodeInfo.  The info of the file is that
\* of its syntax (file.addSourceCodeInfo): a file without a syntax stanza keeps
\* the location of the whole file there.
Locate(path) ==
    /\ seen' = seen \cup {path}
    /\ packageInfo' = IF Stanza(path) = "package" THEN path ELSE packageInfo
    /\ syntaxInfo' = IF Stanza(path) = "syntax" \/ ChildAtPath(path) = file
                     THEN path ELSE syntaxInfo
    /\ info' = IF ChildAtPath(path) = file THEN info
               ELSE InfoWith(ChildAtPath(path), path)

InfoInit ==
    /\ seen = {}
    /\ info = [e \in Entities |-> Nobody]
    /\ syntaxInfo = Nobody
    /\ packageInfo = Nobody

\* protoc sends the location of the whole file first.
First == seen = {} /\ Locate(Root)

Other == \E path \in Paths \ seen : Root \in seen /\ Locate(path)

InfoNext == First \/ Other

-----------------------------------------------------------------------------
Infos == Paths \cup {Root, Nobody}

\* The types of this part of the state.
InfoTypeOK ==
    /\ seen \subseteq Paths \cup {Root}
    /\ info \in [Entities -> Infos]
    /\ syntaxInfo \in Infos
    /\ packageInfo \in Infos

IsExtension(e) == KindOf[e] = "ext"

\* entity.go:44-46, ast_test.go:206, file.go:34-40: whatever the order of the
\* locations and whatever else has one (options, names, ranges), an entity has
\* the info of the location that stands for it, once that has been seen, and
\* never another's; map entries, which have none, do not shift those of their
\* siblings; and so for the stanzas of the syntax and the package.
InfoIsOwn ==
    /\ \A e \in Entities \ {file} : ~IsExtension(e) =>
          \A path \in Paths : info[e] = path <=> path \in seen /\ Meaning[path] = e
    /\ \A path \in seen \ {Root} :
          /\ Meaning[path] = "syntax"  => syntaxInfo = path
          /\ Meaning[path] = "package" => packageInfo = path
=============================================================================
