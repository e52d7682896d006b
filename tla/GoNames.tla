------------------------------- MODULE GoNames -------------------------------
(***************************************************************************)
(* lang/go: the names that protoc-gen-go gives to what it generates.       *)
(***************************************************************************)
EXTENDS Names

CONSTANTS
  Keywords,   \* of Go
  Protected   \* the names of methods of generated structs

\* camelCase: one character, of which next comes after; word: the lower-case
\* letters to come belong to a word that has begun.
CamelStep(s, i, n) ==
    LET c == n[i]
        nextLower == i < Len(n) /\ IsLower(n[i + 1])
    IN IF i = 1 /\ c = "_" THEN [out |-> <<"X">>, word |-> FALSE]
       ELSE IF s.word /\ IsLower(c) THEN [s EXCEPT !.out = Append(@, c)]
       ELSE IF c = "_" /\ nextLower THEN [s EXCEPT !.word = FALSE]
       ELSE IF IsDigit(c) THEN [out |-> Append(s.out, c), word |-> FALSE]
       ELSE [out |-> Append(s.out, IF IsLower(c) THEN Capital[c] ELSE c), word |-> TRUE]

CamelCase(n) ==
    FoldLeft(LAMBDA s, i : CamelStep(s, i, n), [out |-> <<>>, word |-> FALSE],
             [i \in DOMAIN n |-> i]).out

JoinNames(a, b) == a \o <<"_">> \o b

\* A mistake: an underscore in any case.
JoinPlain(a, b) == JoinNames(a, CamelCase(b))

JoinChild(a, b) ==
    IF IsLower(Head(b)) THEN a \o CamelCase(b) ELSE JoinNames(a, CamelCase(b))

\* context.Name of a message or enum, from the outermost message down to it.
Name(path) ==
    FoldLeft(LAMBDA a, b : JoinChild(a, b), CamelCase(Head(path)), Tail(path))

\* context.Name of a field or oneof: methods of the generated struct are avoided.
FieldName(n) ==
    IF CamelCase(n) \in Protected THEN CamelCase(n) \o <<"_">> ELSE CamelCase(n)

\* OneofOption: the wrapper of a field in a oneof of a message with nested types.
OneofOption(message, field, nested) ==
    LET n == JoinNames(CamelCase(message), FieldName(field))
    IN IF \E t \in nested : Name(<<message, t>>) = n THEN n \o <<"_">> ELSE n

-----------------------------------------------------------------------------
\* The package of a file.  f has the go_package option, or <<>>; those of all
\* files of its proto package, in order; mapped, with the value of the M parameter
\* for it, if there is one; whether it is a build target; the name of its proto
\* package, and the directory and base name of its path.
Sanitized(s) ==
    [i \in DOMAIN s |-> IF IsLower(s[i]) \/ IsUpper(s[i]) \/ IsDigit(s[i]) THEN s[i] ELSE "_"]

LastOf(s, c)  == Max({i \in DOMAIN s : s[i] = c})
Before(s, c)  == SubSeq(s, 1, LastOf(s, c) - 1)
Behind(s, c)  == IF Has(s, c) THEN SubSeq(s, LastOf(s, c) + 1, Len(s)) ELSE s

\* A mistake: the other files of the package are not asked.
ResolveOwn(f) == f.option

\* resolveGoPackageOption
ResolveGoPackageOption(f) ==
    IF f.option # <<>> THEN f.option
    ELSE LET set == SelectSeq(f.options, LAMBDA o : o # <<>>)
         IN IF set = <<>> THEN <<>> ELSE Head(set)

OptionPackage(f) ==
    LET option == ResolveGoPackageOption(f)
    IN IF f.mapped # <<>> /\ ~f.target
       THEN [path |-> Head(f.mapped), pkg |-> Behind(Head(f.mapped), "/")]
       ELSE IF option = <<>>
       THEN [path |-> f.dir, pkg |-> IF f.proto # <<>> THEN SnakeCase(f.proto)
                                     ELSE Sanitized(f.base)]
       ELSE IF Has(option, ";")
       THEN [path |-> Before(option, ";"), pkg |-> Sanitized(Behind(option, ";"))]
       ELSE IF Has(option, "/")
       THEN [path |-> option, pkg |-> Sanitized(Behind(option, "/"))]
       ELSE [path |-> f.dir, pkg |-> Sanitized(option)]

Prefixed(pkg) ==
    IF (pkg # <<>> /\ IsDigit(Head(pkg))) \/ pkg \in Keywords THEN <<"_">> \o pkg ELSE pkg

\* context.PackageName, given the import_path parameter.
PackageName(f, importPath) ==
    LET pkg == IF importPath # <<>> /\ f.option = <<>> THEN importPath
               ELSE OptionPackage(f).pkg
    IN Prefixed(pkg)

\* context.ImportPath, given the import_prefix parameter.
ImportPath(f, importPrefix) == importPrefix \o OptionPackage(f).path

-----------------------------------------------------------------------------
\* protoc-gen-go's own naming of a type from its dotted name, by character: what
\* becomes of a dot or an underscore depends on its neighbours.
ProtocGenGo(n) ==
    LET nextLower(i) == i < Len(n) /\ IsLower(n[i + 1])
        starts(i)    == i = 1 \/ n[i - 1] = "."
        Of(i) == CASE n[i] = "." -> IF nextLower(i) THEN <<>> ELSE <<"_">>
                   [] n[i] = "_" -> IF starts(i) THEN <<"X">>
                                    ELSE IF nextLower(i) THEN <<>> ELSE <<"_">>
                   [] IsLower(n[i]) -> IF starts(i) \/ n[i - 1] = "_" \/ IsDigit(n[i - 1])
                                       THEN <<Capital[n[i]]>> ELSE <<n[i]>>
                   [] OTHER -> <<n[i]>>
    IN FlattenSeq([i \in DOMAIN n |-> Of(i)])

IsIdent(s) == /\ s # <<>> /\ ~IsDigit(Head(s))
              /\ \A i \in DOMAIN s : s[i] = "_" \/ IsLower(s[i]) \/ IsUpper(s[i]) \/ IsDigit(s[i])

\* lang/go/context.go:16-17: a nested message or enum has the name that
\* protoc-gen-go gives it, however deep it is nested and whatever underscores,
\* digits and cases there are in the names; and the name is exported.
NamesAreProtocGenGos(n) ==
    LET path == SplitAt(n, ".")
    IN (\A k \in DOMAIN path : IsIdent(path[k])) =>
          /\ Name(path) = ProtocGenGo(n)
          /\ Head(Name(path)) = "X" \/ IsUpper(Head(Name(path)))

\* lang/go/context.go:42-44, lang/go/name.go:28: the wrapper of a oneof's field
\* has the name of no type that is nested in the message (unless both the name
\* and the name with an underscore are taken: the code looks once), and a field
\* has that of no method.
OptionsAreApart(n) ==
    LET path   == SplitAt(n, ".")
        nested == ToSet(Tail(path))
        names  == {Name(<<<<"a">>, t>>) : t \in nested}
        option == OneofOption(<<"a">>, Head(path), nested)
    IN (\A k \in DOMAIN path : IsIdent(path[k])) =>
          /\ FieldName(Head(path)) \notin Protected
          /\ option \in names => Front(option) \in names

\* A target file in a directory, with an option in a package whose files have others.
File(option, options, proto, dir, base) ==
    [option |-> option, options |-> options, mapped |-> <<>>, target |-> TRUE,
     proto |-> proto, dir |-> dir, base |-> base]

\* lang/go/context.go:52-59, lang/go/package.go:113-115: without parameters, the
\* package name of a target is an identifier that Go accepts, whichever of the
\* option, the proto package and the file name it is made of (an option that
\* ends in its separator names none).  A file without the option has the package
\* name of the first one of its proto package that has it; it is imported from
\* the same path when the option names one or both files are in one directory, and
\* only then.  An M parameter, empty or not, says where a file that is no target
\* is imported from, and nothing of a target.
PackagesAreNamed(s) ==
    LET own      == File(s, <<s>>, <<>>, <<"o">>, <<"o">>)
        other(d) == File(<<>>, <<<<>>, s, <<"g">>>>, <<>>, d, <<"o">>)
        mapped(m, target) == [own EXCEPT !.mapped = <<m>>, !.target = target]
    IN s # <<>> =>
         /\ \A f \in {own, other(<<"g">>), File(<<>>, <<>>, <<>>, <<"o">>, s)} \cup
                     (IF \A k \in DOMAIN SplitAt(s, ".") : IsIdent(SplitAt(s, ".")[k])
                      THEN {File(<<>>, <<>>, s, <<"o">>, <<"o">>)} ELSE {}) :
               LET pkg == PackageName(f, <<>>)
               IN \/ IsIdent(pkg) /\ pkg \notin Keywords
                  \/ ResolveGoPackageOption(f) # <<>> /\ Last(s) \in {"/", ";"}
         /\ \A prefix \in {<<>>, <<"o", "/">>} :
               /\ \A d \in {<<"o">>, <<"g">>} :
                     /\ PackageName(own, <<>>) = PackageName(other(d), <<>>)
                     /\ ImportPath(own, prefix) = ImportPath(other(d), prefix)
                          <=> d = own.dir \/ Has(s, ";") \/ Has(s, "/")
               /\ \A m \in {<<>>, s} :
                     /\ ImportPath(mapped(m, FALSE), prefix) = prefix \o m
                     /\ ImportPath(mapped(m, TRUE), prefix) = ImportPath(own, prefix)
=============================================================================
