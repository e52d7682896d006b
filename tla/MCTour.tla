------------------------------- MODULE MCTour -------------------------------
(* A small package for Tour.                                               *)
EXTENDS Tour, TLC

CONSTANTS pkg, fa, fb, E, ev, M, N, x, y, o, Entry, key, S, call, ext, inner, G

MCNodes == {pkg, fa, fb, E, ev, M, N, x, y, o, Entry, key, S, call, ext, inner, G}

\* One file: enum E { ev }, message M { map Entry { key }, message N { y }, x,
\* oneof o, extend inner }, service S { call }, extend ext.  The other: enum G.
MCKindOf ==
    (pkg :> "package") @@ (fa :> "file") @@ (fb :> "file")
    @@ (ev :> "enumVal") @@ (S :> "service") @@ (call :> "method")
    @@ (o :> "oneof") @@ [n \in {E, G} |-> "enum"] @@ [n \in {ext, inner} |-> "ext"]
    @@ [n \in {M, N, Entry} |-> "message"] @@ [n \in {x, y, key} |-> "field"]

None == [l \in Lists |-> <<>>]

MCDecl ==
    (pkg :> [None EXCEPT !.files = <<fa, fb>>])
    @@ (fa :> [None EXCEPT !.enums = <<E>>, !.msgs = <<M>>, !.srvs = <<S>>,
                           !.defExts = <<ext>>])
    @@ (fb :> [None EXCEPT !.enums = <<G>>])
    @@ (E :> [None EXCEPT !.vals = <<ev>>])
    @@ (M :> [None EXCEPT !.msgs = <<N>>, !.maps = <<Entry>>, !.fields = <<x>>,
                          !.preservedMsgs = <<Entry, N>>,
                          !.oneofs = <<o>>, !.defExts = <<inner>>])
    @@ (N :> [None EXCEPT !.fields = <<y>>])
    @@ (Entry :> [None EXCEPT !.fields = <<key>>])
    @@ (S :> [None EXCEPT !.methods = <<call>>])
    @@ [n \in {ev, x, y, o, key, call, ext, inner, G} |-> None]

\* descriptor.proto on what a path stands for.
Said == (<<12>> :> "syntax") @@ (<<2>> :> "package")
        @@ (<<8>> :> "other")                \* option of the file
        @@ (<<4, 0, 1>> :> "other")          \* the name of M
        @@ (<<4, 0, 7, 1>> :> "other")       \* an option of M
        @@ (<<4, 0, 2, 0, 8, 3>> :> "other") \* an option of x
        @@ (<<4, 0>> :> M) @@ (<<4, 0, 2, 0>> :> x) @@ (<<4, 0, 3, 1>> :> N)
        @@ (<<4, 0, 3, 1, 2, 0>> :> y) @@ (<<4, 0, 8, 0>> :> o)
        @@ (<<5, 0, 2, 0>> :> ev) @@ (<<6, 0, 2, 0>> :> call)
        @@ (<<7, 0>> :> ext) @@ (<<4, 0, 6, 0>> :> inner)

MCPaths  == DOMAIN Said

MCMeaning == [path \in Paths |-> Said[path]]
=============================================================================
