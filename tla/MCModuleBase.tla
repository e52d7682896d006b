----------------------------- MODULE MCModuleBase -----------------------------
(* Small instances of ModuleBase for TLC.                                  *)
EXTENDS ModuleBase

Rel(elems) == [abs |-> FALSE, elems |-> elems]
Abs(elems) == [abs |-> TRUE, elems |-> elems]

AnyDirs  == {Rel(<<"a">>), Rel(<<"a", "..", "..", "b">>), Rel(<<>>), Abs(<<"..", "b">>)}
AnyRoots == {Rel(<<"a", "..", "..">>), Abs(<<"out">>)}

MCDepth == [golang |-> 5, docs |-> 2]
MCOrder == <<"golang", "docs">>
=============================================================================
