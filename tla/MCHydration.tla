----------------------------- MODULE MCHydration -----------------------------
(* Small instances of Hydration for TLC.                                   *)
EXTENDS Hydration, TLC

CONSTANTS f1, f2, p1, p2, M, N, Entry, P, E, a, b, c, key, value, ext

\* file f1: enum E, message M { message N { b }, map entry { key, value },
\*                              map a }, extension ext; or the entry is in N,
\*                              where protoc would not put it
\* file f2: message P { c }, one method
MCFiles    == {f1, f2}
MCPackages == {p1, p2}
MCMessages == {M, N, Entry, P}
MCEnums    == {E}
MCFields   == {a, b, c, key, value, ext}

Scalar    == [type |-> "scalar", rep |-> FALSE, ref |-> Nobody]
EnumOf(r) == [type |-> "enum", rep |-> r, ref |-> E]
EmbedOf(m)  == [type |-> "message", rep |-> FALSE, ref |-> m]
Some      == {Scalar, EnumOf(FALSE), EmbedOf(M), EmbedOf(N), EmbedOf(P)}
AnyType   == Some \cup {EnumOf(TRUE)}
               \cup {[type |-> "message", rep |-> TRUE, ref |-> m] : m \in {M, P}}
Groups    == {[type |-> "group", rep |-> FALSE, ref |-> N]}

\* No file imports itself.
Imports == {d \in [MCFiles -> SUBSET MCFiles] : \A f \in MCFiles : f \notin d[f]}

Request(list, gen, bidi, deps, pkg, v, fb, fc, x, m, owner) ==
    [list |-> list, generate |-> gen, bidi |-> bidi, deps |-> deps,
     package |-> (f1 :> p1) @@ (f2 :> pkg),
     enums |-> (f1 :> {E}) @@ (f2 :> {}),
     top |-> (f1 :> <<M>>) @@ (f2 :> <<P>>),
     nested |-> (M :> <<N>>) @@ [n \in MCMessages |-> <<>>],
     entries |-> (owner :> <<Entry>>) @@ [n \in MCMessages |-> <<>>],
     fields |-> (M :> <<a>>) @@ (N :> <<b>>) @@ (P :> <<c>>)
                  @@ (Entry :> <<key, value>>),
     exts |-> (f1 :> <<ext>>) @@ (f2 :> <<>>),
     extendee |-> [f \in MCFields |-> x],
     methods |-> (f1 :> <<>>) @@ (f2 :> <<<<P, m>>>>),
     desc |-> (a :> [type |-> "message", rep |-> TRUE, ref |-> Entry])
                @@ (b :> fb) @@ (c :> fc) @@ (key :> Scalar) @@ (value :> v)
                @@ (ext :> fb)]

\* Every order of the files, one of them missing or not, any imports; a value,
\* an element or an extendee of any message; the entry in either message.
WideRequests ==
    {Request(list, gen, TRUE, deps, p1, v, fb, Scalar, x, M, o) :
       list \in {<<f1, f2>>, <<f2, f1>>, <<f1>>, <<f2>>},
       gen \in {{f2}, MCFiles}, deps \in Imports,
       v \in Some, fb \in AnyType \cup Groups, x \in {N, P},
       o \in {M, N}}

\* The types of more fields, with and without the second direction.
DeepRequests ==
    {Request(list, gen, bidi, (f1 :> {}) @@ (f2 :> {f1}), pkg, v, fb, fc, M, m, M) :
       list \in {<<f1, f2>>, <<f2, f1>>}, gen \in {{f2}, {}}, bidi \in BOOLEAN,
       pkg \in MCPackages, v \in Some, fb \in AnyType, fc \in AnyType, m \in {N, P}}

MCRequests == WideRequests \cup DeepRequests
=============================================================================
