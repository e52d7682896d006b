------------------------------ MODULE Parameters ------------------------------
(***************************************************************************)
(* parameters.go and lang/go/parameters.go: the parameters of a plugin, as *)
(* protoc hands them over and as the map that plugins read and modify.     *)
(* Strings are sequences of characters.                                    *)
(***************************************************************************)
EXTENDS Names, TLC

CONSTANT Code   \* the bytes of the characters, by which sort.Strings compares

\* Where p is cut at its first sep: the part before and the part behind it.
Cut(p, sep) ==
    IF Has(p, sep)
    THEN LET i == Min({j \in DOMAIN p : p[j] = sep})
         IN <<SubSeq(p, 1, i - 1), SubSeq(p, i + 1, Len(p))>>
    ELSE <<p, <<>>>>

\* A mistake: the key has everything up to the last "=".
ParseLast(s) ==
    LET CutLast(p) == IF ~Has(p, "=") THEN <<p, <<>>>>
                      ELSE LET i == Max({j \in DOMAIN p : p[j] = "="})
                           IN <<SubSeq(p, 1, i - 1), SubSeq(p, i + 1, Len(p))>>
    IN FoldLeft(LAMBDA params, p : (CutLast(p)[1] :> CutLast(p)[2]) @@ params,
                <<>>, SplitAt(s, ","))

\* ParseParameters: of two values for one key, the last one counts.
ParseParameters(s) ==
    FoldLeft(LAMBDA params, p : (Cut(p, "=")[1] :> Cut(p, "=")[2]) @@ params,
             <<>>, SplitAt(s, ","))

Less(a, b) ==
    \/ IsStrictPrefix(a, b)
    \/ \E i \in DOMAIN a \cap DOMAIN b :
          /\ SubSeq(a, 1, i - 1) = SubSeq(b, 1, i - 1)
          /\ Code[a[i]] < Code[b[i]]

\* Parameters.String: sorted, a key without a value stands alone.
String(params) ==
    LET part(k) == IF params[k] = <<>> THEN k ELSE k \o <<"=">> \o params[k]
        parts   == SetToSortSeq({part(k) : k \in DOMAIN params}, Less)
    IN IF parts = <<>> THEN <<>> ELSE JoinWith(parts, <<",">>)

SetStr(params, k, v) == (k :> v) @@ params

\* Plugins of lang/go: a parameter without a value enables them all.
Key == <<"p">>

\* A mistake: one that is not given is taken for one without a value.
AllUnlessGiven(params) == Key \in DOMAIN params => params[Key] = <<>>

All(params) == Key \in DOMAIN params /\ params[Key] = <<>>

Plugins(params) ==
    IF Key \notin DOMAIN params \/ All(params) THEN <<>> ELSE SplitAt(params[Key], "+")

HasPlugin(params, name) == All(params) \/ Contains(Plugins(params), name)

AddPlugin(params, names) ==
    IF names = <<>> \/ All(params) THEN params
    ELSE SetStr(params, Key, JoinWith(Plugins(params) \o names, <<"+">>))

-----------------------------------------------------------------------------
\* parameters.go:17-18, 54-56: what String gives can be handed to a sub-plugin:
\* it is parsed to the same parameters, and given again.  (A map that was never
\* parsed and is empty is not: "" is parsed to a key without a name.)
ParametersRoundTrip(s) ==
    LET params == ParseParameters(s)
    IN /\ ParseParameters(String(params)) = params
       /\ Cardinality({Cut(p, "=")[1] : p \in ToSet(SplitAt(s, ","))})
             = Cardinality(DOMAIN params)

\* lang/go/parameters.go:49-50, 66-67: added plugins are enabled and none that was
\* is lost, whether the parameter was not given, was empty or had any value, also
\* through another process; and one that was not given comes to enable no other
\* plugin.  (A name that is empty or has a "+" is not one that can be added.)
PluginsStay(s) ==
    \A before \in {ParseParameters(s)} \cup
                  {SetStr(ParseParameters(s), Key, value) : value \in {<<>>, SplitAt(s, ",")[1]}} :
       LET names  == <<<<"v">>, <<"k", "v">>>>
           after  == AddPlugin(before, names)
       IN /\ \A n \in ToSet(names) : HasPlugin(ParseParameters(String(after)), n)
          /\ \A n \in ToSet(Plugins(before)) : HasPlugin(after, n)
          /\ All(before) <=> All(after)
          /\ Key \notin DOMAIN before => \A n \in {<<"k">>, <<>>} : ~HasPlugin(after, n)
          /\ \A k \in (DOMAIN before) \ {Key} : after[k] = before[k]
=============================================================================
