------------------------------- MODULE MCFiles -------------------------------
(* Small instances of Files for TLC.                                       *)
EXTENDS Files, TLC

CONSTANTS F, M, A, B, D, e1, e2, x1, x2

\* The last file: message M { enum e1; message A { message D { enum e2 } };
\* message B }.
MCHolders == {F, M, A, B, D}
MCFileOf  == [p \in MCHolders |-> MaxFile]
MCExtra   == <<x1, x2>>
MCOwn ==
    [msgs  |-> (F :> <<M>>) @@ (M :> <<A, B>>) @@ (A :> <<D>>)
               @@ [p \in {B, D} |-> <<>>],
     enums |-> (M :> <<e1>>) @@ (D :> <<e2>>) @@ [p \in {F, A, B} |-> <<>>]]

AllImports == {i \in [FileIds -> SUBSET FileIds] : \A f \in FileIds : i[f] \subseteq 1..(f - 1)}

NoPublic == [f \in FileIds |-> {}]

\* What a file sees: its imports and what they import publicly.
Visible(i, pub) ==
    LET sees[n \in FileIds] == pub[n] \cup UNION {sees[g] : g \in pub[n]}
    IN i[MaxFile] \cup UNION {sees[g] : g \in i[MaxFile]}

Single(f) == [what |-> "single", of |-> f]

\* Types are named by the fields of M and of D, and by a method.
Fields(m, d) == [p \in MCHolders |-> CASE p = M -> m [] p = D -> d [] OTHER -> {}]
Methods(ms)  == [p \in MCHolders |-> IF p = F THEN ms ELSE {}]

NoFields  == Fields({}, {})
NoMethods == Methods({})

\* Any imports of four files; any use that the last file makes of three; and
\* callers that keep slices.
MCGraphs ==
    {[imports |-> i, public |-> NoPublic, fields |-> NoFields, methods |-> NoMethods,
      asked |-> FileIds, kept |-> 0] : i \in AllImports}
    \cup
    UNION {{[imports |-> i, public |-> pub, fields |-> Fields({Single(m)}, {d}),
             methods |-> Methods({t}), asked |-> {}, kept |-> 0] :
               t \in [in : Visible(i, pub) \cup {MaxFile}, out : Visible(i, pub) \cup {MaxFile}],
               m \in (Visible(i, pub) \cap {1}) \cup {MaxFile},
               d \in {x \in FieldTypes : (IF x.what = "single" THEN x.of ELSE x.el)
                                           \in Visible(i, pub) \cup {MaxFile}}} :
             i \in {j \in AllImports : j[2] = {1}}, pub \in {[NoPublic EXCEPT ![2] = {1}]}}
    \cup
    {[imports |-> [NoPublic EXCEPT ![MaxFile] = 1..(MaxFile - 1)],
      public |-> [NoPublic EXCEPT ![MaxFile] = q],
      fields |-> Fields({}, {Single(3)}), methods |-> Methods({[in |-> 1, out |-> 1]}),
      asked |-> {1}, kept |-> 1] : q \in {{}, {2}}}
    \cup
    {[imports |-> [f \in FileIds |-> {}], public |-> NoPublic, fields |-> NoFields,
      methods |-> NoMethods, asked |-> {}, kept |-> 2]}
=============================================================================
