------------------------------- MODULE Presence -------------------------------
(***************************************************************************)
(* field.go, oneof.go, message.go: which fields of a message are in a      *)
(* oneof, which oneofs are real and which fields have presence.  protoc    *)
(* makes a synthetic oneof of every proto3 field that is `optional'.       *)
(*                                                                         *)
(* A message is written as a sequence, a character for each field:         *)
(*   p  of a scalar type, without a keyword in proto3, optional in proto2  *)
(*   q  of a scalar type, `optional' in proto3, required in proto2         *)
(*   m  of a message type     r  repeated     a  a map                     *)
(*   1, 2  scalars in the first and the second oneof                       *)
(***************************************************************************)
EXTENDS Naturals, Sequences, SequencesExt, FiniteSetsExt

Proto2 == ""
Proto3 == "proto3"

RealKinds == {"1", "2"}

\* What protoc sends for the fields: the label, whether it is optional in proto3,
\* and the oneof it is a member of.
Label(c, syntax) ==
    CASE c \in {"r", "a"}           -> "repeated"
      [] c = "q" /\ syntax = Proto2 -> "required"
      [] OTHER                      -> "optional"

Proto3Optional(c, syntax) == c = "q" /\ syntax = Proto3

\* A file cannot have the fields of a oneof apart, nor its second without a first.
IsMessage(text) ==
    \A i, j \in DOMAIN text :
       /\ text[i] = text[j] /\ text[i] \in RealKinds => \A k \in i..j : text[k] = text[i]
       /\ text[i] = "2" => \E k \in 1..i : text[k] = "1"

\* OneofDecl: the real oneofs, then one for each field that is optional.
OneOfs(text, syntax) ==
    LET real == SelectSeq(<<"1", "2">>, LAMBDA c : \E i \in DOMAIN text : text[i] = c)
        \* a oneof by its members, which hydrateMessage adds as fields come
        Members(P(_)) == SelectSeq([i \in DOMAIN text |-> i], LAMBDA i : P(text[i]))
        optional == Members(LAMBDA c : Proto3Optional(c, syntax))
    IN [k \in DOMAIN real |-> Members(LAMBDA c : c = real[k])]
          \o [k \in DOMAIN optional |-> <<optional[k]>>]

InOneOf(f, text, syntax) ==
    \E k \in DOMAIN OneOfs(text, syntax) : Contains(OneOfs(text, syntax)[k], f)

InRealOneOf(f, text, syntax) ==
    InOneOf(f, text, syntax) /\ ~Proto3Optional(text[f], syntax)

\* A mistake: a oneof of one field is synthetic.
IsSingle(o, text, syntax) == syntax = Proto3 /\ Len(o) = 1

IsSynthetic(o, text, syntax) ==
    /\ syntax = Proto3
    /\ Len(o) = 1
    /\ ~InRealOneOf(o[1], text, syntax)

HasOptionalKeyword(f, text, syntax) ==
    IF syntax = Proto3 THEN Proto3Optional(text[f], syntax)
    ELSE Label(text[f], syntax) = "optional"

HasPresence(f, text, syntax) ==
    \/ InOneOf(f, text, syntax)
    \/ text[f] = "m"
    \/ /\ text[f] \notin {"r", "a"}
       /\ syntax = Proto2 \/ HasOptionalKeyword(f, text, syntax)

Required(f, text, syntax) == syntax = Proto2 /\ Label(text[f], syntax) = "required"

NonOneOfFields(text, syntax) ==
    SelectSeq([i \in DOMAIN text |-> i], LAMBDA f : ~InOneOf(f, text, syntax))

OneOfFields(text, syntax) == FlattenSeq(OneOfs(text, syntax))

SyntheticOneOfFields(text, syntax) ==
    FlattenSeq(SelectSeq(OneOfs(text, syntax), LAMBDA o : IsSynthetic(o, text, syntax)))

RealOneOfs(text, syntax) ==
    SelectSeq(OneOfs(text, syntax), LAMBDA o : ~IsSynthetic(o, text, syntax))

\* context.Type of lang/go: a slice or map, a pointer or a value.
GoType(f, text, syntax) ==
    CASE text[f] = "a" -> "map"
      [] text[f] = "r" -> "slice"
      [] text[f] = "m" -> "pointer"
      [] OTHER -> IF HasPresence(f, text, syntax) THEN "pointer" ELSE "value"

-----------------------------------------------------------------------------
\* message.go:22-45, field.go:23-44: the lists of a message tell its fields apart:
\* every field is in the oneofs or not, once; those in synthetic oneofs are the
\* proto3 optional ones, also when a real oneof has a single field; the others
\* are in real ones.
FieldsAreToldApart(text, syntax) ==
    LET out   == ToSet(NonOneOfFields(text, syntax))
        inner == ToSet(OneOfFields(text, syntax))
        synth == ToSet(SyntheticOneOfFields(text, syntax))
        real  == ToSet(FlattenSeq(RealOneOfs(text, syntax)))
    IN /\ out \cup inner = DOMAIN text /\ out \cap inner = {}
       /\ Len(OneOfFields(text, syntax)) = Cardinality(inner)
       /\ synth \cup real = inner /\ synth \cap real = {}
       /\ synth = {f \in DOMAIN text : text[f] = "q" /\ syntax = Proto3}
       /\ real = {f \in DOMAIN text : text[f] \in RealKinds}

\* field.go:39-41: a field has presence where protobuf's docs/field_presence.md
\* says so, and then it is either not a value in Go or not required to be set.
PresenceIsAsDocumented(text, syntax) ==
    \A f \in DOMAIN text :
       /\ HasPresence(f, text, syntax) <=>
             \/ text[f] \in {"m", "q", "1", "2"}
             \/ text[f] = "p" /\ syntax = Proto2
       /\ GoType(f, text, syntax) = "value" <=> text[f] = "p" /\ syntax = Proto3
       /\ Required(f, text, syntax) => HasPresence(f, text, syntax)
                                       /\ ~HasOptionalKeyword(f, text, syntax)
=============================================================================
