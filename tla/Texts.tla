-------------------------------- MODULE Texts --------------------------------
(***************************************************************************)
(* The algorithms on texts: texts of each kind are typed character by      *)
(* character, and at each the algorithms do what they promise.             *)
(***************************************************************************)
EXTENDS Comment, Parameters, GoNames, Presence

CONSTANTS
  Alphabet,   \* Alphabet[kind]: the characters of that kind of text
  MaxLen,     \* bounds on the lengths
  Widths      \* of comments

Kinds == {"comment", "name", "params", "package", "message"}

ASSUME KindsAssumption ==
    /\ DOMAIN Alphabet = Kinds
    /\ MaxLen \in [Kinds -> Nat]
    /\ Widths \subseteq Int

VARIABLES kind, text

vars == <<kind, text>>

Init == kind \in Kinds /\ text = <<>>

Type(c) == /\ Len(text) < MaxLen[kind]
           /\ text' = Append(text, c)
           /\ UNCHANGED kind

Next == \E c \in Alphabet[kind] : Type(c)

Spec == Init /\ [][Next]_vars

-----------------------------------------------------------------------------
\* comment.go: comments of any width keep their words (see WordsStay).
CommentsKeepWords == kind = "comment" => \A w \in Widths : WordsStay(text, w)

\* name.go: names are split at boundaries, and conversions settle (see
\* SplitsAtBoundaries and ConversionsSettle).
NamesAreSplit == kind = "name" => SplitsAtBoundaries(text) /\ ConversionsSettle(text)

\* lang/go/name.go: types are named as protoc-gen-go does, fields are not named
\* like methods, nor wrappers of a oneof's fields like nested types (see
\* NamesAreProtocGenGos and OptionsAreApart).
GoNamesAgree == kind = "name" => NamesAreProtocGenGos(text) /\ OptionsAreApart(text)

\* parameters.go: parameters survive being handed on, and plugins being added
\* (see ParametersRoundTrip and PluginsStay).
ParametersStay == kind = "params" => ParametersRoundTrip(text) /\ PluginsStay(text)

\* lang/go/package.go: package names are identifiers, and files of a package agree
\* (see PackagesAreNamed).
GoPackagesAreNamed == kind = "package" => PackagesAreNamed(text)

\* message.go, field.go, oneof.go: oneofs and presence (see FieldsAreToldApart and
\* PresenceIsAsDocumented).
PresenceIsRight ==
    kind = "message" /\ IsMessage(text) =>
       \A syntax \in {Proto2, Proto3} :
          FieldsAreToldApart(text, syntax) /\ PresenceIsAsDocumented(text, syntax)
=============================================================================
