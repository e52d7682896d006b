-------------------------------- MODULE Names --------------------------------
(***************************************************************************)
(* name.go: Split breaks a name into its parts, and the conversions put    *)
(* the transformed parts together again.  A name is a sequence of          *)
(* characters.                                                             *)
(***************************************************************************)
EXTENDS Naturals, Sequences, SequencesExt, FiniteSetsExt, Functions

CONSTANTS
  Capital,   \* the upper-case letter of each lower-case one
  Digits

IsLower(c) == c \in DOMAIN Capital
IsUpper(c) == c \in Range(Capital)
IsDigit(c) == c \in Digits

Has(s, c) == \E i \in DOMAIN s : s[i] = c

\* strings.Split and strings.Join.
SplitAt(s, sep) ==
    FoldLeft(LAMBDA parts, c : IF c = sep THEN Append(parts, <<>>)
                               ELSE [parts EXCEPT ![Len(parts)] = Append(@, c)],
             <<<<>>>>, s)

JoinWith(parts, sep) ==
    FoldLeft(LAMBDA out, p : out \o sep \o p, Head(parts), Tail(parts))

\* The loop over a name in camel case: the parts so far, the one that is being
\* read, and whether the name has a leading underscore and what came last.
Scan0 == [parts |-> <<>>, buf |-> <<>>, lodash |-> FALSE, capt |-> FALSE, num |-> FALSE]

Scan(s, c) ==
    LET lodash == s.lodash \/ (c = "_" /\ s.buf = <<>> /\ s.parts = <<>>)
        Read(parts, buf) == [parts |-> parts, buf |-> Append(buf, c), lodash |-> lodash,
                             capt |-> IsUpper(c), num |-> IsDigit(c)]
        Cut == Read(Append(s.parts, s.buf), <<>>)
    IN CASE /\ s.buf # <<>> /\ ~lodash
            /\ (IsUpper(c) /\ ~s.capt) \/ (IsDigit(c) /\ ~s.num) -> Cut
         [] ~IsUpper(c) /\ s.capt /\ Len(s.buf) > 1
            /\ ~(IsDigit(c) /\ ~s.num /\ ~lodash) ->
               IF Len(s.buf) = 2 /\ s.buf[1] = "_" THEN Read(s.parts, s.buf)
               ELSE Read(Append(s.parts, Front(s.buf)), <<Last(s.buf)>>)
         [] ~IsDigit(c) /\ s.num /\ s.buf # <<>> /\ ~(IsUpper(c) /\ ~lodash) ->
               Cut
         [] OTHER -> Read(s.parts, s.buf)

Camel(n) == LET s == FoldLeft(Scan, Scan0, n) IN Append(s.parts, s.buf)

\* A mistake: the underscore in front is taken for a separator like the others.
SplitAll(n) ==
    IF Has(n, ".") THEN SplitAt(n, ".")
    ELSE IF Has(n, "_") THEN SelectSeq(SplitAt(n, "_"), LAMBDA p : p # <<>>)
    ELSE Camel(n)

\* Name.Split: by dots, or else by underscores, or else by case and digits.  An
\* underscore in front stays with the part behind it.
Split(n) ==
    IF Has(n, ".") THEN SplitAt(n, ".")
    ELSE IF \E i \in 2..Len(n) : n[i] = "_"
    THEN LET parts == SplitAt(n, "_")
         IN IF parts[1] # <<>> THEN parts
            ELSE <<<<"_">> \o parts[2]>> \o SubSeq(parts, 3, Len(parts))
    ELSE Camel(n)

\* The transformers of the conversions, each by what it does to a character.
Characters == DOMAIN Capital \cup Range(Capital) \cup Digits \cup {"_", "."}

ID      == [c \in Characters |-> c]
ToUpper == [c \in Characters |-> IF IsLower(c) THEN Capital[c] ELSE c]
ToLower == [c \in Characters |->
              IF IsUpper(c) THEN CHOOSE l \in DOMAIN Capital : Capital[l] = c ELSE c]

Transform(n, mod, first, sep) ==
    LET parts == Split(n)
        Apply(f, s) == [i \in DOMAIN s |-> f[s[i]]]
    IN JoinWith([i \in DOMAIN parts |->
                   Apply(IF i = 1 THEN first ELSE mod, parts[i])], sep)

SnakeCase(n)          == Transform(n, ID, ID, <<"_">>)
LowerSnakeCase(n)     == Transform(n, ToLower, ToLower, <<"_">>)
ScreamingSnakeCase(n) == Transform(n, ToUpper, ToUpper, <<"_">>)
LowerDotNotation(n)   == Transform(n, ToLower, ToLower, <<".">>)

-----------------------------------------------------------------------------
\* Where a part of a name in camel case begins: between a digit and something
\* else, and at an upper-case letter behind a lower-case one or before one.
Begins(n) ==
    {i \in 2..Len(n) :
       \/ IsDigit(n[i]) # IsDigit(n[i - 1])
       \/ IsUpper(n[i]) /\ (~IsUpper(n[i - 1]) \/ (i < Len(n) /\ IsLower(n[i + 1])))}

\* name.go:54-56: the parts of a name hold all of it, and cut it at its dots, or
\* else at its underscores, or else where case and digits say; numbers stand
\* alone.  (Not behind an underscore in front: "_foo1" is one part.)
SplitsAtBoundaries(n) ==
    LET parts == Split(n)
    IN IF Has(n, ".") THEN JoinWith(parts, <<".">>) = n
       ELSE IF \E i \in 2..Len(n) : n[i] = "_" THEN JoinWith(parts, <<"_">>) = n
       ELSE /\ FlattenSeq(parts) = n
            /\ ~Has(n, "_") =>
                 Begins(n) = {1 + Len(FlattenSeq(SubSeq(parts, 1, k))) : k \in 1..(Len(parts) - 1)}

\* name.go:30-48: a name in snake case, or in dot notation, is converted to
\* itself, so that names may be converted more than once.  (Not ".fooBar", whose
\* SnakeCase is "_fooBar", and not "_aa1", whose ScreamingSnakeCase is "_AA1":
\* behind an underscore in front, parts are not told apart as they are elsewhere.)
ConversionsSettle(n) ==
    /\ LowerDotNotation(LowerDotNotation(n)) = LowerDotNotation(n)
    /\ n # <<>> /\ Head(n) # "." =>
         /\ SnakeCase(SnakeCase(n)) = SnakeCase(n)
         /\ LowerSnakeCase(LowerSnakeCase(n)) = LowerSnakeCase(n)
         /\ Head(n) # "_" =>
              ScreamingSnakeCase(ScreamingSnakeCase(n)) = ScreamingSnakeCase(n)
=============================================================================
