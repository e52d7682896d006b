------------------------------- MODULE Comment -------------------------------
(***************************************************************************)
(* comment.go: C wraps a text into the lines of a comment.  A line is the  *)
(* part of the text from an index to another.  A text is read in one piece *)
(* (bufio.Scanner reads longer ones in pieces of 4096 bytes).              *)
(***************************************************************************)
EXTENDS Naturals, Integers, Sequences, SequencesExt, FiniteSetsExt

IsSpace(c) == c = " "

Spaces(text, from, to) == {i \in from..to : IsSpace(text[i])}

\* Where the leading spaces of what is left at p end.
StartOf(text, p) ==
    Min({Len(text) + 1} \cup {i \in p..Len(text) : ~IsSpace(text[i])})

\* The spaces at which the width is reached, which counts from p: the leading
\* spaces are part of it.
Full(text, p, w) == {i \in Spaces(text, StartOf(text, p), Len(text)) : i - p >= w}

\* A mistake: the word that did not fit is dropped with the space before it.
TokenAndWord(text, p, w) ==
    LET start  == StartOf(text, p)
        stop   == Min(Full(text, p, w))
        inside == Spaces(text, start, stop - 1)
    IN [from |-> start, to |-> IF inside = {} THEN stop - 1 ELSE Max(inside) - 1,
        next |-> stop + 1]

\* splitComment, where a space is at the width or behind it: the line ends at
\* the last space before, or with the only word it has.
Token(text, p, w) ==
    LET start  == StartOf(text, p)
        stop   == Min(Full(text, p, w))
        inside == Spaces(text, start, stop - 1)
    IN IF inside = {} THEN [from |-> start, to |-> stop - 1, next |-> stop + 1]
       ELSE [from |-> start, to |-> Max(inside) - 1, next |-> Max(inside)]

\* The lines of C(wrap, text), for w = wrap - 3.  When no line can be cut off any
\* more, all that is left is one line, whatever its length.
Lines(text, w) ==
    LET lines[p \in 1..(Len(text) + 1)] ==
           IF Full(text, p, w) # {}
           THEN LET t == Token(text, p, w) IN <<[from |-> t.from, to |-> t.to]>> \o lines[t.next]
           ELSE IF StartOf(text, p) > Len(text) THEN <<>>
           ELSE <<[from |-> StartOf(text, p),
                   to |-> Max({i \in p..Len(text) : ~IsSpace(text[i])})]>>
    IN lines[1]

-----------------------------------------------------------------------------
\* comment.go:14: wrapping keeps every word, in order and in one piece; no line
\* is empty; and a line that is not the last is not longer than the width, unless
\* it is a single word.  (The last may be longer by a word: the end of the text
\* is not taken for a space.)
WordsStay(text, w) ==
    LET lines == Lines(text, w)
    IN /\ {i \in 1..Len(text) : ~IsSpace(text[i])}
             \subseteq UNION {lines[k].from..lines[k].to : k \in DOMAIN lines}
       /\ \A k \in DOMAIN lines :
             /\ ~IsSpace(text[lines[k].from])
             /\ k < Len(lines) =>
                   /\ IsSpace(text[lines[k].to + 1])
                   /\ lines[k].to < lines[k + 1].from
                   /\ \/ lines[k].to - lines[k].from + 1 <= w
                      \/ Spaces(text, lines[k].from, lines[k].to) = {}
=============================================================================
