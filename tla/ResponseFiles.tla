---------------------------- MODULE ResponseFiles ----------------------------
(***************************************************************************)
(* What the response of Persist promises to protoc, without chunks: a list *)
(* of files and injections, each with a buffer of its own.  An append goes *)
(* to the end of the buffer of the first file of its name.  Each operation *)
(* that is handed in has the effect it asks for and no other, or it stops  *)
(* everything.                                                             *)
(***************************************************************************)
EXTENDS Naturals, Sequences

CONSTANTS Names, Refused   \* Refused: a name that no file can have

Operations ==
    [op   : {"file", "overwrite", "append", "injection", "other"},
     name : Names \cup {Refused}]

VARIABLES
  files,    \* a sequence of [name, ins, head, tail]: tail holds the appends
  handed,   \* the operations handed in so far
  stopped   \* the last of them could not be done

vars == <<files, handed, stopped>>

Init == files = <<>> /\ handed = <<>> /\ stopped = FALSE

\* Contents are told apart by the number of their operation.
Number == Len(handed) + 1

First(i, n) ==
    /\ i \in DOMAIN files
    /\ files[i].name = n /\ ~files[i].ins
    /\ \A j \in 1..(i - 1) : files[j].name = n => files[j].ins

Exists(n) == \E i \in DOMAIN files : First(i, n)

Add(n, ins) ==
    files' = Append(files, [name |-> n, ins |-> ins, head |-> Number,
                            tail |-> <<>>])

Overwrite(n) ==
    \E i \in DOMAIN files :
       First(i, n) /\ files' = [files EXCEPT ![i].head = Number]

AppendTo(n) ==
    \E i \in DOMAIN files :
       First(i, n) /\ files' = [files EXCEPT ![i].tail = Append(@, Number)]

Effect(o) ==
    \/ o.op = "other" /\ UNCHANGED files
    \/ /\ o.name \in Names
       /\ \/ o.op = "file" /\ Add(o.name, FALSE)
          \/ o.op = "overwrite" /\ ~Exists(o.name) /\ Add(o.name, FALSE)
          \/ o.op = "overwrite" /\ Overwrite(o.name)
          \/ o.op = "append" /\ AppendTo(o.name)
          \/ o.op = "injection" /\ Add(o.name, TRUE)

Do(o)   == Effect(o) /\ UNCHANGED stopped
Stop(o) == UNCHANGED files /\ stopped' = TRUE

Next == /\ ~stopped
        /\ \E o \in Operations : /\ handed' = Append(handed, o)
                                 /\ Do(o) \/ Stop(o)

Spec == Init /\ [][Next]_vars
=============================================================================
