-------------------------------- MODULE Lists --------------------------------
(***************************************************************************)
(* The lists of entities that files and messages hand out: Messages() and  *)
(* Enums() return the entity's own slice, AllMessages() and AllEnums()     *)
(* append to it what is nested below.  A Go slice is a view of an array    *)
(* that others may view too: an append writes behind the slice's end when  *)
(* the array has room, and moves to an array of its own when it has not.   *)
(*                                                                         *)
(* heap holds the arrays; callers keep slices and append to them.  Arrays  *)
(* that nothing views any more are dropped, as by the garbage collector.   *)
(***************************************************************************)
EXTENDS Naturals, Sequences, SequencesExt, FiniteSetsExt, Functions

CONSTANTS
  Holders,    \* the files and messages
  Roots,      \* the files among them
  Own,        \* Own[sort][p]: the enums or messages that p itself holds
  Extra,      \* what a caller appends to the slice it keeps at an index
  Unset,      \* a place of an array behind every slice of it
  MaxRoom,    \* bound on the room behind what an append moves or builds
  MaxHeld     \* bound on the slices that callers keep

Sorts == {"enums", "msgs"}

Enums == UNION {ToSet(Own["enums"][p]) : p \in Holders}

ASSUME OwnAssumption ==
    /\ Roots \subseteq Holders
    /\ DOMAIN Own = Sorts
    /\ Own["msgs"] \in [Holders -> Seq(Holders)]
    /\ Own["enums"] \in [Holders -> Seq(Enums)]
    /\ Unset \notin Holders /\ Len(Extra) >= MaxHeld

\* descriptor.proto: each message and enum is in one place of one list, and no
\* message is nested in itself.
ASSUME NestingAssumption ==
    /\ IsFiniteSet(Holders)
    /\ \A ms \in (SUBSET Holders) \ {{}} : \E m \in ms : ToSet(Own["msgs"][m]) \cap ms = {}
    /\ \A sort \in Sorts : \A p, q \in Holders :
          \A i \in DOMAIN Own[sort][p], j \in DOMAIN Own[sort][q] :
             Own[sort][p][i] = Own[sort][q][j] => p = q /\ i = j
ASSUME BoundsAssumption == MaxRoom \in Nat /\ MaxHeld \in Nat

VARIABLES
  heap,    \* the arrays, by what they are for
  held     \* the slices callers keep: [slice, of, sort, all, want], where all
           \* says which accessor was asked, AllEnums and AllMessages or Enums and
           \* Messages, and want is what was in the slice then and what was
           \* appended since

listVars == <<heap, held>>

-----------------------------------------------------------------------------
\* The slice that p was given by hydration, and which it keeps for good.
OwnSlice(p, sort) == [arr |-> <<sort, p>>, len |-> Len(Own[sort][p])]

Room(size) == [i \in 1..size |-> Unset]

Contents(h, s) == SubSeq(h[s.arr], 1, s.len)

Fresh(h) == LET n == CHOOSE k \in 1..(Cardinality(DOMAIN h) + 1) :
                        <<"new", k>> \notin DOMAIN h
            IN <<"new", n>>

\* append(s, elems...): in place, or moved to a new array with some room.
AppendAll(h, s, elems, room) ==
    LET n      == s.len + Len(elems)
        fits   == n <= Len(h[s.arr])
        a      == IF fits THEN s.arr ELSE Fresh(h)
        behind == IF fits THEN SubSeq(h[a], n + 1, Len(h[a])) ELSE Room(room)
    IN IF elems = <<>> THEN [heap |-> h, slice |-> s]
       ELSE [slice |-> [arr |-> a, len |-> n],
             heap  |-> [b \in DOMAIN h \cup {a} |->
                          IF b = a THEN Contents(h, s) \o elems \o behind ELSE h[b]]]

\* A mistake: what is nested deeper is left out.
AllDirect(h, p, sort, room) ==
    FoldLeft(LAMBDA out, m :
               AppendAll(out.heap, out.slice, Contents(out.heap, OwnSlice(m, sort)), room),
             [heap |-> h, slice |-> OwnSlice(p, sort)],
             Own["msgs"][p])

\* The appends that a call of AllEnums or AllMessages comes to: for each message
\* those of the call for it, and then that of its result to what the outer call
\* has so far.
Appends ==
    LET appends[p \in Holders] ==
          LET ms == Own["msgs"][p]
          IN FlattenSeq([i \in DOMAIN ms |->
                           Append(appends[ms[i]], [to |-> p, from |-> ms[i]])])
    IN [p \in Holders |-> appends[p]]

AppendOne(out, c, room) ==
    LET res == AppendAll(out.heap, out.slices[c.to],
                         Contents(out.heap, out.slices[c.from]), room)
    IN [heap |-> res.heap, slices |-> [out.slices EXCEPT ![c.to] = res.slice]]

\* AllEnums and AllMessages of a file or message: each call for a holder starts
\* with the holder's own slice.
All(h, p, sort, room) ==
    LET out == FoldLeft(LAMBDA o, c : AppendOne(o, c, room),
                        [heap |-> h, slices |-> [q \in Holders |-> OwnSlice(q, sort)]],
                        Appends[p])
    IN [heap |-> out.heap, slice |-> out.slices[p]]

\* The arrays that are viewed by an entity or by a caller.
InUse(hd) == (Sorts \X Holders) \cup {hd[i].slice.arr : i \in DOMAIN hd}

Collect(h, hd) == Restrict(h, InUse(hd))

-----------------------------------------------------------------------------
\* A mistake: the slice of a file is made with room for one more.
RoomForMore(p, sort) ==
    IF p \in Roots THEN {1} ELSE IF Own[sort][p] = <<>> THEN {0} ELSE 0..MaxRoom

\* The room that hydration leaves behind p's own slice.  A file's is made with
\* the capacity it needs, a message's grows as the runtime likes; a nil slice
\* has no array.
RoomBehind(p, sort) ==
    IF p \in Roots \/ Own[sort][p] = <<>> THEN {0} ELSE 0..MaxRoom

Growing == {k \in Sorts \X Holders : RoomBehind(k[2], k[1]) # {0}}

ListsInit ==
    /\ \E room \in [Growing -> 0..MaxRoom] :
          /\ \A k \in Growing : room[k] \in RoomBehind(k[2], k[1])
          /\ heap = [k \in Sorts \X Holders |->
                        Own[k[1]][k[2]] \o Room(IF k \in Growing THEN room[k] ELSE 0)]
    /\ held = <<>>

Keep(out, p, sort, all) ==
    /\ Len(held) < MaxHeld
    /\ held' = Append(held, [slice |-> out.slice, of |-> p, sort |-> sort, all |-> all,
                             want |-> Contents(out.heap, out.slice)])
    /\ heap' = Collect(out.heap, held')

\* A caller asks for Enums() or Messages(), and keeps the slice.
AskOwn(p, sort) == Keep([heap |-> heap, slice |-> OwnSlice(p, sort)], p, sort, FALSE)

\* A caller asks for AllEnums() or AllMessages(), and keeps the slice.
AskAll(p, sort) ==
    \E room \in 0..MaxRoom : Keep(All(heap, p, sort, room), p, sort, TRUE)

Extended(i) == held[i].want # <<>> /\ Last(held[i].want) = Extra[i]

\* A caller appends to the slice it keeps at index i.
Extend(i) ==
    /\ ~Extended(i)
    /\ \E room \in 0..MaxRoom :
          LET out == AppendAll(heap, held[i].slice, <<Extra[i]>>, room)
          IN /\ held' = [held EXCEPT ![i].slice = out.slice,
                                     ![i].want = Append(@, Extra[i])]
             /\ heap' = Collect(out.heap, held')

ListsNext ==
    \/ \E p \in Holders, sort \in Sorts : AskOwn(p, sort) \/ AskAll(p, sort)
    \/ \E i \in DOMAIN held : Extend(i)

-----------------------------------------------------------------------------
\* What is nested in p, at any depth.
Below[p \in Holders] ==
    LET ms == ToSet(Own["msgs"][p]) IN ms \cup UNION {Below[m] : m \in ms}

\* message.go:126-140, file.go:81-103: an answer of AllEnums or AllMessages has
\* everything of the sort at any depth, and each once, and one of Enums or
\* Messages is the entity's own list, whatever was appended to earlier answers.
AnswersAreAll ==
    [][\A i \in DOMAIN held' \ DOMAIN held :
          LET h == held'[i]
          IN /\ h.all =>
                  /\ ToSet(h.want) = UNION {ToSet(Own[h.sort][p]) : p \in {h.of} \cup Below[h.of]}
                  /\ Len(h.want) = Cardinality(ToSet(h.want))
             /\ ~h.all => h.want = Own[h.sort][h.of]]_listVars

\* entity.go (ParentEntity), file.go:85-103: however many callers ask for lists,
\* append to what they got and ask again, what an entity holds itself stays as
\* it was hydrated, and what a caller got from a file is its own: neither what
\* others append to theirs nor a later call of any accessor changes it.  (An
\* answer of a message may lie in the room behind the message's own slice, and
\* so share it with other answers: what is appended to one may show up in
\* another.)
ListsStay ==
    /\ \A p \in Holders, sort \in Sorts :
          Contents(heap, OwnSlice(p, sort)) = Own[sort][p]
    /\ \A i \in DOMAIN held :
          held[i].of \in Roots => Contents(heap, held[i].slice) = held[i].want
=============================================================================
