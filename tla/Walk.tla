--------------------------------- MODULE Walk ---------------------------------
(***************************************************************************)
(* node.go and the accept methods: Walk(v, n) visits n and what is below   *)
(* it, depth first.  The visitor that a visit returns is the one for the   *)
(* children; nil skips them; an error ends the whole walk.                 *)
(*                                                                         *)
(* The calls of accept are a stack: each frame is a node that was visited, *)
(* the children its loops have yet to come to and the visitor for them.    *)
(***************************************************************************)
EXTENDS Tree

CONSTANTS
  Visitors,
  Nil         \* a nil Visitor

ASSUME VisitorsAssumption == Nil \notin Visitors /\ "error" \notin Visitors \cup {Nil}

VARIABLES
  root,     \* the node Walk was called with
  start,    \* the visitor it was called with, or Nil
  stack,    \* [node, todo, v], innermost last
  err,      \* an error is being returned
  log,      \* the visits: [node, by, got], got is a visitor, Nil or "error"
  result    \* "none" before the walk, then "walking", "ok" or "error"

walkVars == <<root, start, stack, err, log, result>>

-----------------------------------------------------------------------------
\* The loops of each accept method, in their order; map entries are in none.
FileLoops(d)    == d.enums \o d.msgs \o d.srvs \o d.defExts
MessageLoops(d) == d.enums \o d.msgs \o d.fields \o d.oneofs \o d.defExts

Children ==
    [n \in Nodes |-> CASE KindOf[n] = "package" -> Decl[n].files
                       [] KindOf[n] = "file"    -> FileLoops(Decl[n])
                       [] KindOf[n] = "message" -> MessageLoops(Decl[n])
                       [] KindOf[n] = "enum"    -> Decl[n].vals
                       [] KindOf[n] = "service" -> Decl[n].methods
                       [] OTHER                 -> <<>>]

\* Hydration adds an entity to one parent only.
ASSUME ParentsAssumption ==
    \A m, n \in Nodes : m # n => ToSet(Children[m]) \cap ToSet(Children[n]) = {}

\* It adds it there once, and an entity is made before its children, so that none is
\* below itself: of some nodes with children, one at least is a child of none of them.
ASSUME TreeAssumption ==
    /\ \A n \in Nodes : IsInjective(Children[n])
    /\ \A S \in (SUBSET {n \in Nodes : Children[n] # <<>>}) \ {{}} :
          \E n \in S : \A m \in S : n \notin ToSet(Children[m])

Top == stack[Len(stack)]

WalkInit ==
    /\ root = Nil /\ start = Nil
    /\ stack = <<>> /\ log = <<>>
    /\ err = FALSE /\ result = "none"

\* Walk(v, n): the accept of n is still to come, in a frame of no node.
Call(n, v) ==
    /\ result = "none"
    /\ root' = n /\ start' = v
    /\ stack' = <<[node |-> Nil, todo |-> <<n>>, v |-> v]>>
    /\ result' = "walking"
    /\ UNCHANGED <<err, log>>

\* The frame on top has gone on to its next child.
Rest == [stack EXCEPT ![Len(stack)].todo = Tail(@)]

Frame(n, v) == [node |-> n, todo |-> Children[n], v |-> v]

\* The accept of a leaf does not look at the visitor it gets: as if it were nil.
IsLeaf(n) == KindOf[n] \in {"enumVal", "field", "ext", "oneof", "method"}

Calls(n) == /\ stack # <<>> /\ ~err
            /\ Top.todo # <<>> /\ n = Head(Top.todo)
            /\ Top.v # Nil

Visited(n, got) == /\ log' = Append(log, [node |-> n, by |-> Top.v, got |-> got])
                   /\ UNCHANGED <<root, start, result>>

\* Two mistakes: the children come after the node's siblings, or the visitor for
\* the children is used for the siblings too.
DescendLater(n, v) ==
    /\ Calls(n) /\ ~IsLeaf(n)
    /\ Visited(n, v)
    /\ stack' = [stack EXCEPT ![Len(stack)].todo = Tail(@) \o Children[n]]
    /\ UNCHANGED err

DescendForSiblings(n, v) ==
    /\ Calls(n) /\ ~IsLeaf(n)
    /\ Visited(n, v)
    /\ stack' = [Rest EXCEPT ![Len(stack)].v = v] \o <<Frame(n, v)>>
    /\ UNCHANGED err

\* accept: the visit returns a visitor, and the children are gone through.
Descend(n, v) ==
    /\ Calls(n) /\ ~IsLeaf(n)
    /\ Visited(n, v)
    /\ stack' = Append(Rest, Frame(n, v))
    /\ UNCHANGED err

\* A mistake: a nil visitor ends the loop.
SkipSiblings(n) ==
    /\ Calls(n)
    /\ Visited(n, Nil)
    /\ stack' = [stack EXCEPT ![Len(stack)].todo = <<>>]
    /\ UNCHANGED err

\* accept: the visit returns nil, and the children are skipped.
Skip(n) ==
    /\ Calls(n)
    /\ Visited(n, Nil)
    /\ stack' = Rest
    /\ UNCHANGED err

\* accept: the visit returns an error.
VisitFails(n) ==
    /\ Calls(n)
    /\ Visited(n, "error")
    /\ stack' = Rest
    /\ err' = TRUE

\* accept of a nil visitor does nothing.
NoVisitor ==
    /\ stack # <<>> /\ ~err
    /\ Top.todo # <<>> /\ Top.v = Nil
    /\ stack' = Rest
    /\ UNCHANGED <<root, start, err, log, result>>

Pop == /\ stack' = SubSeq(stack, 1, Len(stack) - 1)
       /\ result' = IF Len(stack) > 1 THEN result ELSE IF err THEN "error" ELSE "ok"

\* The loops of a node are through.
Return ==
    /\ stack # <<>> /\ ~err
    /\ Top.todo = <<>>
    /\ Pop
    /\ UNCHANGED <<root, start, err, log>>

\* An error ends the loops of every node on the way up.
Unwind ==
    /\ stack # <<>> /\ err
    /\ Pop
    /\ UNCHANGED <<root, start, err, log>>

WalkNext ==
    \/ \E n \in Nodes : \/ \E v \in Visitors \cup {Nil} : Call(n, v)
                        \/ Skip(n) \/ VisitFails(n)
                        \/ \E v \in Visitors : Descend(n, v)
    \/ NoVisitor \/ Return \/ Unwind

-----------------------------------------------------------------------------
\* The types of this part of the state.
WalkTypeOK ==
    /\ root \in Nodes \cup {Nil}
    /\ start \in Visitors \cup {Nil}
    /\ stack \in Seq([node : Nodes \cup {Nil}, todo : Seq(Nodes),
                      v : Visitors \cup {Nil}])
    /\ err \in BOOLEAN
    /\ log \in Seq([node : Nodes, by : Visitors,
                    got : Visitors \cup {Nil, "error"}])
    /\ result \in {"none", "walking", "ok", "error"}

IsChild(m, n) == m \in ToSet(Children[n])

\* node.go:9-12: the walk is depth first.  Between a node and a child of it are
\* only nodes below that node, and nothing is visited twice.  (That a node comes
\* after its parent is part of VisitorInherited.)
DepthFirst ==
    \A i, j \in DOMAIN log :
       /\ log[i].node = log[j].node => i = j
       /\ i < j /\ IsChild(log[j].node, log[i].node) =>
            \A k \in (i + 1)..j : \E p \in i..(k - 1) :
               IsChild(log[k].node, log[p].node)

\* node.go:9-12: a node is visited by the visitor that the visit of its parent
\* returned, whatever its siblings and their children returned.
VisitorInherited ==
    \A j \in DOMAIN log :
       IF j = 1 THEN log[j].node = root /\ log[j].by = start
       ELSE \E i \in 1..(j - 1) : /\ IsChild(log[j].node, log[i].node)
                                  /\ log[i].got = log[j].by

\* node.go:12: an error halts the walk at any depth: no visit follows it, and
\* it is what Walk returns.
ErrorHalts ==
    /\ \A i \in DOMAIN log : log[i].got = "error" => i = Len(log)
    /\ result \in {"ok", "error"} =>
          (result = "error" <=> log # <<>> /\ Last(log).got = "error")

\* node.go:11-12: a walk visits everything below a node, unless that visit
\* returned nil or an error halts the walk, and nothing else; map entries are
\* never visited.
AllButSkipped ==
    /\ ErrorHalts
    /\ result = "ok" =>
          /\ start # Nil => \E i \in DOMAIN log : log[i].node = root
          /\ \A n, m \in Nodes : IsChild(m, n) =>
                ((\E j \in (DOMAIN log) \ {1} : log[j].node = m)
                   <=> \E i \in DOMAIN log : log[i].node = n /\ log[i].got # Nil)

-----------------------------------------------------------------------------
\* Where the frames of the stack come from, and with it the inductive invariant
\* under VisitorInherited: below is the call of Walk, above it are visits whose
\* visitor the frame has and whose children it goes through.
FrameOrigin ==
    \A k \in DOMAIN stack :
       LET f == stack[k]
       IN \/ /\ k = 1 /\ f.node = Nil /\ f.v = start
             /\ f.todo = <<>> \/ (log = <<>> /\ f.todo = <<root>>)
          \/ \E i \in DOMAIN log : /\ f.node = log[i].node /\ f.v = log[i].got
                                   /\ ToSet(f.todo) \subseteq ToSet(Children[f.node])

\* The inductive invariant under ErrorHalts: an error is on its way up exactly
\* when the last visit returned one.
HaltInv ==
    /\ WalkTypeOK
    /\ \A i \in DOMAIN log : log[i].got = "error" => i = Len(log)
    /\ err <=> log # <<>> /\ log[Len(log)].got = "error"
    /\ result = "none" => stack = <<>> /\ log = <<>>
    /\ result \in {"ok", "error"} => stack = <<>> /\ (result = "error" <=> err)

InheritInv == HaltInv /\ FrameOrigin /\ VisitorInherited

\* The inductive invariant under AllButSkipped: what is below a node whose visit
\* returned a visitor has been visited, or one of the frames is yet to come to it.
IsPending(m, n) ==
    \E k \in DOMAIN stack : /\ stack[k].node = n /\ stack[k].v # Nil
                            /\ m \in ToSet(stack[k].todo)

CoverInv ==
    /\ InheritInv
    /\ \A i \in DOMAIN log : log[i].got \in Visitors =>
          \A m \in ToSet(Children[log[i].node]) :
             \/ err \/ IsPending(m, log[i].node)
             \/ \E j \in (DOMAIN log) \ {1} : log[j].node = m
    /\ result # "none" /\ log = <<>> /\ start # Nil =>
          stack = <<[node |-> Nil, todo |-> <<root>>, v |-> start]>>

\* The inductive invariant under DepthFirst.  All that was visited since the node of
\* a frame is below that node (OpenSince), the frames are of later and later visits,
\* and what a frame is yet to come to is in it once and was not visited before.
OpenSince(i) ==
    \A q \in (i + 1)..Len(log) :
       \E p \in i..(q - 1) : IsChild(log[q].node, log[p].node)

Fresh(s) == IsInjective(s) /\ \A i \in DOMAIN log : log[i].node \notin ToSet(s)

DepthInv ==
    /\ InheritInv
    /\ DepthFirst
    /\ stack # <<>> => stack[1].todo = <<>> \/ (log = <<>> /\ stack[1].todo = <<root>>)
    /\ \A k \in (DOMAIN stack) \ {1} :
          \E i \in DOMAIN log : log[i].node = stack[k].node /\ OpenSince(i)
    /\ \A k, l \in (DOMAIN stack) \ {1}, i, j \in DOMAIN log :
          k < l /\ log[i].node = stack[k].node /\ log[j].node = stack[l].node => i < j
    /\ \A k \in DOMAIN stack : Fresh(stack[k].todo)
=============================================================================
