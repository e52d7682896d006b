------------------------------ MODULE Dependents ------------------------------
(***************************************************************************)
(* message.go and enum.go: Dependents() and Dependencies() walk the direct *)
(* uses that the AST recorded, depth first and with a cache in every node. *)
(* The two walks are the same code over opposite edges; `direct' is either *)
(* m.dependents or m.dependencies.  An enum is a node that none leads to.  *)
(*                                                                         *)
(* A node sets its cache to an empty map before it looks at its direct     *)
(* uses, so a recursive message does not recurse for ever; the node that   *)
(* meets it again copies what is there so far.                             *)
(***************************************************************************)
EXTENDS Naturals, Sequences

CONSTANTS
  Nodes,       \* messages and enums
  Graphs,      \* the graphs to consider, of type [Nodes -> SUBSET Nodes]
  MaxQueries   \* bound on the number of calls from outside

ASSUME GraphsAssumption == Graphs \subseteq [Nodes -> SUBSET Nodes]
ASSUME QueriesAssumption == MaxQueries \in Nat

VARIABLES
  direct,   \* the direct uses of each node; never changes
  cache,    \* dependentsCache of each node; empty where it is nil
  made,     \* the nodes where it is not nil
  stack,    \* calls of populateDependentsCache: [node, todo], innermost last
  asked     \* the nodes on which Dependents() was called, in order

vars == <<direct, cache, made, stack, asked>>

Init ==
    /\ direct \in Graphs
    /\ cache = [n \in Nodes |-> {}]
    /\ made = {}
    /\ stack = <<>>
    /\ asked = <<>>

Top   == stack[Len(stack)]
Below == stack[Len(stack) - 1]

\* populateDependentsCache begins on a node without a cache.
Call(n) == <<[node |-> n, todo |-> direct[n]]>>

\* The call on top has come to its next direct use d.
Past(d) == [stack EXCEPT ![Len(stack)] = [node |-> Top.node, todo |-> Top.todo \ {d}]]

OnStack(n) == \E i \in DOMAIN stack : stack[i].node = n

\* A mistake: the cache is filled anew by each call.
QueryAfresh(n) ==
    /\ stack = <<>>
    /\ Len(asked) < MaxQueries
    /\ asked' = Append(asked, n)
    /\ stack' = Call(n)
    /\ made' = made \cup {n}
    /\ cache' = [cache EXCEPT ![n] = {}]
    /\ UNCHANGED direct

\* Dependents() is called.
Query(n) ==
    /\ stack = <<>>
    /\ Len(asked) < MaxQueries
    /\ asked' = Append(asked, n)
    /\ stack' = IF n \in made THEN stack ELSE Call(n)
    /\ made' = made \cup {n}
    /\ UNCHANGED <<direct, cache>>

\* A mistake: the cache is made only when it is filled.
DescendAlways(d) ==
    /\ stack # <<>>
    /\ d \in Top.todo
    /\ made' = made \cup {d}
    /\ cache' = [cache EXCEPT ![Top.node] = @ \cup {d}]
    /\ stack' = Past(d) \o Call(d)
    /\ UNCHANGED <<direct, asked>>

\* The next direct use has no cache yet: getDependents recurses.
Descend(d) ==
    /\ stack # <<>>
    /\ d \in Top.todo
    /\ d \notin made
    /\ made' = made \cup {d}
    /\ cache' = [cache EXCEPT ![Top.node] = @ \cup {d}]
    /\ stack' = Past(d) \o Call(d)
    /\ UNCHANGED <<direct, asked>>

\* Two mistakes: the use's own uses are forgotten, or a cache that is still being
\* filled is waited for.
CopyDirectOnly(d) ==
    /\ stack # <<>>
    /\ d \in Top.todo
    /\ d \in made
    /\ cache' = [cache EXCEPT ![Top.node] = @ \cup {d}]
    /\ stack' = Past(d)
    /\ UNCHANGED <<direct, made, asked>>

CopyWhenFinished(d) ==
    /\ stack # <<>>
    /\ d \in Top.todo
    /\ d \in made /\ ~OnStack(d)
    /\ cache' = [cache EXCEPT ![Top.node] = @ \cup {d} \cup cache[d]]
    /\ stack' = Past(d)
    /\ UNCHANGED <<direct, made, asked>>

\* The next direct use has a cache, finished or not: getDependents copies it.
Copy(d) ==
    /\ stack # <<>>
    /\ d \in Top.todo
    /\ d \in made
    /\ cache' = [cache EXCEPT ![Top.node] = @ \cup {d} \cup cache[d]]
    /\ stack' = Past(d)
    /\ UNCHANGED <<direct, made, asked>>

\* Two mistakes: the cache is not copied to the caller's, or the two are one map.
ReturnAlone ==
    /\ stack # <<>>
    /\ Top.todo = {}
    /\ stack' = SubSeq(stack, 1, Len(stack) - 1)
    /\ UNCHANGED <<direct, cache, made, asked>>

ReturnShared ==
    /\ stack # <<>>
    /\ Top.todo = {}
    /\ stack' = SubSeq(stack, 1, Len(stack) - 1)
    /\ cache' = IF Len(stack) = 1 THEN cache
                ELSE [n \in Nodes |-> IF n \in {Top.node, Below.node}
                                      THEN cache[Top.node] \cup cache[Below.node]
                                      ELSE cache[n]]
    /\ UNCHANGED <<direct, made, asked>>

\* A node is through: its cache is copied to the caller's, if a node called it.
Return ==
    /\ stack # <<>>
    /\ Top.todo = {}
    /\ stack' = SubSeq(stack, 1, Len(stack) - 1)
    /\ cache' = IF Len(stack) = 1 THEN cache
                ELSE [cache EXCEPT ![Below.node] = @ \cup cache[Top.node]]
    /\ UNCHANGED <<direct, made, asked>>

Next ==
    \/ \E n \in Nodes : Query(n) \/ Descend(n) \/ Copy(n)
    \/ Return

Spec == Init /\ [][Next]_vars

FairSpec == Spec /\ WF_vars(Return \/ \E n \in Nodes : Descend(n) \/ Copy(n))

-----------------------------------------------------------------------------
\* The types of the state; only nodes with a cache are being worked on, each
\* once.
TypeOK ==
    /\ direct \in [Nodes -> SUBSET Nodes]
    /\ cache \in [Nodes -> SUBSET Nodes]
    /\ made \subseteq Nodes
    /\ stack \in Seq([node : Nodes, todo : SUBSET Nodes])
    /\ asked \in Seq(Nodes)
    /\ \A i \in DOMAIN stack : /\ stack[i].node \in made
                               /\ stack[i].todo \subseteq direct[stack[i].node]
    /\ \A i, j \in DOMAIN stack : stack[i].node = stack[j].node => i = j

Closed(S) == \A n \in S : direct[n] \subseteq S

\* What is directly or transitively used from n: the least set that holds the
\* direct uses of n and is closed under direct use.
Uses(n) == {m \in Nodes : \A S \in SUBSET Nodes :
                             Closed(S) /\ direct[n] \subseteq S => m \in S}

Acyclic == \A n \in Nodes : n \notin Uses(n)

Finished(n) == n \in made /\ ~OnStack(n)

\* message.go:47-53: no message is ever reported that is not used, directly or
\* transitively; this holds of half-filled caches too.
Sound == \A n \in Nodes : cache[n] \subseteq Uses(n)

\* message.go:47-53: without recursive messages every cache that a call leaves
\* behind is complete, in whatever order the messages are asked.
CompleteIfAcyclic ==
    Acyclic => \A n \in Nodes : Finished(n) => cache[n] = Uses(n)

\* message.go:47-53: the first call on an AST gives the complete answer, even
\* among recursive messages.
FirstAnswerComplete ==
    Len(asked) = 1 /\ stack = <<>> => cache[asked[1]] = Uses(asked[1])

\* message.go:201-204: an answer, once given, is not changed by later calls, on
\* this node or others.
AnswersStable ==
    [][\A n \in Nodes : Finished(n) => cache'[n] = cache[n]]_vars

\* A call returns, however the messages refer to each other.
CallsReturn == stack # <<>> ~> stack = <<>>

\* message.go:47-53: "returns all of the messages where message is directly or
\* transitively used".  The answer leaves the message itself out
\* (messageSetToSlice).  (The code does not do so for recursive messages: a
\* cache copied while it was still being filled stays as it is.)
EveryAnswerComplete ==
    stack = <<>> => \A i \in DOMAIN asked :
                       cache[asked[i]] \ {asked[i]} = Uses(asked[i]) \ {asked[i]}
=============================================================================
