-------------------------- MODULE DependentsProofs --------------------------
(* Theorems about Dependents, for any messages, however they use each other. *)
EXTENDS Dependents, SequenceTheorems, TLAPS

-----------------------------------------------------------------------------
\* Uses(n) holds the direct uses of n and whatever these use.
LEMMA UsesAreTransitive ==
    ASSUME TypeOK, NEW n \in Nodes
    PROVE  /\ Uses(n) \subseteq Nodes
           /\ direct[n] \subseteq Uses(n)
           /\ \A m \in Uses(n) : Uses(m) \subseteq Uses(n)
<1>1. Uses(n) \subseteq Nodes
  BY DEF Uses
<1>2. direct[n] \subseteq Uses(n)
  BY DEF TypeOK, Uses
<1>3. ASSUME NEW m \in Uses(n), NEW k \in Uses(m) PROVE k \in Uses(n)
  <2> SUFFICES ASSUME NEW S \in SUBSET Nodes, Closed(S), direct[n] \subseteq S
               PROVE  k \in S
    BY <1>3 DEF Uses
  <2>1. m \in S
    BY DEF Uses
  <2>2. direct[m] \subseteq S
    BY <2>1 DEF Closed
  <2>3. QED
    BY <1>3, <2>2 DEF Uses
<1>4. QED
  BY <1>1, <1>2, <1>3

\* A set that is closed and holds the direct uses of n holds all of them.
LEMMA UsesAreLeast ==
    ASSUME NEW n \in Nodes, NEW S \in SUBSET Nodes, Closed(S), direct[n] \subseteq S
    PROVE  Uses(n) \subseteq S
BY DEF Uses

\* What n uses is its direct uses and what those use, and no more.
LEMMA UsesStep ==
    ASSUME TypeOK, NEW n \in Nodes, NEW S \in SUBSET Nodes,
           direct[n] \subseteq S, \A d \in direct[n] : Uses(d) \subseteq S
    PROVE  Uses(n) \subseteq S
<1> DEFINE T == direct[n] \cup UNION {Uses(d) : d \in direct[n]}
<1>1. \A d \in direct[n] : d \in Nodes
  BY DEF TypeOK
<1>2. T \subseteq S
  OBVIOUS
<1>3. ASSUME NEW m \in T PROVE direct[m] \subseteq T
  <2>1. CASE m \in direct[n]
    BY <1>1, <2>1, UsesAreTransitive
  <2>2. CASE \E d \in direct[n] : m \in Uses(d)
    <3>1. PICK d \in direct[n] : m \in Uses(d)
      BY <2>2
    <3>2. m \in Nodes /\ Uses(m) \subseteq Uses(d)
      BY <1>1, <3>1, UsesAreTransitive
    <3>3. direct[m] \subseteq Uses(d)
      BY <3>2, UsesAreTransitive
    <3>4. QED
      BY <3>1, <3>3
  <2>3. QED
    BY <1>3, <2>1, <2>2
<1>4. Closed(T)
  BY <1>3 DEF Closed
<1>5. QED
  BY <1>2, <1>4, UsesAreLeast

\* The uses stay what they are.
LEMMA UsesKept ==
    ASSUME direct' = direct
    PROVE  /\ \A n \in Nodes : Uses(n)' = Uses(n)
           /\ Acyclic' <=> Acyclic
<1>1. \A n \in Nodes : Uses(n)' = Uses(n)
  BY DEF Uses, Closed
<1>2. QED
  BY <1>1 DEF Acyclic

-----------------------------------------------------------------------------
\* Elements of a sequence, such as the calls on the stack.
LEMMA SeqElements ==
    ASSUME NEW T, NEW s \in Seq(T)
    PROVE  /\ Len(s) \in Nat /\ DOMAIN s = 1..Len(s)
           /\ s # <<>> => Len(s) \in Nat \ {0} /\ Len(s) \in 1..Len(s)
           /\ \A i \in 1..Len(s) : s[i] \in T
<1>1. Len(s) \in Nat /\ DOMAIN s = 1..Len(s) /\ \A i \in 1..Len(s) : s[i] \in T
  BY LenProperties
<1>2. s # <<>> => Len(s) # 0
  OBVIOUS
<1>3. QED
  BY <1>1, <1>2

\* A call of populateDependentsCache.
CallType == [node : Nodes, todo : SUBSET Nodes]

\* getDependents goes on to the next direct use: it is taken off the node on top.
LEMMA TodoTaken ==
    ASSUME TypeOK, stack # <<>>, NEW d
    PROVE  /\ Len(stack) \in Nat \ {0}
           /\ Past(d) \in Seq(CallType)
           /\ Len(Past(d)) = Len(stack)
           /\ \A i \in 1..Len(stack) : Past(d)[i].node = stack[i].node
           /\ \A i \in 1..(Len(stack) - 1) : Past(d)[i] = stack[i]
           /\ Past(d)[Len(stack)].todo = Top.todo \ {d}
<1> DEFINE n == Len(stack)
           r == [node |-> Top.node, todo |-> Top.todo \ {d}]
<1>1. stack \in Seq(CallType)
  BY DEF TypeOK, CallType
<1>2. n \in Nat \ {0} /\ n \in 1..n /\ stack[n] \in CallType
  BY <1>1, SeqElements
<1>3. r \in CallType /\ r.node = stack[n].node /\ r.todo = Top.todo \ {d}
  BY <1>2 DEF CallType, Top
<1>4. Past(d) = [stack EXCEPT ![n] = r]
  BY DEF Past
<1> HIDE DEF r
<1>5. /\ Past(d) \in Seq(CallType) /\ Len(Past(d)) = n
      /\ \A i \in 1..n : Past(d)[i] = IF i = n THEN r ELSE stack[i]
  BY <1>1, <1>2, <1>3, <1>4, ExceptSeq
<1>6. QED
  BY <1>2, <1>3, <1>5

\* What the steps of the walk do to its stack: getDependents recurses, ...
LEMMA Pushed ==
    ASSUME TypeOK, NEW d \in Nodes, Descend(d)
    PROVE  /\ Len(stack) \in Nat \ {0}
           /\ stack' \in Seq(CallType)
           /\ Len(stack') = Len(stack) + 1
           /\ \A i \in 1..Len(stack) : stack'[i].node = stack[i].node
           /\ \A i \in 1..(Len(stack) - 1) : stack'[i] = stack[i]
           /\ stack'[Len(stack)].todo = Top.todo \ {d}
           /\ stack'[Len(stack) + 1] = [node |-> d, todo |-> direct[d]]
<1> DEFINE s == Past(d)
           r == [node |-> d, todo |-> direct[d]]
<1>1. stack # <<>>
  BY DEF Descend
<1>2. r \in CallType
  BY DEF TypeOK, CallType
<1>3. /\ Len(stack) \in Nat \ {0} /\ s \in Seq(CallType) /\ Len(s) = Len(stack)
      /\ \A i \in 1..Len(stack) : s[i].node = stack[i].node
      /\ \A i \in 1..(Len(stack) - 1) : s[i] = stack[i]
      /\ s[Len(stack)].todo = Top.todo \ {d}
  BY <1>1, TodoTaken
<1>4. stack' = s \o <<r>>
  BY DEF Descend, Call
<1> HIDE DEF s, r
<1>5. /\ <<r>> \in Seq(CallType) /\ Len(<<r>>) = 1 /\ <<r>>[1] = r
  BY <1>2
<1>6. /\ stack' \in Seq(CallType) /\ Len(stack') = Len(stack) + 1
      /\ \A i \in 1..(Len(stack) + 1) :
            stack'[i] = IF i <= Len(stack) THEN s[i] ELSE <<r>>[i - Len(stack)]
  BY <1>3, <1>4, <1>5, ConcatProperties
<1>7. stack'[Len(stack) + 1] = r
  BY <1>3, <1>5, <1>6
<1>8. \A i \in 1..Len(stack) : stack'[i] = s[i]
  BY <1>3, <1>6
<1>9. QED
  BY <1>3, <1>6, <1>7, <1>8, SMTT(30) DEF r

\* ... copies a cache that is there, ...
LEMMA Copied ==
    ASSUME TypeOK, NEW d \in Nodes, Copy(d)
    PROVE  /\ Len(stack) \in Nat \ {0}
           /\ stack' \in Seq(CallType)
           /\ Len(stack') = Len(stack)
           /\ \A i \in 1..Len(stack) : stack'[i].node = stack[i].node
           /\ \A i \in 1..(Len(stack) - 1) : stack'[i] = stack[i]
           /\ stack'[Len(stack)].todo = Top.todo \ {d}
<1>1. stack # <<>> /\ stack' = Past(d)
  BY DEF Copy
<1>2. QED
  BY <1>1, TodoTaken

\* ... or is through with a node.
LEMMA Popped ==
    ASSUME TypeOK, Return
    PROVE  /\ Len(stack) \in Nat \ {0}
           /\ stack' \in Seq(CallType)
           /\ Len(stack') = Len(stack) - 1
           /\ \A i \in 1..(Len(stack) - 1) : stack'[i] = stack[i]
<1> DEFINE n == Len(stack)
           u == SubSeq(stack, 1, n - 1)
<1>1. stack \in Seq(CallType) /\ stack # <<>> /\ stack' = u
  BY DEF TypeOK, CallType, Return
<1>2. /\ n \in Nat \ {0}
      /\ \A i \in 1..(n - 1) : stack[i] \in CallType
  BY <1>1, SeqElements
<1>3. /\ u \in Seq(CallType)
      /\ Len(u) = IF 1 <= n - 1 THEN (n - 1) - 1 + 1 ELSE 0
      /\ \A i \in 1..((n - 1) - 1 + 1) : u[i] = stack[1 + i - 1]
  BY <1>2, SubSeqProperties
<1> HIDE DEF u
<1>4. Len(u) = n - 1
  <2>1. CASE n = 1
    BY <1>3, <2>1
  <2>2. CASE n # 1
    <3>1. \A k \in Nat \ {0} : k # 1 =>
             k - 1 \in Nat /\ 1 <= k - 1 /\ (k - 1) - 1 + 1 = k - 1
      OBVIOUS
    <3>2. n - 1 \in Nat /\ 1 <= n - 1 /\ (n - 1) - 1 + 1 = n - 1
      BY <1>2, <2>2, <3>1
    <3>3. QED
      BY <1>3, <3>2
  <2>3. QED
    BY <2>1, <2>2
<1>5. ASSUME NEW i \in 1..(n - 1) PROVE u[i] = stack[i]
  <2>1. i \in 1..((n - 1) - 1 + 1) /\ 1 + i - 1 = i
    BY <1>2
  <2>2. QED
    BY <1>3, <2>1
<1>6. QED
  BY <1>1, <1>2, <1>3, <1>4, <1>5

\* A call on a node that has no cache is the only one on the stack.
LEMMA Begun ==
    ASSUME TypeOK, NEW n \in Nodes, Query(n), n \notin made
    PROVE  /\ stack' \in Seq(CallType)
           /\ Len(stack') = 1
           /\ stack'[1] = [node |-> n, todo |-> direct[n]]
<1> DEFINE r == [node |-> n, todo |-> direct[n]]
<1>1. r \in CallType
  BY DEF TypeOK, CallType
<1>2. stack' = <<r>>
  BY DEF Query, Call
<1> HIDE DEF r
<1>3. stack' \in Seq(CallType) /\ Len(stack') = 1 /\ stack'[1] = r
  BY <1>1, <1>2
<1>4. QED
  BY <1>3 DEF r

\* The node on top is one of the stack's, and the one below it another.
LEMMA TopIsOnStack ==
    ASSUME TypeOK, stack # <<>>
    PROVE  /\ Len(stack) \in DOMAIN stack
           /\ Top.node \in Nodes /\ Top.todo \subseteq direct[Top.node]
           /\ direct[Top.node] \subseteq Nodes
           /\ Len(stack) > 1 => /\ Len(stack) - 1 \in DOMAIN stack
                                /\ Below.node \in Nodes
                                /\ Below.node # Top.node
<1>1. stack \in Seq(CallType)
  BY DEF TypeOK, CallType
<1>2. /\ Len(stack) \in Nat \ {0} /\ DOMAIN stack = 1..Len(stack)
      /\ \A i \in 1..Len(stack) : stack[i] \in CallType
  BY <1>1, SeqElements
<1>3. \A i \in 1..Len(stack) : stack[i].node \in Nodes
  BY <1>2 DEF CallType
<1>4. QED
  BY <1>2, <1>3 DEF TypeOK, Top, Below

\* What TypeOK says of the stack.
OfCalls ==
    /\ \A i \in DOMAIN stack : /\ stack[i].node \in made
                               /\ stack[i].todo \subseteq direct[stack[i].node]
    /\ \A i, j \in DOMAIN stack : stack[i].node = stack[j].node => i = j

\* TypeOK by its parts, the stack's being OfCalls.
LEMMA TypeParts ==
    TypeOK <=> /\ direct \in [Nodes -> SUBSET Nodes]
               /\ cache \in [Nodes -> SUBSET Nodes]
               /\ made \subseteq Nodes
               /\ stack \in Seq(CallType)
               /\ asked \in Seq(Nodes)
               /\ OfCalls
BY DEF TypeOK, OfCalls, CallType

\* A call from outside is typed: its node has a cache from now on.
LEMMA QueryTyped ==
    ASSUME TypeOK, NEW n \in Nodes, Query(n)
    PROVE  TypeOK'
<1>1. /\ direct' \in [Nodes -> SUBSET Nodes] /\ cache' \in [Nodes -> SUBSET Nodes]
      /\ made' \subseteq Nodes
  BY DEF TypeOK, Query
<1>2. asked' \in Seq(Nodes)
  <2>1. asked \in Seq(Nodes) /\ asked' = Append(asked, n)
    BY DEF TypeOK, Query
  <2>2. QED
    BY <2>1, AppendProperties
<1>3. stack' \in Seq(CallType) /\ OfCalls'
  <2>1. CASE n \in made
    <3>1. stack' = stack /\ made' = made /\ direct' = direct
      BY <2>1 DEF Query
    <3>2. QED
      BY <3>1, TypeParts DEF OfCalls
  <2>2. CASE n \notin made
    <3>1. /\ stack' \in Seq(CallType) /\ Len(stack') = 1
          /\ stack'[1] = [node |-> n, todo |-> direct[n]]
      BY <2>2, Begun
    <3>2. DOMAIN stack' = 1..1 /\ n \in made' /\ direct' = direct
      BY <3>1, LenProperties DEF Query
    <3>3. QED
      BY <3>1, <3>2 DEF OfCalls
  <2>3. QED
    BY <2>1, <2>2
<1>4. QED
  BY <1>1, <1>2, <1>3 DEF TypeOK, OfCalls, CallType

\* A recursive call is typed: its node had no cache, so it is not on the stack.
LEMMA DescendTyped ==
    ASSUME TypeOK, NEW d \in Nodes, Descend(d)
    PROVE  TypeOK'
<1>1. /\ direct' \in [Nodes -> SUBSET Nodes] /\ cache' \in [Nodes -> SUBSET Nodes]
      /\ made' \subseteq Nodes /\ asked' \in Seq(Nodes)
  BY DEF TypeOK, Descend
<1>2. /\ Len(stack) \in Nat \ {0}
      /\ stack' \in Seq(CallType)
      /\ Len(stack') = Len(stack) + 1
      /\ \A i \in 1..Len(stack) : stack'[i].node = stack[i].node
      /\ \A i \in 1..(Len(stack) - 1) : stack'[i] = stack[i]
      /\ stack'[Len(stack)].todo = Top.todo \ {d}
      /\ stack'[Len(stack) + 1] = [node |-> d, todo |-> direct[d]]
  BY Pushed
<1>3. DOMAIN stack' = 1..(Len(stack) + 1) /\ DOMAIN stack = 1..Len(stack)
  BY <1>2, LenProperties, TypeParts
<1>4. direct' = direct /\ made' = made \cup {d} /\ d \notin made
  BY DEF Descend
<1>5. OfCalls
  BY TypeParts
<1>6. OfCalls'
  <2>1. ASSUME NEW i \in 1..Len(stack)
        PROVE  stack'[i].node \in made /\ stack'[i].todo \subseteq direct[stack'[i].node]
    <3>1. CASE i = Len(stack)
      BY <1>2, <1>3, <1>5, <3>1 DEF OfCalls, Top
    <3>2. CASE i # Len(stack)
      <4>1. i \in 1..(Len(stack) - 1)
        BY <1>2, <3>2
      <4>2. QED
        BY <1>2, <1>3, <1>5, <4>1 DEF OfCalls
    <3>3. QED
      BY <3>1, <3>2
  <2>2. stack'[Len(stack) + 1].node = d /\ stack'[Len(stack) + 1].todo = direct[d]
    BY <1>2
  <2>3. \A i \in 1..(Len(stack) + 1) : i \in 1..Len(stack) \/ i = Len(stack) + 1
    BY <1>2
  <2>4. \A i, j \in 1..Len(stack) : stack'[i].node = stack'[j].node => i = j
    BY <1>2, <1>3, <1>5 DEF OfCalls
  <2>5. \A i \in DOMAIN stack' : /\ stack'[i].node \in made'
                                 /\ stack'[i].todo \subseteq direct'[stack'[i].node]
    BY <1>3, <1>4, <2>1, <2>2, <2>3
  <2>6. \A i, j \in DOMAIN stack' : stack'[i].node = stack'[j].node => i = j
    BY <1>3, <1>4, <2>1, <2>2, <2>3, <2>4
  <2>7. QED
    BY <2>5, <2>6 DEF OfCalls
<1>7. QED
  BY <1>1, <1>2, <1>6 DEF TypeOK, OfCalls, CallType

\* A copy keeps the stack's nodes and what they still have to do.
LEMMA CopyTyped ==
    ASSUME TypeOK, NEW d \in Nodes, Copy(d)
    PROVE  TypeOK'
<1>1. /\ direct' \in [Nodes -> SUBSET Nodes] /\ cache' \in [Nodes -> SUBSET Nodes]
      /\ made' \subseteq Nodes /\ asked' \in Seq(Nodes)
  BY DEF TypeOK, Copy
<1>2. /\ Len(stack) \in Nat \ {0}
      /\ stack' \in Seq(CallType)
      /\ Len(stack') = Len(stack)
      /\ \A i \in 1..Len(stack) : stack'[i].node = stack[i].node
      /\ \A i \in 1..(Len(stack) - 1) : stack'[i] = stack[i]
      /\ stack'[Len(stack)].todo = Top.todo \ {d}
  BY Copied
<1>3. DOMAIN stack' = 1..Len(stack) /\ DOMAIN stack = 1..Len(stack)
  BY <1>2, LenProperties, TypeParts
<1>4. direct' = direct /\ made' = made
  BY DEF Copy
<1>5. OfCalls
  BY TypeParts
<1>6. OfCalls'
  <2>1. ASSUME NEW i \in 1..Len(stack)
        PROVE  stack'[i].node \in made /\ stack'[i].todo \subseteq direct[stack'[i].node]
    <3>1. CASE i = Len(stack)
      BY <1>2, <1>3, <1>5, <3>1 DEF OfCalls, Top
    <3>2. CASE i # Len(stack)
      <4>1. i \in 1..(Len(stack) - 1)
        BY <1>2, <3>2
      <4>2. QED
        BY <1>2, <1>3, <1>5, <4>1 DEF OfCalls
    <3>3. QED
      BY <3>1, <3>2
  <2>2. \A i, j \in 1..Len(stack) : stack'[i].node = stack'[j].node => i = j
    BY <1>2, <1>3, <1>5 DEF OfCalls
  <2>3. QED
    BY <1>3, <1>4, <2>1, <2>2 DEF OfCalls
<1>7. QED
  BY <1>1, <1>2, <1>6 DEF TypeOK, OfCalls, CallType

\* A return leaves the rest of the stack.
LEMMA ReturnTyped ==
    ASSUME TypeOK, Return
    PROVE  TypeOK'
<1>1. /\ direct' \in [Nodes -> SUBSET Nodes] /\ cache' \in [Nodes -> SUBSET Nodes]
      /\ made' \subseteq Nodes /\ asked' \in Seq(Nodes)
  <2>1. direct' = direct /\ made' = made /\ asked' = asked
    BY DEF Return
  <2>2. cache' \in [Nodes -> SUBSET Nodes]
    <3>1. cache \in [Nodes -> SUBSET Nodes]
      BY DEF TypeOK
    <3>2. cache' = cache \/ cache' = [cache EXCEPT ![Below.node] = @ \cup cache[Top.node]]
      BY DEF Return
    <3>3. stack # <<>>
      BY DEF Return
    <3>4. Top.node \in Nodes
      BY <3>3, TopIsOnStack
    <3>5. QED
      BY <3>1, <3>2, <3>4
  <2>3. QED
    BY <2>1, <2>2, TypeParts
<1>2. /\ Len(stack) \in Nat \ {0}
      /\ stack' \in Seq(CallType)
      /\ Len(stack') = Len(stack) - 1
      /\ \A i \in 1..(Len(stack) - 1) : stack'[i] = stack[i]
  BY Popped
<1>3. DOMAIN stack' = 1..(Len(stack) - 1) /\ DOMAIN stack = 1..Len(stack)
  BY <1>2, LenProperties, TypeParts
<1>4. \A i \in 1..(Len(stack) - 1) : i \in 1..Len(stack)
  BY <1>2
<1>5. direct' = direct /\ made' = made
  BY DEF Return
<1>6. OfCalls
  BY TypeParts
<1>7. OfCalls'
  BY <1>2, <1>3, <1>4, <1>5, <1>6 DEF OfCalls
<1>8. QED
  BY <1>1, <1>2, <1>7 DEF TypeOK, OfCalls, CallType

\* Every step keeps the types.
LEMMA NextTyped == TypeOK /\ [Next]_vars => TypeOK'
<1> SUFFICES ASSUME TypeOK, [Next]_vars PROVE TypeOK'
  OBVIOUS
<1>1. CASE UNCHANGED vars
  BY <1>1 DEF vars, TypeOK
<1>2. ASSUME NEW n \in Nodes, Query(n) PROVE TypeOK'
  BY <1>2, QueryTyped
<1>3. ASSUME NEW n \in Nodes, Descend(n) PROVE TypeOK'
  BY <1>3, DescendTyped
<1>4. ASSUME NEW n \in Nodes, Copy(n) PROVE TypeOK'
  BY <1>4, CopyTyped
<1>5. CASE Return
  BY <1>5, ReturnTyped
<1>6. QED
  BY <1>1, <1>2, <1>3, <1>4, <1>5 DEF Next

\* Every value of the walk's state is of its type; a node is being worked on at
\* most once, and only when it has a cache (message.go:201-211).
THEOREM TypeCorrect == Spec => []TypeOK
<1>1. Init => TypeOK
  BY GraphsAssumption DEF Init, TypeOK
<1>2. QED
  BY <1>1, NextTyped, PTL DEF Spec

-----------------------------------------------------------------------------
\* The direct uses that the call at i has come to.
Looked(i) == direct[stack[i].node] \ stack[i].todo

\* Each node on the stack is used by those below it.
Chain == \A i, j \in 1..Len(stack) : i < j => stack[j].node \in Uses(stack[i].node)

\* A cache holds only nodes that have one.
Reached == \A n \in Nodes : cache[n] \subseteq made

\* The node at the bottom of the stack is the last one asked.
FromTheLast ==
    /\ stack # <<>> => asked # <<>> /\ stack[1].node = asked[Len(asked)]
    /\ asked = <<>> => made = {}
    /\ Len(asked) = 1 => asked[1] \in made

\* During the first call everything that was come to is in a cache that the asked
\* node's will get.
Held == cache[asked[1]] \cup UNION {cache[stack[i].node] : i \in 1..Len(stack)}

Collected ==
    Len(asked) = 1 =>
        /\ \A n \in made : ~OnStack(n) => direct[n] \subseteq Held
        /\ \A i \in 1..Len(stack) : Looked(i) \subseteq Held

\* Without recursion, what was come to is in the cache with all its uses, except the
\* use that is being worked on.
Filled ==
    Acyclic =>
        /\ \A n \in Nodes : Finished(n) => Uses(n) \subseteq cache[n]
        /\ \A i \in 1..Len(stack) : \A d \in Looked(i) :
              /\ d \in cache[stack[i].node]
              /\ \/ Uses(d) \subseteq cache[stack[i].node]
                 \/ i < Len(stack) /\ d = stack[i + 1].node

\* What the types say of the calls on the stack, by their number.
LEMMA StackNodes ==
    ASSUME TypeOK
    PROVE  /\ Len(stack) \in Nat /\ DOMAIN stack = 1..Len(stack)
           /\ \A i \in 1..Len(stack) : /\ stack[i].node \in Nodes
                                       /\ stack[i].node \in made
                                       /\ stack[i].todo \subseteq direct[stack[i].node]
                                       /\ direct[stack[i].node] \subseteq Nodes
           /\ \A i, j \in 1..Len(stack) : stack[i].node = stack[j].node => i = j
<1>1. stack \in Seq(CallType)
  BY TypeParts
<1>2. /\ Len(stack) \in Nat /\ DOMAIN stack = 1..Len(stack)
      /\ \A i \in 1..Len(stack) : stack[i] \in CallType
  BY <1>1, SeqElements
<1>3. \A i \in 1..Len(stack) : stack[i].node \in Nodes
  BY <1>2 DEF CallType
<1>4. QED
  BY <1>2, <1>3, TypeParts DEF OfCalls

-----------------------------------------------------------------------------
(* What caches hold is used.                                               *)

\* A call from outside puts one node on an empty stack and fills nothing.
LEMMA QuerySound ==
    ASSUME TypeOK, Chain, Sound, NEW n \in Nodes, Query(n)
    PROVE  Chain' /\ Sound'
<1>1. direct' = direct /\ cache' = cache
  BY DEF Query
<1>2. Sound'
  BY <1>1, UsesKept DEF Sound
<1>3. CASE n \in made
  <2>1. stack' = stack
    BY <1>3 DEF Query
  <2>2. QED
    BY <1>1, <1>2, <2>1, UsesKept, StackNodes DEF Chain
<1>4. CASE n \notin made
  <2>1. Len(stack') = 1
    BY <1>4, Begun
  <2>2. QED
    BY <1>2, <2>1 DEF Chain
<1>5. QED
  BY <1>3, <1>4

\* A recursive call is on a node that is used by all that are below it.
LEMMA DescendSound ==
    ASSUME TypeOK, Chain, Sound, NEW d \in Nodes, Descend(d)
    PROVE  Chain' /\ Sound'
<1> DEFINE L == Len(stack)
<1>1. /\ L \in Nat \ {0}
      /\ Len(stack') = L + 1
      /\ \A i \in 1..L : stack'[i].node = stack[i].node
      /\ stack'[L + 1].node = d
  <2>1. stack'[L + 1] = [node |-> d, todo |-> direct[d]]
    BY Pushed
  <2>2. stack'[L + 1].node = d
    BY <2>1
  <2>3. QED
    BY <2>2, Pushed
<1>2. direct' = direct /\ cache' = [cache EXCEPT ![Top.node] = @ \cup {d}]
  BY DEF Descend
<1>3. /\ Top.node = stack[L].node /\ Top.node \in Nodes
      /\ d \in direct[Top.node]
  BY TopIsOnStack DEF Descend, Top
<1>4. d \in Uses(Top.node)
  BY <1>3, UsesAreTransitive
<1>5. Sound'
  <2>1. ASSUME NEW n \in Nodes PROVE cache'[n] \subseteq Uses(n)
    BY <1>2, <1>3, <1>4, TypeParts DEF Sound
  <2>2. QED
    BY <1>2, <2>1, UsesKept DEF Sound
<1>6. \A i \in 1..L : stack[i].node \in Nodes
  BY StackNodes
<1>7. ASSUME NEW i \in 1..L PROVE d \in Uses(stack[i].node)
  <2>1. CASE i = L
    BY <1>3, <1>4, <2>1
  <2>2. CASE i # L
    <3>1. Top.node \in Uses(stack[i].node)
      BY <1>1, <1>3, <2>2 DEF Chain
    <3>2. QED
      BY <1>4, <1>6, <3>1, UsesAreTransitive
  <2>3. QED
    BY <2>1, <2>2
<1>8. ASSUME NEW i \in 1..(L + 1), NEW j \in 1..(L + 1), i < j
      PROVE  stack'[j].node \in Uses(stack'[i].node)
  <2>1. i \in 1..L
    BY <1>1, <1>8
  <2>2. CASE j = L + 1
    BY <1>1, <1>7, <2>1, <2>2
  <2>3. CASE j # L + 1
    <3>1. j \in 1..L
      BY <1>1, <2>3
    <3>2. QED
      BY <1>1, <1>8, <2>1, <3>1 DEF Chain
  <2>4. QED
    BY <2>2, <2>3
<1>9. \A i \in 1..(L + 1) : stack'[i].node \in Nodes
  BY <1>1, <1>6
<1>10. Chain'
  <2>1. ASSUME NEW i \in 1..(L + 1), NEW j \in 1..(L + 1), i < j
        PROVE  stack'[j].node \in Uses(stack[i].node)'
    BY <1>2, <1>8, <1>9, <2>1, UsesKept
  <2>2. QED
    BY <1>1, <2>1 DEF Chain
<1>11. QED
  BY <1>5, <1>10

\* A copied cache holds what its node uses, so what the copying one uses.
LEMMA CopySound ==
    ASSUME TypeOK, Chain, Sound, NEW d \in Nodes, Copy(d)
    PROVE  Chain' /\ Sound'
<1> DEFINE L == Len(stack)
<1>1. /\ L \in Nat \ {0}
      /\ Len(stack') = L
      /\ \A i \in 1..L : stack'[i].node = stack[i].node
  BY Copied
<1>2. direct' = direct /\ cache' = [cache EXCEPT ![Top.node] = @ \cup {d} \cup cache[d]]
  BY DEF Copy
<1>3. Top.node \in Nodes /\ d \in direct[Top.node]
  BY TopIsOnStack DEF Copy
<1>4. d \in Uses(Top.node) /\ cache[d] \subseteq Uses(Top.node)
  BY <1>3, UsesAreTransitive DEF Sound
<1>5. Sound'
  <2>1. ASSUME NEW n \in Nodes PROVE cache'[n] \subseteq Uses(n)
    BY <1>2, <1>3, <1>4, TypeParts DEF Sound
  <2>2. QED
    BY <1>2, <2>1, UsesKept DEF Sound
<1>6. \A i \in 1..L : stack[i].node \in Nodes
  BY StackNodes
<1>7. Chain'
  <2>1. ASSUME NEW i \in 1..L, NEW j \in 1..L, i < j
        PROVE  stack'[j].node \in Uses(stack[i].node)'
    BY <1>1, <1>2, <1>6, <2>1, UsesKept DEF Chain
  <2>2. QED
    BY <1>1, <2>1 DEF Chain
<1>8. QED
  BY <1>5, <1>7

\* A cache goes to the node below, which uses the one on top.
LEMMA ReturnSound ==
    ASSUME TypeOK, Chain, Sound, Return
    PROVE  Chain' /\ Sound'
<1> DEFINE L == Len(stack)
<1>1. /\ L \in Nat \ {0}
      /\ Len(stack') = L - 1
      /\ \A i \in 1..(L - 1) : stack'[i] = stack[i]
  BY Popped
<1>2. /\ direct' = direct
      /\ cache' = IF L = 1 THEN cache
                  ELSE [cache EXCEPT ![Below.node] = @ \cup cache[Top.node]]
  BY DEF Return
<1>3. \A i \in 1..L : stack[i].node \in Nodes
  BY StackNodes
<1>4. Sound'
  <2>1. CASE L = 1
    BY <1>2, <2>1, UsesKept DEF Sound
  <2>2. CASE L # 1
    <3>1. L - 1 \in 1..L /\ L \in 1..L /\ L - 1 < L
      BY <1>1, <2>2
    <3>2. Top.node \in Uses(Below.node) /\ Top.node \in Nodes /\ Below.node \in Nodes
      BY <1>3, <3>1 DEF Chain, Top, Below
    <3>3. cache[Top.node] \subseteq Uses(Below.node)
      BY <3>2, UsesAreTransitive DEF Sound
    <3>4. ASSUME NEW n \in Nodes PROVE cache'[n] \subseteq Uses(n)
      BY <1>2, <2>2, <3>2, <3>3, TypeParts DEF Sound
    <3>5. QED
      BY <1>2, <3>4, UsesKept DEF Sound
  <2>3. QED
    BY <2>1, <2>2
<1>5. Chain'
  <2>1. \A i \in 1..(L - 1) : i \in 1..L
    BY <1>1
  <2>2. ASSUME NEW i \in 1..(L - 1), NEW j \in 1..(L - 1), i < j
        PROVE  stack'[j].node \in Uses(stack[i].node)'
    BY <1>1, <1>2, <1>3, <2>1, <2>2, UsesKept DEF Chain
  <2>3. QED
    BY <1>1, <2>2 DEF Chain
<1>6. QED
  BY <1>4, <1>5

\* Every step keeps the chain of uses and the soundness of the caches.
LEMMA NextSound == TypeOK /\ Chain /\ Sound /\ [Next]_vars => Chain' /\ Sound'
<1> SUFFICES ASSUME TypeOK, Chain, Sound, [Next]_vars PROVE Chain' /\ Sound'
  OBVIOUS
<1>1. CASE UNCHANGED vars
  BY <1>1, UsesKept, StackNodes DEF vars, Chain, Sound
<1>2. ASSUME NEW n \in Nodes, Query(n) PROVE Chain' /\ Sound'
  BY <1>2, QuerySound
<1>3. ASSUME NEW n \in Nodes, Descend(n) PROVE Chain' /\ Sound'
  BY <1>3, DescendSound
<1>4. ASSUME NEW n \in Nodes, Copy(n) PROVE Chain' /\ Sound'
  BY <1>4, CopySound
<1>5. CASE Return
  BY <1>5, ReturnSound
<1>6. QED
  BY <1>1, <1>2, <1>3, <1>4, <1>5 DEF Next

\* At the start there are no calls and nothing in a cache.
LEMMA InitSound == Init => TypeOK /\ Chain /\ Sound
BY GraphsAssumption DEF Init, TypeOK, Chain, Sound

\* No message is reported that is not used, directly or transitively, by however
\* many calls, on whatever graph of messages (message.go:193-241).
THEOREM CachesSound == Spec => []Sound
BY InitSound, NextTyped, NextSound, PTL DEF Spec

-----------------------------------------------------------------------------
(* Finished caches stay.                                                   *)

\* Only the caches of the two topmost nodes are written to.
LEMMA OthersKept ==
    ASSUME TypeOK, [Next]_vars, NEW n \in Nodes, Finished(n)
    PROVE  cache'[n] = cache[n]
<1>1. \A i \in 1..Len(stack) : stack[i].node # n
  BY StackNodes DEF Finished, OnStack
<1>2. /\ stack # <<>> => Top.node # n /\ Top.node \in Nodes
      /\ stack # <<>> /\ Len(stack) # 1 => Below.node # n /\ Below.node \in Nodes
  <2>1. ASSUME stack # <<>> PROVE Top.node # n /\ Top.node \in Nodes
    BY <1>1, <2>1, TopIsOnStack, StackNodes DEF Top
  <2>2. ASSUME stack # <<>>, Len(stack) # 1 PROVE Below.node # n /\ Below.node \in Nodes
    <3>1. Len(stack) - 1 \in 1..Len(stack)
      BY <2>2, TopIsOnStack, StackNodes
    <3>2. QED
      BY <1>1, <3>1, StackNodes DEF Below
  <2>3. QED
    BY <2>1, <2>2
<1>3. cache \in [Nodes -> SUBSET Nodes]
  BY TypeParts
<1>4. CASE cache' = cache
  BY <1>4
<1>5. ASSUME NEW d \in Nodes, Descend(d) \/ Copy(d) PROVE cache'[n] = cache[n]
  BY <1>2, <1>3, <1>5 DEF Descend, Copy
<1>6. CASE Return
  BY <1>2, <1>3, <1>6 DEF Return
<1>7. QED
  BY <1>4, <1>5, <1>6 DEF Next, vars, Query

\* An answer, once given, is never changed by later calls: message.go:201-204
\* fills a cache once only, and copies out of it after that.
THEOREM AnswersKept == Spec => AnswersStable
<1>1. TypeOK /\ [Next]_vars => [\A n \in Nodes : Finished(n) => cache'[n] = cache[n]]_vars
  BY OthersKept
<1>2. QED
  BY <1>1, TypeCorrect, PTL DEF Spec, AnswersStable

-----------------------------------------------------------------------------
(* The first call.                                                         *)

\* What holds of the first call, all together.
FirstInv == TypeOK /\ Reached /\ FromTheLast /\ Collected

\* A call from outside: when it is the first, no node has a cache.
LEMMA QueryFirst ==
    ASSUME FirstInv, NEW n \in Nodes, Query(n)
    PROVE  Reached' /\ FromTheLast' /\ Collected'
<1>1. /\ stack = <<>> /\ direct' = direct /\ cache' = cache
      /\ made' = made \cup {n} /\ asked' = Append(asked, n)
  BY DEF Query
<1>2. Reached'
  BY <1>1 DEF FirstInv, Reached
<1>3. asked \in Seq(Nodes)
  BY TypeParts DEF FirstInv
<1>4. /\ Len(asked) \in Nat /\ Len(asked') = Len(asked) + 1
      /\ asked'[Len(asked) + 1] = n /\ asked' # <<>>
  BY <1>1, <1>3
<1>5. ASSUME n \notin made
      PROVE  /\ Len(stack') = 1 /\ stack'[1].node = n /\ stack'[1].todo = direct[n]
             /\ DOMAIN stack' = 1..1
  <2>1. stack' \in Seq(CallType) /\ Len(stack') = 1
    BY <1>5, Begun DEF FirstInv
  <2>2. stack'[1] = [node |-> n, todo |-> direct[n]]
    BY <1>5, Begun DEF FirstInv
  <2>3. QED
    BY <2>1, <2>2, SeqElements
<1>6. FromTheLast'
  <2>1. ASSUME stack' # <<>> PROVE stack'[1].node = asked'[Len(asked')]
    <3>1. n \notin made
      BY <1>1, <2>1 DEF Query
    <3>2. QED
      BY <1>4, <1>5, <3>1
  <2>2. ASSUME Len(asked') = 1 PROVE asked'[1] \in made'
    BY <1>1, <1>4, <2>2
  <2>3. QED
    BY <1>4, <2>1, <2>2 DEF FromTheLast
<1>7. Collected'
  <2> SUFFICES ASSUME Len(asked') = 1
               PROVE  /\ \A m \in made' : ~OnStack(m)' => direct[m] \subseteq Held'
                      /\ \A i \in 1..Len(stack') : Looked(i)' \subseteq Held'
    BY <1>1 DEF Collected
  <2>1. made = {}
    BY <1>3, <1>4 DEF FirstInv, FromTheLast
  <2>2. made' = {n} /\ OnStack(n)'
    BY <1>1, <1>5, <2>1 DEF OnStack
  <2>3. ASSUME NEW i \in 1..Len(stack') PROVE Looked(i)' = {}
    <3>1. Len(stack') = 1 /\ stack'[1].node = n /\ stack'[1].todo = direct[n]
      BY <1>5, <2>1
    <3>2. i = 1
      BY <3>1
    <3>3. QED
      BY <1>1, <3>1, <3>2 DEF Looked
  <2>4. QED
    BY <2>2, <2>3
<1>8. QED
  BY <1>2, <1>6, <1>7

\* What was held is held after a step of the walk.
LEMMA HeldStays ==
    ASSUME FirstInv, Len(asked) = 1, asked' = asked,
           \/ \E d \in Nodes : Descend(d) \/ Copy(d)
           \/ Return
    PROVE  Held \subseteq Held'
<1> USE DEF FirstInv
<1>1. asked[1] \in Nodes /\ asked'[1] = asked[1] /\ stack # <<>>
  BY TypeParts DEF FromTheLast, Descend, Copy, Return
<1>2. Len(stack) \in Nat \ {0} /\ \A i \in 1..Len(stack) : stack[i].node \in Nodes
  BY <1>1, StackNodes, TopIsOnStack
<1>3. Top.node \in Nodes /\ cache \in [Nodes -> SUBSET Nodes]
  BY <1>1, TopIsOnStack, TypeParts
<1>4. \A m \in Nodes : cache[m] \subseteq cache'[m]
  <2>1. ASSUME NEW d \in Nodes, Descend(d) \/ Copy(d), NEW m \in Nodes
        PROVE  cache[m] \subseteq cache'[m]
    BY <1>3, <2>1 DEF Descend, Copy
  <2>2. ASSUME Return, NEW m \in Nodes PROVE cache[m] \subseteq cache'[m]
    BY <1>3, <2>2 DEF Return
  <2>3. QED
    BY <2>1, <2>2
<1>5. ASSUME NEW x \in cache[asked[1]] PROVE x \in Held'
  BY <1>1, <1>4, <1>5 DEF Held
<1>6. ASSUME NEW i \in 1..Len(stack), NEW x \in cache[stack[i].node] PROVE x \in Held'
  <2>1. x \in cache'[stack[i].node]
    BY <1>2, <1>4, <1>6
  <2>2. CASE i \in 1..Len(stack') /\ stack'[i].node = stack[i].node
    BY <2>1, <2>2 DEF Held
  <2>3. ASSUME NEW d \in Nodes, Descend(d)
        PROVE  i \in 1..Len(stack') /\ stack'[i].node = stack[i].node
    <3>1. Len(stack') = Len(stack) + 1 /\ stack'[i].node = stack[i].node
      BY <2>3, Pushed
    <3>2. QED
      BY <1>2, <3>1
  <2>4. ASSUME NEW d \in Nodes, Copy(d)
        PROVE  i \in 1..Len(stack') /\ stack'[i].node = stack[i].node
    BY <2>4, Copied
  <2>5. ASSUME Return, i # Len(stack)
        PROVE  i \in 1..Len(stack') /\ stack'[i].node = stack[i].node
    <3>1. i \in 1..(Len(stack) - 1)
      BY <1>2, <2>5
    <3>2. QED
      BY <2>5, <3>1, Popped
  <2>6. ASSUME Return, i = Len(stack), i = 1 PROVE x \in Held'
    <3>1. stack[i].node = asked[1]
      BY <1>1, <2>6 DEF FromTheLast
    <3>2. QED
      BY <1>5, <1>6, <3>1
  <2>7. ASSUME Return, i = Len(stack), i # 1 PROVE x \in Held'
    <3>1. /\ cache' = [cache EXCEPT ![Below.node] = @ \cup cache[Top.node]]
          /\ Len(stack') = Len(stack) - 1
          /\ \A k \in 1..(Len(stack) - 1) : stack'[k] = stack[k]
      BY <2>7, Popped DEF Return
    <3>2. Len(stack) - 1 \in 1..(Len(stack) - 1) /\ Len(stack) - 1 \in 1..Len(stack)
      BY <1>2, <2>7
    <3>3. Below.node \in Nodes /\ stack'[Len(stack) - 1].node = Below.node
      BY <1>2, <3>1, <3>2 DEF Below
    <3>4. x \in cache'[Below.node]
      BY <1>3, <1>6, <2>7, <3>1, <3>3 DEF Top
    <3>5. QED
      BY <3>1, <3>2, <3>3, <3>4 DEF Held
  <2>8. QED
    BY <2>2, <2>3, <2>4, <2>5, <2>6, <2>7
<1>7. QED
  BY <1>5, <1>6 DEF Held

\* The node at the bottom stays there, and the walk asks for nothing.
LEMMA BottomStays ==
    ASSUME FirstInv, asked' = asked, made \subseteq made', stack # <<>>,
           stack' # <<>> => stack'[1].node = stack[1].node
    PROVE  FromTheLast'
BY DEF FirstInv, FromTheLast

\* A recursive call puts its use into the cache of the node on top.
LEMMA DescendFirst ==
    ASSUME FirstInv, NEW d \in Nodes, Descend(d)
    PROVE  Reached' /\ FromTheLast' /\ Collected'
<1> USE DEF FirstInv
<1>1. /\ stack # <<>> /\ direct' = direct /\ asked' = asked
      /\ made' = made \cup {d} /\ d \notin made
      /\ cache' = [cache EXCEPT ![Top.node] = @ \cup {d}]
  BY DEF Descend
<1>2. Top.node \in Nodes /\ cache \in [Nodes -> SUBSET Nodes]
  BY <1>1, TopIsOnStack, TypeParts
<1>3. Reached'
  BY <1>1, <1>2 DEF Reached
<1>4. /\ Len(stack) \in Nat \ {0} /\ Len(stack') = Len(stack) + 1
      /\ \A i \in 1..Len(stack) : stack'[i].node = stack[i].node
      /\ \A i \in 1..(Len(stack) - 1) : stack'[i] = stack[i]
      /\ stack'[Len(stack)].todo = Top.todo \ {d}
  BY Pushed
<1>5. stack'[Len(stack) + 1].node = d /\ stack'[Len(stack) + 1].todo = direct[d]
  <2>1. stack'[Len(stack) + 1] = [node |-> d, todo |-> direct[d]]
    BY Pushed
  <2>2. QED
    BY <2>1
<1>6. FromTheLast'
  BY <1>1, <1>4, BottomStays
<1>7. DOMAIN stack = 1..Len(stack) /\ DOMAIN stack' = 1..(Len(stack) + 1)
  <2>1. stack \in Seq(CallType) /\ stack' \in Seq(CallType)
    BY Pushed, TypeParts
  <2>2. QED
    BY <1>4, <2>1, LenProperties
<1>8. Collected'
  <2> SUFFICES ASSUME Len(asked) = 1
               PROVE  /\ \A n \in made' : ~OnStack(n)' => direct[n] \subseteq Held'
                      /\ \A i \in 1..Len(stack') : Looked(i)' \subseteq Held'
    BY <1>1 DEF Collected
  <2>1. Held \subseteq Held'
    BY <1>1, HeldStays
  <2>2. ASSUME NEW n \in made', ~OnStack(n)' PROVE direct[n] \subseteq Held'
    <3>1. n # d
      <4>1. Len(stack) + 1 \in DOMAIN stack'
        BY <1>4, <1>7
      <4>2. QED
        BY <1>5, <2>2, <4>1 DEF OnStack
    <3>2. ~OnStack(n)
      <4>1. \A i \in DOMAIN stack : i \in DOMAIN stack' /\ i \in 1..Len(stack)
        BY <1>4, <1>7
      <4>2. QED
        BY <1>4, <2>2, <4>1 DEF OnStack
    <3>3. QED
      BY <1>1, <2>1, <2>2, <3>1, <3>2 DEF Collected
  <2>3. ASSUME NEW i \in 1..Len(stack') PROVE Looked(i)' \subseteq Held'
    <3>1. CASE i = Len(stack) + 1
      <4>1. Looked(i)' = {}
        BY <1>1, <1>5, <3>1 DEF Looked
      <4>2. QED
        BY <4>1
    <3>2. CASE i = Len(stack)
      <4>1. stack'[i].node = Top.node /\ i \in 1..Len(stack) /\ i \in 1..Len(stack')
        BY <1>4, <3>2 DEF Top
      <4>2. d \in Held'
        BY <1>1, <1>2, <4>1 DEF Held
      <4>3. Looked(i)' \subseteq Looked(i) \cup {d}
        BY <1>1, <1>4, <3>2, <4>1 DEF Looked, Top
      <4>4. QED
        BY <2>1, <4>1, <4>2, <4>3 DEF Collected
    <3>3. CASE i # Len(stack) /\ i # Len(stack) + 1
      <4>1. i \in 1..(Len(stack) - 1) /\ i \in 1..Len(stack)
        BY <1>4, <3>3
      <4>2. Looked(i)' = Looked(i)
        BY <1>1, <1>4, <4>1 DEF Looked
      <4>3. QED
        BY <2>1, <4>1, <4>2 DEF Collected
    <3>4. QED
      BY <3>1, <3>2, <3>3
  <2>4. QED
    BY <2>2, <2>3
<1>9. QED
  BY <1>3, <1>6, <1>8

\* A copy puts its use into the cache of the node on top.
LEMMA CopyFirst ==
    ASSUME FirstInv, NEW d \in Nodes, Copy(d)
    PROVE  Reached' /\ FromTheLast' /\ Collected'
<1> USE DEF FirstInv
<1>1. /\ stack # <<>> /\ direct' = direct /\ asked' = asked
      /\ made' = made /\ d \in made
      /\ cache' = [cache EXCEPT ![Top.node] = @ \cup {d} \cup cache[d]]
  BY DEF Copy
<1>2. Top.node \in Nodes /\ cache \in [Nodes -> SUBSET Nodes]
  BY <1>1, TopIsOnStack, TypeParts
<1>3. Reached'
  BY <1>1, <1>2 DEF Reached
<1>4. /\ Len(stack) \in Nat \ {0} /\ Len(stack') = Len(stack)
      /\ \A i \in 1..Len(stack) : stack'[i].node = stack[i].node
      /\ \A i \in 1..(Len(stack) - 1) : stack'[i] = stack[i]
      /\ stack'[Len(stack)].todo = Top.todo \ {d}
  BY Copied
<1>5. FromTheLast'
  BY <1>1, <1>4, BottomStays
<1>6. DOMAIN stack = 1..Len(stack) /\ DOMAIN stack' = 1..Len(stack)
  <2>1. stack \in Seq(CallType) /\ stack' \in Seq(CallType)
    BY Copied, TypeParts
  <2>2. QED
    BY <1>4, <2>1, LenProperties
<1>7. Collected'
  <2> SUFFICES ASSUME Len(asked) = 1
               PROVE  /\ \A n \in made : ~OnStack(n)' => direct[n] \subseteq Held'
                      /\ \A i \in 1..Len(stack) : Looked(i)' \subseteq Held'
    BY <1>1, <1>4 DEF Collected
  <2>1. Held \subseteq Held'
    BY <1>1, HeldStays
  <2>2. \A n \in made : ~OnStack(n)' => ~OnStack(n)
    BY <1>4, <1>6 DEF OnStack
  <2>3. ASSUME NEW i \in 1..Len(stack) PROVE Looked(i)' \subseteq Held'
    <3>1. CASE i = Len(stack)
      <4>1. stack'[i].node = Top.node /\ i \in 1..Len(stack')
        BY <1>4, <3>1 DEF Top
      <4>2. d \in Held'
        BY <1>1, <1>2, <4>1 DEF Held
      <4>3. Looked(i)' \subseteq Looked(i) \cup {d}
        BY <1>1, <1>4, <3>1, <4>1 DEF Looked, Top
      <4>4. QED
        BY <2>1, <4>2, <4>3 DEF Collected
    <3>2. CASE i # Len(stack)
      <4>1. i \in 1..(Len(stack) - 1)
        BY <1>4, <3>2
      <4>2. Looked(i)' = Looked(i)
        BY <1>1, <1>4, <4>1 DEF Looked
      <4>3. QED
        BY <2>1, <4>2 DEF Collected
    <3>3. QED
      BY <3>1, <3>2
  <2>4. QED
    BY <2>1, <2>2, <2>3 DEF Collected
<1>8. QED
  BY <1>3, <1>5, <1>7

\* A return leaves a node of which everything was come to.
LEMMA ReturnFirst ==
    ASSUME FirstInv, Return
    PROVE  Reached' /\ FromTheLast' /\ Collected'
<1> USE DEF FirstInv
<1>1. /\ stack # <<>> /\ direct' = direct /\ asked' = asked /\ made' = made
      /\ Top.todo = {}
      /\ \/ cache' = cache
         \/ cache' = [cache EXCEPT ![Below.node] = @ \cup cache[Top.node]]
  BY DEF Return
<1>2. Top.node \in Nodes /\ cache \in [Nodes -> SUBSET Nodes]
  BY <1>1, TopIsOnStack, TypeParts
<1>3. Reached'
  BY <1>1, <1>2 DEF Reached
<1>4. /\ Len(stack) \in Nat \ {0} /\ Len(stack') = Len(stack) - 1
      /\ stack' \in Seq(CallType)
      /\ \A i \in 1..(Len(stack) - 1) : stack'[i] = stack[i]
  BY Popped
<1>5. FromTheLast'
  <2>1. ASSUME stack' # <<>> PROVE stack'[1].node = stack[1].node
    <3>1. Len(stack') \in Nat \ {0}
      BY <1>4, <2>1, SeqElements
    <3>2. 1 \in 1..(Len(stack) - 1)
      BY <1>4, <3>1
    <3>3. QED
      BY <1>4, <3>2
  <2>2. QED
    BY <1>1, <2>1, BottomStays
<1>6. DOMAIN stack = 1..Len(stack) /\ DOMAIN stack' = 1..(Len(stack) - 1)
  <2>1. stack \in Seq(CallType)
    BY TypeParts
  <2>2. QED
    BY <1>4, <2>1, LenProperties
<1>7. Collected'
  <2> SUFFICES ASSUME Len(asked) = 1
               PROVE  /\ \A n \in made : ~OnStack(n)' => direct[n] \subseteq Held'
                      /\ \A i \in 1..(Len(stack) - 1) : Looked(i)' \subseteq Held'
    BY <1>1, <1>4 DEF Collected
  <2>1. Held \subseteq Held'
    BY <1>1, HeldStays
  <2>2. ASSUME NEW n \in made, ~OnStack(n)' PROVE direct[n] \subseteq Held'
    <3>1. CASE n = Top.node
      <4>1. Len(stack) \in 1..Len(stack) /\ Looked(Len(stack)) = direct[n]
        BY <1>1, <1>4, <3>1 DEF Looked, Top
      <4>2. QED
        BY <2>1, <4>1 DEF Collected
    <3>2. CASE n # Top.node
      <4>1. ASSUME NEW i \in DOMAIN stack PROVE stack[i].node # n
        <5>1. CASE i = Len(stack)
          BY <3>2, <5>1 DEF Top
        <5>2. CASE i # Len(stack)
          <6>1. i \in 1..(Len(stack) - 1)
            BY <1>4, <1>6, <5>2
          <6>2. QED
            BY <1>4, <1>6, <2>2, <6>1 DEF OnStack
        <5>3. QED
          BY <5>1, <5>2
      <4>2. QED
        BY <2>1, <4>1 DEF Collected, OnStack
    <3>3. QED
      BY <3>1, <3>2
  <2>3. ASSUME NEW i \in 1..(Len(stack) - 1) PROVE Looked(i)' \subseteq Held'
    <3>1. i \in 1..Len(stack) /\ Looked(i)' = Looked(i)
      BY <1>1, <1>4 DEF Looked
    <3>2. QED
      BY <2>1, <3>1 DEF Collected
  <2>4. QED
    BY <2>2, <2>3
<1>8. QED
  BY <1>3, <1>5, <1>7

\* Every step keeps what holds of the first call.
LEMMA NextFirst == FirstInv /\ [Next]_vars => FirstInv'
<1> SUFFICES ASSUME FirstInv, [Next]_vars PROVE FirstInv'
  OBVIOUS
<1>1. TypeOK'
  BY NextTyped DEF FirstInv
<1>2. CASE UNCHANGED vars
  BY <1>1, <1>2 DEF vars, FirstInv, Reached, FromTheLast, Collected, OnStack, Looked, Held
<1>3. ASSUME NEW n \in Nodes, Query(n) PROVE FirstInv'
  BY <1>1, <1>3, QueryFirst DEF FirstInv
<1>4. ASSUME NEW n \in Nodes, Descend(n) PROVE FirstInv'
  BY <1>1, <1>4, DescendFirst DEF FirstInv
<1>5. ASSUME NEW n \in Nodes, Copy(n) PROVE FirstInv'
  BY <1>1, <1>5, CopyFirst DEF FirstInv
<1>6. CASE Return
  BY <1>1, <1>6, ReturnFirst DEF FirstInv
<1>7. QED
  BY <1>2, <1>3, <1>4, <1>5, <1>6 DEF Next

\* The first call on an AST gives exactly what is used, directly or transitively,
\* however the messages recur: what it missed on the way back from a cycle is in a
\* cache that is still being filled (message.go:193-211).
THEOREM FirstComplete == Spec => []FirstAnswerComplete
<1>1. Init => FirstInv
  <2>1. Init => TypeOK
    BY InitSound
  <2>2. Init => Reached /\ FromTheLast /\ Collected
    BY DEF Init, Reached, FromTheLast, Collected
  <2>3. QED
    BY <2>1, <2>2 DEF FirstInv
<1>2. FirstInv /\ Sound => FirstAnswerComplete
  <2> SUFFICES ASSUME FirstInv, Sound, Len(asked) = 1, stack = <<>>
               PROVE  cache[asked[1]] = Uses(asked[1])
    BY DEF FirstAnswerComplete
  <2> DEFINE r == asked[1]
  <2>1. r \in made /\ r \in Nodes
    BY TypeParts DEF FirstInv, FromTheLast
  <2>2. Held = cache[r] /\ \A n \in made : ~OnStack(n)
    BY DEF Held, OnStack
  <2>3. \A n \in made : direct[n] \subseteq cache[r]
    BY <2>2 DEF FirstInv, Collected
  <2>4. cache[r] \subseteq made /\ cache[r] \in SUBSET Nodes
    BY <2>1, TypeParts DEF FirstInv, Reached
  <2>5. Closed(cache[r])
    BY <2>3, <2>4 DEF Closed
  <2>6. Uses(r) \subseteq cache[r]
    BY <2>1, <2>3, <2>4, <2>5, UsesAreLeast
  <2>7. QED
    BY <2>1, <2>6 DEF Sound
<1>3. QED
  BY <1>1, <1>2, NextFirst, CachesSound, PTL DEF Spec

-----------------------------------------------------------------------------
(* Messages that do not recur.                                             *)

\* What holds without recursion, all together.
AcyclicInv == TypeOK /\ Chain /\ Sound /\ Filled

\* The two conditions of Filled; the second is about the call at i.
FinishedFull == \A n \in Nodes : Finished(n) => Uses(n) \subseteq cache[n]

CallFull(i) ==
    \A d \in Looked(i) : /\ d \in cache[stack[i].node]
                         /\ \/ Uses(d) \subseteq cache[stack[i].node]
                            \/ i < Len(stack) /\ d = stack[i + 1].node

\* Filled by its parts.
LEMMA FilledParts ==
    Filled <=> (Acyclic => FinishedFull /\ \A i \in 1..Len(stack) : CallFull(i))
BY DEF Filled, FinishedFull, CallFull

\* Without recursion the walk meets no node that it is still working on.
LEMMA NotOnStack ==
    ASSUME TypeOK, Chain, Acyclic, stack # <<>>, NEW d \in direct[Top.node]
    PROVE  ~OnStack(d)
<1> DEFINE L == Len(stack)
<1>1. L \in Nat \ {0} /\ Top.node \in Nodes /\ d \in Nodes
  BY TopIsOnStack, StackNodes
<1>2. d \in Uses(Top.node) /\ Uses(d) \subseteq Uses(Top.node)
  BY <1>1, UsesAreTransitive
<1>3. ASSUME NEW i \in 1..L, stack[i].node = d PROVE FALSE
  <2>1. CASE i = L
    BY <1>1, <1>2, <1>3, <2>1 DEF Acyclic, Top
  <2>2. CASE i # L
    <3>1. Top.node \in Uses(d)
      BY <1>1, <1>3, <2>2 DEF Chain, Top
    <3>2. QED
      BY <1>1, <1>2, <3>1, UsesAreTransitive DEF Acyclic
  <2>3. QED
    BY <2>1, <2>2
<1>4. QED
  BY <1>3, StackNodes DEF OnStack

\* A call from outside has come to nothing yet.
LEMMA QueryFull ==
    ASSUME AcyclicInv, NEW n \in Nodes, Query(n), Acyclic
    PROVE  FinishedFull' /\ \A i \in 1..Len(stack') : CallFull(i)'
<1> USE DEF AcyclicInv
<1>1. /\ stack = <<>> /\ direct' = direct /\ cache' = cache /\ made' = made \cup {n}
  BY DEF Query
<1>2. FinishedFull /\ \A i \in 1..Len(stack) : CallFull(i)
  BY FilledParts
<1>3. CASE n \in made
  <2>1. stack' = stack /\ made' = made
    BY <1>1, <1>3 DEF Query
  <2>2. \A m \in Nodes : Finished(m)' => Finished(m)
    BY <2>1 DEF Finished, OnStack
  <2>3. FinishedFull'
    BY <1>1, <1>2, <2>2, UsesKept DEF FinishedFull
  <2>4. QED
    BY <1>1, <2>1, <2>3
<1>4. CASE n \notin made
  <2>1. stack' \in Seq(CallType) /\ Len(stack') = 1
    BY <1>4, Begun
  <2>2. stack'[1] = [node |-> n, todo |-> direct[n]]
    BY <1>4, Begun
  <2>3. DOMAIN stack' = 1..1 /\ stack'[1].node = n /\ stack'[1].todo = direct[n]
    BY <2>1, <2>2, SeqElements
  <2>4. \A m \in Nodes : Finished(m)' => Finished(m)
    BY <1>1, <2>3 DEF Finished, OnStack
  <2>5. FinishedFull'
    BY <1>1, <1>2, <2>4, UsesKept DEF FinishedFull
  <2>6. ASSUME NEW i \in 1..Len(stack') PROVE CallFull(i)'
    <3>1. i = 1
      BY <2>1
    <3>2. Looked(i)' = {}
      BY <1>1, <2>3, <3>1 DEF Looked
    <3>3. QED
      BY <3>2 DEF CallFull
  <2>7. QED
    BY <2>5, <2>6
<1>5. QED
  BY <1>3, <1>4

\* A recursive call is on the use that the node below lacks the uses of.
LEMMA DescendFull ==
    ASSUME AcyclicInv, NEW d \in Nodes, Descend(d), Acyclic
    PROVE  FinishedFull' /\ \A i \in 1..Len(stack') : CallFull(i)'
<1> USE DEF AcyclicInv
<1> DEFINE L == Len(stack)
<1>1. /\ stack # <<>> /\ direct' = direct /\ made' = made \cup {d} /\ d \notin made
      /\ cache' = [cache EXCEPT ![Top.node] = @ \cup {d}]
  BY DEF Descend
<1>2. Top.node \in Nodes /\ cache \in [Nodes -> SUBSET Nodes]
  BY <1>1, TopIsOnStack, TypeParts
<1>3. FinishedFull /\ \A i \in 1..L : CallFull(i)
  BY FilledParts
<1>4. /\ L \in Nat \ {0} /\ Len(stack') = L + 1
      /\ \A i \in 1..L : stack'[i].node = stack[i].node
      /\ \A i \in 1..(L - 1) : stack'[i] = stack[i]
      /\ stack'[L].todo = Top.todo \ {d}
  BY Pushed
<1>5. stack'[L + 1].node = d /\ stack'[L + 1].todo = direct[d]
  <2>1. stack'[L + 1] = [node |-> d, todo |-> direct[d]]
    BY Pushed
  <2>2. QED
    BY <2>1
<1>6. DOMAIN stack = 1..L /\ DOMAIN stack' = 1..(L + 1)
  <2>1. stack \in Seq(CallType) /\ stack' \in Seq(CallType)
    BY Pushed, TypeParts
  <2>2. QED
    BY <1>4, <2>1, LenProperties
<1>7. \A i \in 1..L : stack[i].node \in Nodes /\ direct[stack[i].node] \subseteq Nodes
  BY StackNodes
<1>8. \A m \in Nodes : cache[m] \subseteq cache'[m]
  BY <1>1, <1>2
<1>9. FinishedFull'
  <2>1. L + 1 \in DOMAIN stack' /\ \A i \in DOMAIN stack : i \in DOMAIN stack' /\ i \in 1..L
    BY <1>4, <1>6
  <2>2. \A m \in Nodes : Finished(m)' => Finished(m)
    BY <1>1, <1>4, <1>5, <2>1 DEF Finished, OnStack
  <2>3. QED
    BY <1>1, <1>3, <1>8, <2>2, UsesKept DEF FinishedFull
<1>10. ASSUME NEW i \in 1..(L + 1) PROVE CallFull(i)'
  <2>1. CASE i = L + 1
    <3>1. Looked(i)' = {}
      BY <1>1, <1>5, <2>1 DEF Looked
    <3>2. QED
      BY <3>1 DEF CallFull
  <2>2. CASE i = L
    <3>1. i \in 1..L /\ stack'[i].node = stack[i].node /\ stack[i].node = Top.node
      BY <1>4, <2>2 DEF Top
    <3>2. Looked(i)' \subseteq Looked(i) \cup {d}
      BY <1>1, <1>4, <2>2, <3>1 DEF Looked, Top
    <3>3. d \in cache'[stack[i].node] /\ i < Len(stack') /\ d = stack'[i + 1].node
      BY <1>1, <1>2, <1>4, <1>5, <2>2, <3>1
    <3>4. ASSUME NEW e \in Looked(i)
          PROVE  /\ e \in cache'[stack[i].node] /\ e \in Nodes
                 /\ Uses(e) \subseteq cache'[stack[i].node]
      BY <1>3, <1>4, <1>7, <1>8, <2>2, <3>1 DEF CallFull, Looked
    <3>5. QED
      BY <1>1, <3>1, <3>2, <3>3, <3>4, UsesKept DEF CallFull
  <2>3. CASE i # L /\ i # L + 1
    <3>1. /\ i \in 1..L /\ i \in 1..(L - 1) /\ i + 1 \in 1..L
          /\ i < L /\ i < L + 1
      BY <1>4, <2>3
    <3>2. Looked(i)' = Looked(i)
      BY <1>1, <1>4, <3>1 DEF Looked
    <3>3. ASSUME NEW e \in Looked(i)
          PROVE  /\ e \in cache'[stack[i].node] /\ e \in Nodes
                 /\ Uses(e) \subseteq cache'[stack[i].node] \/ e = stack'[i + 1].node
      BY <1>3, <1>4, <1>7, <1>8, <3>1 DEF CallFull, Looked
    <3>4. QED
      BY <1>1, <1>4, <3>1, <3>2, <3>3, UsesKept DEF CallFull
  <2>4. QED
    BY <2>1, <2>2, <2>3
<1>11. QED
  BY <1>4, <1>9, <1>10

\* A cache that is copied is finished, and so complete.
LEMMA CopyFull ==
    ASSUME AcyclicInv, NEW d \in Nodes, Copy(d), Acyclic
    PROVE  FinishedFull' /\ \A i \in 1..Len(stack') : CallFull(i)'
<1> USE DEF AcyclicInv
<1> DEFINE L == Len(stack)
<1>1. /\ stack # <<>> /\ direct' = direct /\ made' = made /\ d \in made
      /\ cache' = [cache EXCEPT ![Top.node] = @ \cup {d} \cup cache[d]]
      /\ d \in Top.todo
  BY DEF Copy
<1>2. /\ Top.node \in Nodes /\ cache \in [Nodes -> SUBSET Nodes]
      /\ d \in direct[Top.node]
  BY <1>1, TopIsOnStack, TypeParts
<1>3. FinishedFull /\ \A i \in 1..L : CallFull(i)
  BY FilledParts
<1>4. /\ L \in Nat \ {0} /\ Len(stack') = L
      /\ \A i \in 1..L : stack'[i].node = stack[i].node
      /\ \A i \in 1..(L - 1) : stack'[i] = stack[i]
      /\ stack'[L].todo = Top.todo \ {d}
  BY Copied
<1>5. DOMAIN stack = 1..L /\ DOMAIN stack' = 1..L
  <2>1. stack \in Seq(CallType) /\ stack' \in Seq(CallType)
    BY Copied, TypeParts
  <2>2. QED
    BY <1>4, <2>1, LenProperties
<1>6. \A i \in 1..L : stack[i].node \in Nodes /\ direct[stack[i].node] \subseteq Nodes
  BY StackNodes
<1>7. \A m \in Nodes : cache[m] \subseteq cache'[m]
  BY <1>1, <1>2
<1>8. Uses(d) \subseteq cache[d]
  <2>1. Finished(d)
    BY <1>1, <1>2, NotOnStack DEF Finished
  <2>2. QED
    BY <1>3, <2>1 DEF FinishedFull
<1>9. FinishedFull'
  <2>1. \A m \in Nodes : Finished(m)' => Finished(m)
    BY <1>1, <1>4, <1>5 DEF Finished, OnStack
  <2>2. QED
    BY <1>1, <1>3, <1>7, <2>1, UsesKept DEF FinishedFull
<1>10. ASSUME NEW i \in 1..L PROVE CallFull(i)'
  <2>1. CASE i = L
    <3>1. stack'[i].node = stack[i].node /\ stack[i].node = Top.node
      BY <1>4, <2>1 DEF Top
    <3>2. Looked(i)' \subseteq Looked(i) \cup {d}
      BY <1>1, <1>4, <2>1, <3>1 DEF Looked, Top
    <3>3. d \in cache'[stack[i].node] /\ Uses(d) \subseteq cache'[stack[i].node]
      BY <1>1, <1>2, <1>8, <3>1
    <3>4. ASSUME NEW e \in Looked(i)
          PROVE  /\ e \in cache'[stack[i].node] /\ e \in Nodes
                 /\ Uses(e) \subseteq cache'[stack[i].node]
      BY <1>3, <1>4, <1>6, <1>7, <2>1, <3>1 DEF CallFull, Looked
    <3>5. QED
      BY <1>1, <3>1, <3>2, <3>3, <3>4, UsesKept DEF CallFull
  <2>2. CASE i # L
    <3>1. i \in 1..(L - 1) /\ i + 1 \in 1..L /\ i < L
      BY <1>4, <2>2
    <3>2. Looked(i)' = Looked(i)
      BY <1>1, <1>4, <3>1 DEF Looked
    <3>3. ASSUME NEW e \in Looked(i)
          PROVE  /\ e \in cache'[stack[i].node] /\ e \in Nodes
                 /\ Uses(e) \subseteq cache'[stack[i].node] \/ e = stack'[i + 1].node
      BY <1>3, <1>4, <1>6, <1>7, <3>1 DEF CallFull, Looked
    <3>4. QED
      BY <1>1, <1>4, <3>1, <3>2, <3>3, UsesKept DEF CallFull
  <2>3. QED
    BY <2>1, <2>2
<1>11. QED
  BY <1>4, <1>9, <1>10

\* A node is through when it has all its uses with theirs: its cache is complete.
LEMMA ReturnFull ==
    ASSUME AcyclicInv, Return, Acyclic
    PROVE  FinishedFull' /\ \A i \in 1..Len(stack') : CallFull(i)'
<1> USE DEF AcyclicInv
<1> DEFINE L == Len(stack)
<1>1. /\ stack # <<>> /\ direct' = direct /\ made' = made /\ Top.todo = {}
      /\ cache' = IF L = 1 THEN cache
                  ELSE [cache EXCEPT ![Below.node] = @ \cup cache[Top.node]]
  BY DEF Return
<1>2. Top.node \in Nodes /\ cache \in [Nodes -> SUBSET Nodes]
  BY <1>1, TopIsOnStack, TypeParts
<1>3. FinishedFull /\ \A i \in 1..L : CallFull(i)
  BY FilledParts
<1>4. /\ L \in Nat \ {0} /\ Len(stack') = L - 1
      /\ stack' \in Seq(CallType)
      /\ \A i \in 1..(L - 1) : stack'[i] = stack[i]
  BY Popped
<1>5. DOMAIN stack = 1..L /\ DOMAIN stack' = 1..(L - 1)
  <2>1. stack \in Seq(CallType)
    BY TypeParts
  <2>2. QED
    BY <1>4, <2>1, LenProperties
<1>6. \A i \in 1..L : stack[i].node \in Nodes /\ direct[stack[i].node] \subseteq Nodes
  BY StackNodes
<1>7. \A m \in Nodes : cache[m] \subseteq cache'[m]
  BY <1>1, <1>2
<1>8. Uses(Top.node) \subseteq cache[Top.node]
  <2>1. L \in 1..L /\ Looked(L) = direct[Top.node]
    BY <1>1, <1>4 DEF Looked, Top
  <2>2. \A d \in direct[Top.node] : d \in cache[Top.node] /\ Uses(d) \subseteq cache[Top.node]
    BY <1>3, <1>4, <2>1 DEF CallFull, Top
  <2>3. cache[Top.node] \in SUBSET Nodes
    BY <1>2
  <2>4. QED
    BY <1>2, <2>2, <2>3, UsesStep
<1>9. FinishedFull'
  <2>1. ASSUME NEW m \in Nodes, Finished(m)' PROVE Uses(m) \subseteq cache[m]
    <3>1. CASE m = Top.node
      BY <1>8, <3>1
    <3>2. CASE m # Top.node
      <4>1. ASSUME NEW i \in DOMAIN stack PROVE stack[i].node # m
        <5>1. CASE i = L
          BY <3>2, <5>1 DEF Top
        <5>2. CASE i # L
          <6>1. i \in 1..(L - 1)
            BY <1>4, <1>5, <5>2
          <6>2. QED
            BY <1>4, <1>5, <2>1, <6>1 DEF Finished, OnStack
        <5>3. QED
          BY <5>1, <5>2
      <4>2. QED
        BY <1>1, <1>3, <2>1, <4>1 DEF FinishedFull, Finished, OnStack
    <3>3. QED
      BY <3>1, <3>2
  <2>2. QED
    BY <1>1, <1>7, <2>1, UsesKept DEF FinishedFull
<1>10. ASSUME NEW i \in 1..(L - 1) PROVE CallFull(i)'
  <2>1. i \in 1..L /\ i + 1 \in 1..L /\ i < L
    BY <1>4
  <2>2. Looked(i)' = Looked(i) /\ stack'[i].node = stack[i].node
    BY <1>1, <1>4 DEF Looked
  <2>3. CASE i = L - 1
    <3>1. /\ L # 1 /\ i + 1 = L /\ Below.node = stack[i].node /\ Top.node = stack[i + 1].node
      BY <1>4, <2>3 DEF Below, Top
    <3>2. cache[Top.node] \subseteq cache'[stack[i].node]
      BY <1>1, <1>2, <1>6, <2>1, <3>1
    <3>3. ASSUME NEW e \in Looked(i)
          PROVE  /\ e \in cache'[stack[i].node] /\ e \in Nodes
                 /\ Uses(e) \subseteq cache'[stack[i].node]
      BY <1>3, <1>6, <1>7, <1>8, <2>1, <3>1, <3>2 DEF CallFull, Looked
    <3>4. QED
      BY <1>1, <2>2, <3>3, UsesKept DEF CallFull
  <2>4. CASE i # L - 1
    <3>1. i + 1 \in 1..(L - 1) /\ i < L - 1
      BY <1>4, <2>4
    <3>2. ASSUME NEW e \in Looked(i)
          PROVE  /\ e \in cache'[stack[i].node] /\ e \in Nodes
                 /\ Uses(e) \subseteq cache'[stack[i].node] \/ e = stack'[i + 1].node
      BY <1>3, <1>4, <1>6, <1>7, <2>1, <3>1 DEF CallFull, Looked
    <3>3. QED
      BY <1>1, <1>4, <2>2, <3>1, <3>2, UsesKept DEF CallFull
  <2>5. QED
    BY <2>3, <2>4
<1>11. QED
  BY <1>4, <1>9, <1>10

\* Every step keeps what holds without recursion.
LEMMA NextAcyclic == AcyclicInv /\ [Next]_vars => AcyclicInv'
<1> SUFFICES ASSUME AcyclicInv, [Next]_vars PROVE AcyclicInv'
  OBVIOUS
<1>1. TypeOK' /\ Chain' /\ Sound'
  BY NextTyped, NextSound DEF AcyclicInv
<1>2. Acyclic' <=> Acyclic
  <2>1. direct' = direct
    BY DEF Next, vars, Query, Descend, Copy, Return
  <2>2. QED
    BY <2>1, UsesKept
<1>3. Filled'
  <2> SUFFICES ASSUME Acyclic
               PROVE  FinishedFull' /\ \A i \in 1..Len(stack') : CallFull(i)'
    BY <1>2 DEF Filled, FinishedFull, CallFull
  <2>1. CASE UNCHANGED vars
    <3>1. direct' = direct /\ cache' = cache /\ made' = made /\ stack' = stack
      BY <2>1 DEF vars
    <3>2. FinishedFull /\ \A i \in 1..Len(stack) : CallFull(i)
      BY FilledParts DEF AcyclicInv
    <3>3. FinishedFull'
      BY <3>1, <3>2, UsesKept DEF FinishedFull, Finished, OnStack
    <3>4. ASSUME NEW i \in 1..Len(stack) PROVE CallFull(i)'
      <4>1. Looked(i)' = Looked(i) /\ Looked(i) \subseteq Nodes
        BY <3>1, StackNodes DEF Looked, AcyclicInv
      <4>2. QED
        BY <3>1, <3>2, <4>1, UsesKept DEF CallFull
    <3>5. QED
      BY <3>1, <3>3, <3>4
  <2>2. ASSUME NEW n \in Nodes, Query(n) \/ Descend(n) \/ Copy(n)
        PROVE  FinishedFull' /\ \A i \in 1..Len(stack') : CallFull(i)'
    BY <2>2, QueryFull, DescendFull, CopyFull
  <2>3. CASE Return
    BY <2>3, ReturnFull
  <2>4. QED
    BY <2>1, <2>2, <2>3 DEF Next
<1>4. QED
  BY <1>1, <1>3 DEF AcyclicInv

\* Among messages that do not recur every cache is complete when its call is
\* through, in whatever order and however often messages are asked
\* (message.go:201-211).
THEOREM AcyclicComplete == Spec => []CompleteIfAcyclic
<1>1. Init => AcyclicInv
  <2>1. Init => Filled
    BY DEF Init, Filled, Finished
  <2>2. QED
    BY <2>1, InitSound DEF AcyclicInv
<1>2. AcyclicInv => CompleteIfAcyclic
  BY DEF AcyclicInv, Filled, Sound, CompleteIfAcyclic
<1>3. QED
  BY <1>1, <1>2, NextAcyclic, PTL DEF Spec
=============================================================================
