------------------------------ MODULE TourProofs ------------------------------
(* Theorems about the walks of Tour and the comments they find, for every  *)
(* tree, any locations of a file and any visitors.                         *)
EXTENDS Tour, SequenceLemmas

Frames == [node : Nodes \cup {Nil}, todo : Seq(Nodes), v : Visitors \cup {Nil}]
Visits == [node : Nodes, by : Visitors, got : Visitors \cup {Nil, "error"}]

-----------------------------------------------------------------------------
(* The tree and the stack.                                                 *)

\* What an accept method goes through is a list of nodes.
LEMMA ChildrenType == Children \in [Nodes -> Seq(Nodes)]
<1> SUFFICES ASSUME NEW n \in Nodes PROVE Children[n] \in Seq(Nodes)
  BY Zenon DEF Children
<1>1. \A l \in Lists : Decl[n][l] \in Seq(Nodes)
  BY NodesAssumption
<1>2. /\ Decl[n].files \in Seq(Nodes) /\ Decl[n].enums \in Seq(Nodes)
      /\ Decl[n].msgs \in Seq(Nodes) /\ Decl[n].fields \in Seq(Nodes)
      /\ Decl[n].oneofs \in Seq(Nodes) /\ Decl[n].srvs \in Seq(Nodes)
      /\ Decl[n].vals \in Seq(Nodes) /\ Decl[n].methods \in Seq(Nodes)
      /\ Decl[n].defExts \in Seq(Nodes)
  BY <1>1 DEF Lists
<1>3. FileLoops(Decl[n]) \in Seq(Nodes) /\ MessageLoops(Decl[n]) \in Seq(Nodes)
  BY <1>2 DEF FileLoops, MessageLoops
<1>4. <<>> \in Seq(Nodes)
  OBVIOUS
<1> HIDE DEF FileLoops, MessageLoops
<1>5. QED
  BY <1>2, <1>3, <1>4 DEF Children

\* The frame on top, and the stack once that frame has gone on.
LEMMA TopFrame ==
    ASSUME WalkTypeOK, stack # <<>>
    PROVE  /\ stack \in Seq(Frames)
           /\ Len(stack) \in Nat \ {0} /\ DOMAIN stack = 1..Len(stack)
           /\ Top \in Frames /\ Top = stack[Len(stack)]
           /\ Top.todo # <<>> =>
                /\ Head(Top.todo) \in Nodes /\ Tail(Top.todo) \in Seq(Nodes)
                /\ Head(Top.todo) \in ToSet(Top.todo)
                /\ ToSet(Tail(Top.todo)) \subseteq ToSet(Top.todo)
<1>1. /\ stack \in Seq(Frames) /\ Len(stack) \in Nat \ {0}
      /\ DOMAIN stack = 1..Len(stack)
  BY LenProperties, EmptySeq DEF WalkTypeOK, Frames
<1>2. Top \in Frames /\ Top = stack[Len(stack)]
  BY <1>1 DEF Top
<1>3. ASSUME NEW s \in Seq(Nodes), s # <<>>
      PROVE  /\ Head(s) \in Nodes /\ Tail(s) \in Seq(Nodes)
             /\ Head(s) \in ToSet(s)
             /\ ToSet(Tail(s)) \subseteq ToSet(s)
  <2>1. Len(s) \in Nat \ {0} /\ DOMAIN s = 1..Len(s)
    BY <1>3, LenProperties, EmptySeq
  <2>2. /\ Tail(s) \in Seq(Nodes) /\ Len(Tail(s)) = Len(s) - 1
        /\ \A i \in 1..(Len(s) - 1) : Tail(s)[i] = s[i + 1]
        /\ Head(s) = s[1] /\ DOMAIN Tail(s) = 1..(Len(s) - 1)
    BY <1>3, <2>1, HeadTailProperties
  <2>3. \A i \in 1..(Len(s) - 1) : i + 1 \in DOMAIN s
    BY <2>1
  <2>4. QED
    BY <2>1, <2>2, <2>3 DEF ToSet
<1>4. Top.todo \in Seq(Nodes)
  BY <1>2 DEF Frames
<1>5. QED
  BY <1>1, <1>2, <1>3, <1>4

LEMMA RestOfStack ==
    ASSUME WalkTypeOK, stack # <<>>, Top.todo # <<>>
    PROVE  /\ Rest \in Seq(Frames) /\ Len(Rest) = Len(stack)
           /\ \A k \in 1..(Len(stack) - 1) : Rest[k] = stack[k]
           /\ Rest[Len(stack)] = [Top EXCEPT !.todo = Tail(@)]
           /\ [Top EXCEPT !.todo = Tail(@)] \in Frames
<1>1. [Top EXCEPT !.todo = Tail(@)] \in Frames
  BY TopFrame DEF Frames
<1>2. Rest = [stack EXCEPT ![Len(stack)] = [Top EXCEPT !.todo = Tail(@)]]
  BY DEF Rest, Top
<1>3. QED
  BY <1>1, <1>2, TopFrame

\* The stack once the accept on top has returned.
LEMMA PopStack ==
    ASSUME WalkTypeOK, stack # <<>>, Pop
    PROVE  /\ stack' \in Seq(Frames) /\ Len(stack') = Len(stack) - 1
           /\ DOMAIN stack' = 1..(Len(stack) - 1)
           /\ \A k \in DOMAIN stack' : stack'[k] = stack[k]
<1>1. \A k \in 1..(Len(stack) - 1) : stack[k] \in Frames
  BY TopFrame
<1>2. QED
  BY <1>1, TopFrame, SubSeqProperties DEF Pop

\* A visit is added to the log.
LEMMA LogGrows ==
    ASSUME WalkTypeOK, NEW n \in Nodes, Calls(n),
           NEW got \in Visitors \cup {Nil, "error"}, Visited(n, got)
    PROVE  LET e == [node |-> n, by |-> Top.v, got |-> got]
           IN /\ log' \in Seq(Visits) /\ Len(log) \in Nat
              /\ DOMAIN log = 1..Len(log) /\ DOMAIN log' = 1..(Len(log) + 1)
              /\ Len(log') = Len(log) + 1
              /\ \A i \in DOMAIN log : log'[i] = log[i]
              /\ log'[Len(log) + 1] = e /\ log' # <<>>
              /\ log'[Len(log) + 1].node = n /\ log'[Len(log) + 1].got = got
              /\ n = Head(Top.todo) /\ stack # <<>> /\ Top.todo # <<>>
<1> DEFINE e == [node |-> n, by |-> Top.v, got |-> got]
<1>1. Top \in Frames /\ Top.v # Nil
  BY TopFrame DEF Calls
<1>2. e \in Visits
  BY <1>1 DEF Frames, Visits
<1>3. log \in Seq(Visits) /\ log' = Append(log, e)
  BY DEF WalkTypeOK, Visits, Visited
<1>4. log' # <<>>
  BY <1>2, <1>3
<1>5. e.node = n /\ e.got = got
  OBVIOUS
<1> HIDE DEF e
<1>6. log'[Len(log) + 1] = e
  BY <1>2, <1>3, LenProperties
<1>7. log'[Len(log) + 1].node = n /\ log'[Len(log) + 1].got = got
  BY <1>5, <1>6
<1>8. QED
  BY <1>2, <1>3, <1>4, <1>6, <1>7, LenProperties DEF Calls, e

-----------------------------------------------------------------------------
(* The types.                                                              *)

\* An accept that is called keeps the types.
LEMMA VisitType ==
    ASSUME WalkTypeOK, NEW n \in Nodes,
           \/ Skip(n) \/ VisitFails(n) \/ \E v \in Visitors : Descend(n, v)
    PROVE  WalkTypeOK'
<1>1. CASE Skip(n)
  <2>1. Calls(n) /\ Visited(n, Nil) /\ stack' = Rest /\ err' = err
    BY <1>1 DEF Skip
  <2>2. log' \in Seq(Visits) /\ stack' \in Seq(Frames)
    BY <2>1, LogGrows, RestOfStack
  <2>3. QED
    BY <2>1, <2>2 DEF WalkTypeOK, Visited, Frames, Visits
<1>2. CASE VisitFails(n)
  <2>1. Calls(n) /\ Visited(n, "error") /\ stack' = Rest /\ err' = TRUE
    BY <1>2 DEF VisitFails
  <2>2. log' \in Seq(Visits) /\ stack' \in Seq(Frames)
    BY <2>1, LogGrows, RestOfStack
  <2>3. QED
    BY <2>1, <2>2 DEF WalkTypeOK, Visited, Frames, Visits
<1>3. ASSUME NEW v \in Visitors, Descend(n, v)
      PROVE  WalkTypeOK'
  <2>1. /\ Calls(n) /\ Visited(n, v) /\ err' = err
        /\ stack' = Append(Rest, Frame(n, v))
    BY <1>3 DEF Descend
  <2>2. log' \in Seq(Visits) /\ Rest \in Seq(Frames)
    BY <2>1, LogGrows, RestOfStack
  <2>3. Frame(n, v) \in Frames
    BY ChildrenType DEF Frame, Frames
  <2>4. stack' \in Seq(Frames)
    BY <2>1, <2>2, <2>3
  <2>5. QED
    BY <2>1, <2>2, <2>4 DEF WalkTypeOK, Visited, Frames, Visits
<1>4. QED
  BY <1>1, <1>2, <1>3

\* Every step of the walk keeps the types.
LEMMA WalkType == WalkTypeOK /\ [WalkNext]_walkVars => WalkTypeOK'
<1> SUFFICES ASSUME WalkTypeOK, [WalkNext]_walkVars PROVE WalkTypeOK'
  OBVIOUS
<1>1. ASSUME NEW n \in Nodes, NEW v \in Visitors \cup {Nil}, Call(n, v)
      PROVE  WalkTypeOK'
  <2>1. [node |-> Nil, todo |-> <<n>>, v |-> v] \in Frames
    BY DEF Frames
  <2>2. stack' \in Seq(Frames)
    BY <1>1, <2>1 DEF Call
  <2>3. QED
    BY <1>1, <2>2 DEF WalkTypeOK, Call, Frames
<1>2. CASE NoVisitor
  <2>1. stack # <<>> /\ Top.todo # <<>> /\ stack' = Rest
        /\ UNCHANGED <<root, start, err, log, result>>
    BY <1>2 DEF NoVisitor
  <2>2. stack' \in Seq(Frames)
    BY <2>1, RestOfStack
  <2>3. QED
    BY <2>1, <2>2 DEF WalkTypeOK, Frames
<1>3. CASE Return \/ Unwind
  <2>1. stack # <<>> /\ Pop /\ UNCHANGED <<root, start, err, log>>
    BY <1>3 DEF Return, Unwind
  <2>2. stack' \in Seq(Frames)
    BY <2>1, PopStack
  <2>3. result' \in {"none", "walking", "ok", "error"}
    BY <2>1 DEF Pop, WalkTypeOK
  <2>4. QED
    BY <2>1, <2>2, <2>3 DEF WalkTypeOK, Frames
<1>4. CASE UNCHANGED walkVars
  BY <1>4 DEF walkVars, WalkTypeOK
<1>5. QED
  BY <1>1, <1>2, <1>3, <1>4, VisitType DEF WalkNext

\* Every location keeps the types of the infos.
LEMMA InfoType == InfoTypeOK /\ [InfoNext]_infoVars => InfoTypeOK'
<1> SUFFICES ASSUME InfoTypeOK, [InfoNext]_infoVars PROVE InfoTypeOK'
  OBVIOUS
<1>1. ASSUME NEW path \in Paths \cup {Root}, Locate(path)
      PROVE  InfoTypeOK'
  <2>1. path \in Infos
    BY DEF Infos
  <2>2. info' \in [Entities -> Infos]
    BY <1>1, <2>1 DEF Locate, InfoWith, InfoTypeOK
  <2>3. /\ seen' \subseteq Paths \cup {Root}
        /\ syntaxInfo' \in Infos /\ packageInfo' \in Infos
    BY <1>1, <2>1 DEF Locate, InfoTypeOK
  <2>4. QED
    BY <2>2, <2>3 DEF InfoTypeOK
<1>2. CASE UNCHANGED infoVars
  BY <1>2 DEF infoVars, InfoTypeOK
<1>3. QED
  BY <1>1, <1>2 DEF InfoNext, First, Other

\* Of a step of Tour, the walk sees its own part.
LEMMA TourStep == [Next]_vars => [WalkNext]_walkVars /\ [InfoNext]_infoVars
BY DEF Next, Hydrate, Visit, vars, walkVars, infoVars

LEMMA TourInit == Init => InfoTypeOK /\ WalkTypeOK
<1> SUFFICES ASSUME Init PROVE InfoTypeOK /\ WalkTypeOK
  OBVIOUS
<1>1. InfoTypeOK
  BY DEF Init, InfoInit, InfoTypeOK, Infos
<1>2. WalkTypeOK
  <2>1. \A S : <<>> \in Seq(S)
    OBVIOUS
  <2>2. QED
    BY <2>1 DEF Init, WalkInit, WalkTypeOK
<1>3. QED
  BY <1>1, <1>2

\* hydrateSourceCodeInfo and the accept methods keep the types of the state: in
\* particular a frame of a walk only ever holds nodes of the tree.
THEOREM TypeCorrect == Spec => []TypeOK
<1>1. Init => TypeOK
  BY TourInit DEF TypeOK
<1>2. TypeOK /\ [Next]_vars => TypeOK'
  BY TourStep, WalkType, InfoType DEF TypeOK
<1>3. QED
  BY <1>1, <1>2, PTL DEF Spec

-----------------------------------------------------------------------------
(* Errors.                                                                 *)

\* Every step of the walk: an error is returned from when a visit returns it.
LEMMA HaltStep == HaltInv /\ [WalkNext]_walkVars => HaltInv'
<1> SUFFICES ASSUME HaltInv, [WalkNext]_walkVars, WalkTypeOK' PROVE HaltInv'
  BY WalkType DEF HaltInv
<1>0. WalkTypeOK
  BY DEF HaltInv
<1>1. ASSUME NEW n \in Nodes, NEW v \in Visitors \cup {Nil}, Call(n, v)
      PROVE  HaltInv'
  BY <1>1 DEF Call, HaltInv
<1>2. ASSUME NEW n \in Nodes, NEW got \in Visitors \cup {Nil, "error"},
             Calls(n), Visited(n, got), err' <=> got = "error"
      PROVE  HaltInv'
  <2>1. /\ Len(log) \in Nat /\ DOMAIN log = 1..Len(log)
        /\ DOMAIN log' = 1..(Len(log) + 1) /\ Len(log') = Len(log) + 1
        /\ \A i \in DOMAIN log : log'[i] = log[i]
        /\ log'[Len(log) + 1].got = got /\ log' # <<>>
    <3>1. /\ log' \in Seq(Visits) /\ Len(log) \in Nat /\ Len(log') = Len(log) + 1
          /\ DOMAIN log = 1..Len(log) /\ DOMAIN log' = 1..(Len(log) + 1)
          /\ \A i \in DOMAIN log : log'[i] = log[i]
          /\ log'[Len(log) + 1] = [node |-> n, by |-> Top.v, got |-> got]
      BY <1>0, <1>2, LogGrows
    <3>2. QED
      BY <1>0, <1>2, <3>1, LogGrows
  <2>2. ~err /\ stack # <<>> /\ result' = result
    BY <1>2 DEF Calls, Visited
  <2>3. \A i \in DOMAIN log : log[i].got # "error"
    BY <2>1, <2>2 DEF HaltInv
  <2>4. result \notin {"none", "ok", "error"}
    BY <2>2 DEF HaltInv
  <2>5. \A i \in DOMAIN log' : log'[i].got = "error" => i = Len(log')
    BY <2>1, <2>3
  <2>6. err' <=> log' # <<>> /\ log'[Len(log')].got = "error"
    BY <1>2, <2>1
  <2>7. QED
    BY <2>2, <2>4, <2>5, <2>6 DEF HaltInv
<1>3. ASSUME NEW n \in Nodes,
             \/ Skip(n) \/ VisitFails(n) \/ \E v \in Visitors : Descend(n, v)
      PROVE  HaltInv'
  <2>1. Calls(n)
    BY <1>3 DEF Skip, VisitFails, Descend
  <2>2. ~err
    BY <2>1 DEF Calls
  <2>3. \E got \in Visitors \cup {Nil, "error"} :
           Visited(n, got) /\ (err' <=> got = "error")
    BY <1>3, <2>2, VisitorsAssumption DEF Skip, VisitFails, Descend
  <2>4. QED
    BY <1>2, <2>1, <2>3
<1>4. CASE NoVisitor
  <2>1. stack # <<>> /\ UNCHANGED <<root, start, err, log, result>>
    BY <1>4 DEF NoVisitor
  <2>2. QED
    BY <2>1 DEF HaltInv
<1>5. CASE Return \/ Unwind
  <2>1. stack # <<>> /\ Pop /\ UNCHANGED <<root, start, err, log>>
    BY <1>5 DEF Return, Unwind
  <2>2. /\ Len(stack') = Len(stack) - 1 /\ Len(stack) \in Nat \ {0}
        /\ stack' \in Seq(Frames)
    BY <1>0, <2>1, PopStack, TopFrame
  <2>3. result \notin {"none", "ok", "error"}
    BY <2>1 DEF HaltInv
  <2>4. CASE Len(stack) > 1
    <3>1. result' = result
      BY <2>1, <2>4 DEF Pop
    <3>2. QED
      BY <2>1, <2>3, <3>1 DEF HaltInv
  <2>5. CASE ~(Len(stack) > 1)
    <3>1. Len(stack') = 0
      BY <2>2, <2>5
    <3>2. stack' = <<>>
      BY <2>2, <3>1, EmptySeq
    <3>3. result' = IF err THEN "error" ELSE "ok"
      BY <2>1, <2>5 DEF Pop
    <3>4. QED
      BY <2>1, <3>2, <3>3 DEF HaltInv
  <2>6. QED
    BY <2>4, <2>5
<1>6. CASE UNCHANGED walkVars
  BY <1>6 DEF walkVars, HaltInv
<1>7. QED
  BY <1>1, <1>3, <1>4, <1>5, <1>6 DEF WalkNext

\* Before the walk there is neither a visit nor an error.
LEMMA HaltInit == Init => HaltInv
<1> SUFFICES ASSUME Init PROVE HaltInv
  OBVIOUS
<1>1. DOMAIN log = {}
  BY DEF Init, WalkInit
<1>2. QED
  BY <1>1, TourInit DEF HaltInv, Init, WalkInit

\* The accept methods: an error of a visit, at whatever depth, is the last thing
\* that happens in a walk, and what Walk returns.
THEOREM ErrorsHalt == Spec => []ErrorHalts
<1>1. HaltInv /\ [Next]_vars => HaltInv'
  BY TourStep, HaltStep
<1>2. HaltInv => ErrorHalts
  BY DEF HaltInv, ErrorHalts, Last
<1>3. QED
  BY HaltInit, <1>1, <1>2, PTL DEF Spec

-----------------------------------------------------------------------------
(* Whose visitor visits a node.                                            *)

\* What the frame at k has to be, with any log.
OriginAt(k) ==
    LET f == stack[k]
    IN \/ /\ k = 1 /\ f.node = Nil /\ f.v = start
          /\ f.todo = <<>> \/ (log = <<>> /\ f.todo = <<root>>)
       \/ \E i \in DOMAIN log : /\ f.node = log[i].node /\ f.v = log[i].got
                                /\ ToSet(f.todo) \subseteq ToSet(Children[f.node])

\* A frame that stays as it is, or goes on, keeps its origin when the log grows:
\* the call of Walk has nothing left by then.
LEMMA OriginKept ==
    ASSUME WalkTypeOK, NEW n \in Nodes, Calls(n), FrameOrigin,
           NEW got \in Visitors \cup {Nil, "error"}, Visited(n, got),
           NEW k \in DOMAIN stack, k \in DOMAIN stack', stack'[k] = Rest[k]
    PROVE  OriginAt(k)'
<1>1. OriginAt(k)
  BY DEF FrameOrigin, OriginAt
<1>2. /\ start' = start /\ root' = root
      /\ \A i \in DOMAIN log : i \in DOMAIN log' /\ log'[i] = log[i]
  BY LogGrows DEF Visited
<1>3. /\ stack # <<>> /\ Top.todo # <<>> /\ Len(stack) \in Nat \ {0}
      /\ k \in 1..Len(stack)
  BY TopFrame DEF Calls
<1>4. CASE k = Len(stack)
  <2>1. /\ stack'[k].node = stack[k].node /\ stack'[k].v = stack[k].v
        /\ stack'[k].todo = Tail(stack[k].todo)
        /\ ToSet(stack'[k].todo) \subseteq ToSet(stack[k].todo)
        /\ stack[k].todo # <<>>
    BY <1>3, <1>4, RestOfStack, TopFrame DEF Frames
  <2>2. stack[k].todo = <<root>> => stack'[k].todo = <<>>
    BY <2>1
  <2>3. QED
    BY <1>1, <1>2, <2>1, <2>2 DEF OriginAt
<1>5. CASE k # Len(stack)
  <2>1. stack'[k] = stack[k]
    BY <1>3, <1>5, RestOfStack
  <2>2. log # <<>>
    <3>1. Len(stack) \in DOMAIN stack /\ Len(stack) # 1
      BY <1>3, <1>5, TopFrame
    <3>2. \E i \in DOMAIN log : stack[Len(stack)].node = log[i].node
      BY <3>1 DEF FrameOrigin
    <3>3. QED
      BY <3>2
  <2>3. QED
    BY <1>1, <1>2, <2>1, <2>2 DEF OriginAt
<1>6. QED
  BY <1>4, <1>5

\* A visit happens in a frame of the visitor that its parent's visit returned.
LEMMA VisitInherits ==
    ASSUME InheritInv, WalkTypeOK, NEW n \in Nodes, Calls(n),
           NEW got \in Visitors \cup {Nil, "error"}, Visited(n, got)
    PROVE  VisitorInherited'
<1> DEFINE l == Len(log) + 1
           e == [node |-> n, by |-> Top.v, got |-> got]
<1>1. /\ l \in Nat /\ DOMAIN log = 1..Len(log) /\ DOMAIN log' = 1..l
      /\ Len(log) \in Nat
      /\ \A i \in DOMAIN log : log'[i] = log[i]
      /\ log'[l] = e /\ n = Head(Top.todo)
      /\ stack # <<>> /\ Top.todo # <<>>
      /\ log \in Seq(Visits)
  BY LogGrows DEF WalkTypeOK, Visits
<1>2. /\ Len(stack) \in DOMAIN stack /\ Top = stack[Len(stack)]
      /\ Head(Top.todo) \in ToSet(Top.todo)
  BY <1>1, TopFrame
<1>3. OriginAt(Len(stack))
  BY <1>2 DEF InheritInv, FrameOrigin, OriginAt
<1>4. root' = root /\ start' = start
  BY DEF Visited
<1>5. ASSUME NEW j \in 1..Len(log)
      PROVE  IF j = 1 THEN log'[j].node = root' /\ log'[j].by = start'
             ELSE \E i \in 1..(j - 1) :
                     /\ log'[j].node \in ToSet(Children[log'[i].node])
                     /\ log'[i].got = log'[j].by
  <2>1. j \in DOMAIN log /\ \A i \in 1..(j - 1) : i \in DOMAIN log
    BY <1>1
  <2>2. QED
    BY <1>1, <1>4, <2>1 DEF InheritInv, VisitorInherited, IsChild
<1>6. IF l = 1 THEN n = root /\ Top.v = start
      ELSE \E i \in 1..(l - 1) : /\ n \in ToSet(Children[log[i].node])
                                 /\ log[i].got = Top.v
  <2>1. CASE \E i \in DOMAIN log : /\ Top.node = log[i].node /\ Top.v = log[i].got
                                   /\ ToSet(Top.todo) \subseteq ToSet(Children[Top.node])
    <3>1. PICK i \in 1..Len(log) :
             /\ Top.node = log[i].node /\ Top.v = log[i].got
             /\ ToSet(Top.todo) \subseteq ToSet(Children[Top.node])
      BY <1>1, <2>1
    <3>2. n \in ToSet(Children[log[i].node]) /\ log[i].got = Top.v
      BY <1>1, <1>2, <3>1
    <3>3. i \in 1..(l - 1) /\ l # 1
      BY <1>1
    <3>4. QED
      BY <3>2, <3>3
  <2>2. CASE /\ Top.v = start
             /\ Top.todo = <<>> \/ (log = <<>> /\ Top.todo = <<root>>)
    <3>1. Top.v = start /\ log = <<>> /\ n = root
      BY <1>1, <2>2
    <3>2. QED
      BY <1>1, <3>1
  <2>3. QED
    BY <1>2, <1>3, <2>1, <2>2 DEF OriginAt
<1>7. IF l = 1 THEN log'[l].node = root' /\ log'[l].by = start'
      ELSE \E i \in 1..(l - 1) :
              /\ log'[l].node \in ToSet(Children[log'[i].node])
              /\ log'[i].got = log'[l].by
  <2>1. \A i \in 1..(l - 1) : i \in DOMAIN log
    BY <1>1
  <2>2. e.node = n /\ e.by = Top.v
    OBVIOUS
  <2>3. QED
    BY <1>1, <1>4, <1>6, <2>1, <2>2
<1> HIDE DEF l, e
<1>8. \A j \in DOMAIN log' : j = l \/ j \in 1..Len(log)
  BY <1>1 DEF l
<1>9. QED
  BY <1>5, <1>7, <1>8 DEF VisitorInherited, IsChild

\* Every step of the walk keeps the frames' origins and the visitors.
LEMMA InheritStep ==
    InheritInv /\ [WalkNext]_walkVars => InheritInv'
<1> SUFFICES ASSUME InheritInv, [WalkNext]_walkVars
             PROVE  FrameOrigin' /\ VisitorInherited'
  BY HaltStep DEF InheritInv
<1>0. WalkTypeOK /\ FrameOrigin
  BY DEF InheritInv, HaltInv
<1>1. ASSUME NEW n \in Nodes, NEW v \in Visitors \cup {Nil}, Call(n, v)
      PROVE  FrameOrigin' /\ VisitorInherited'
  <2>1. stack' = <<[node |-> Nil, todo |-> <<n>>, v |-> v]>>
        /\ root' = n /\ start' = v /\ log' = <<>>
    BY <1>1 DEF Call, InheritInv, HaltInv
  <2>2. DOMAIN log' = {} /\ DOMAIN stack' = {1}
    BY <2>1
  <2>3. QED
    BY <2>1, <2>2 DEF FrameOrigin, VisitorInherited
<1>2. ASSUME NEW n \in Nodes, Skip(n) \/ VisitFails(n)
      PROVE  FrameOrigin' /\ VisitorInherited'
  <2>1. PICK got \in {Nil, "error"} : Visited(n, got)
    BY <1>2 DEF Skip, VisitFails
  <2>2. Calls(n) /\ stack' = Rest /\ stack # <<>> /\ Top.todo # <<>>
    BY <1>2 DEF Skip, VisitFails, Calls
  <2>3. DOMAIN stack' = DOMAIN stack
    BY <1>0, <2>2, TopFrame, RestOfStack
  <2>4. \A k \in DOMAIN stack' : OriginAt(k)'
    BY <1>0, <2>1, <2>2, <2>3, OriginKept
  <2>5. QED
    BY <1>0, <2>1, <2>2, <2>4, VisitInherits DEF FrameOrigin, OriginAt
<1>3. ASSUME NEW n \in Nodes, NEW v \in Visitors, Descend(n, v)
      PROVE  FrameOrigin' /\ VisitorInherited'
  <2>1. /\ Calls(n) /\ Visited(n, v) /\ stack # <<>> /\ Top.todo # <<>>
        /\ stack' = Append(Rest, Frame(n, v))
    BY <1>3 DEF Descend, Calls
  <2>2. /\ Len(stack) \in Nat \ {0} /\ DOMAIN stack = 1..Len(stack)
        /\ Rest \in Seq(Frames) /\ Len(Rest) = Len(stack)
    BY <1>0, <2>1, TopFrame, RestOfStack
  <2>3. Frame(n, v) \in Frames
    BY ChildrenType DEF Frame, Frames
  <2>4. /\ DOMAIN stack' = 1..(Len(stack) + 1)
        /\ stack'[Len(stack) + 1] = Frame(n, v)
        /\ \A k \in 1..Len(stack) : stack'[k] = Rest[k]
    BY <2>1, <2>2, <2>3
  <2>5. \A k \in DOMAIN stack : OriginAt(k)'
    BY <1>0, <2>1, <2>2, <2>4, OriginKept
  <2>6. \E i \in DOMAIN log' :
           /\ Frame(n, v).node = log'[i].node /\ Frame(n, v).v = log'[i].got
           /\ ToSet(Frame(n, v).todo) \subseteq ToSet(Children[Frame(n, v).node])
    <3>1. /\ Len(log) + 1 \in DOMAIN log'
          /\ log'[Len(log) + 1] = [node |-> n, by |-> Top.v, got |-> v]
      BY <1>0, <2>1, LogGrows
    <3>2. QED
      BY <3>1 DEF Frame
  <2>7. ASSUME NEW k \in DOMAIN stack'
        PROVE  OriginAt(k)'
    <3>1. CASE k = Len(stack) + 1
      <4>1. stack'[k] = Frame(n, v)
        BY <2>4, <3>1
      <4>2. QED
        BY <2>6, <4>1 DEF OriginAt
    <3>2. CASE k \in DOMAIN stack
      BY <2>5, <3>2
    <3>3. QED
      BY <2>2, <2>4, <3>1, <3>2
  <2>8. QED
    BY <1>0, <2>1, <2>7, VisitInherits DEF FrameOrigin, OriginAt
<1>4. CASE NoVisitor
  <2>1. /\ stack # <<>> /\ Top.todo # <<>> /\ stack' = Rest
        /\ UNCHANGED <<root, start, log>>
    BY <1>4 DEF NoVisitor
  <2>2. DOMAIN stack' = DOMAIN stack /\ Len(stack) \in Nat \ {0}
        /\ DOMAIN stack = 1..Len(stack)
    BY <1>0, <2>1, TopFrame, RestOfStack
  <2>3. ASSUME NEW k \in DOMAIN stack'
        PROVE  OriginAt(k)'
    <3>1. OriginAt(k)
      BY <1>0, <2>2 DEF FrameOrigin, OriginAt
    <3>2. CASE k = Len(stack)
      <4>1. /\ stack'[k].node = stack[k].node /\ stack'[k].v = stack[k].v
            /\ stack'[k].todo = Tail(stack[k].todo)
            /\ ToSet(stack'[k].todo) \subseteq ToSet(stack[k].todo)
            /\ stack[k].todo # <<>>
        BY <1>0, <2>1, <3>2, RestOfStack, TopFrame DEF Frames
      <4>2. stack[k].todo = <<root>> => stack'[k].todo = <<>>
        BY <4>1
      <4>3. QED
        BY <2>1, <3>1, <4>1, <4>2 DEF OriginAt
    <3>3. CASE k # Len(stack)
      <4>1. stack'[k] = stack[k]
        BY <1>0, <2>1, <2>2, <3>3, RestOfStack
      <4>2. QED
        BY <2>1, <3>1, <4>1 DEF OriginAt
    <3>4. QED
      BY <3>2, <3>3
  <2>4. VisitorInherited'
    BY <2>1 DEF InheritInv, VisitorInherited
  <2>5. QED
    BY <2>3, <2>4 DEF FrameOrigin, OriginAt
<1>5. CASE Return \/ Unwind
  <2>1. stack # <<>> /\ Pop /\ UNCHANGED <<root, start, err, log>>
    BY <1>5 DEF Return, Unwind
  <2>2. \A k \in DOMAIN stack' : k \in DOMAIN stack /\ stack'[k] = stack[k]
    BY <1>0, <2>1, PopStack, TopFrame
  <2>3. VisitorInherited'
    BY <2>1 DEF InheritInv, VisitorInherited
  <2>4. QED
    BY <1>0, <2>1, <2>2, <2>3 DEF FrameOrigin
<1>6. CASE UNCHANGED walkVars
  BY <1>6 DEF walkVars, InheritInv, FrameOrigin, VisitorInherited
<1>7. QED
  BY <1>1, <1>2, <1>3, <1>4, <1>5, <1>6 DEF WalkNext

\* Before the walk there is neither a frame nor a visit.
LEMMA InheritInit == Init => InheritInv
<1> SUFFICES ASSUME Init PROVE InheritInv
  OBVIOUS
<1>1. DOMAIN stack = {} /\ DOMAIN log = {}
  BY DEF Init, WalkInit
<1>2. QED
  BY <1>1, HaltInit DEF InheritInv, FrameOrigin, VisitorInherited

\* The accept methods: in any tree, a node is visited by the visitor that the
\* visit of its parent returned, never by that of a sibling.
THEOREM VisitorsInherited == Spec => []VisitorInherited
<1>1. InheritInv /\ [Next]_vars => InheritInv'
  BY TourStep, InheritStep
<1>2. InheritInv => VisitorInherited
  BY DEF InheritInv
<1>3. QED
  BY InheritInit, <1>1, <1>2, PTL DEF Spec


-----------------------------------------------------------------------------
(* What is visited.                                                        *)

\* The nodes in a list are its first and those behind it.
LEMMA HeadOrTail ==
    ASSUME NEW s \in Seq(Nodes), s # <<>>, NEW m \in ToSet(s)
    PROVE  m = Head(s) \/ m \in ToSet(Tail(s))
<1>1. Len(s) \in Nat \ {0} /\ DOMAIN s = 1..Len(s)
  BY LenProperties, EmptySeq
<1>2. /\ Tail(s) \in Seq(Nodes) /\ DOMAIN Tail(s) = 1..(Len(s) - 1)
      /\ \A i \in 1..(Len(s) - 1) : Tail(s)[i] = s[i + 1]
      /\ Head(s) = s[1]
  BY <1>1, HeadTailProperties
<1>3. PICK i \in 1..Len(s) : m = s[i]
  BY <1>1 DEF ToSet
<1>4. CASE i = 1
  BY <1>2, <1>3, <1>4
<1>5. CASE i # 1
  <2>1. i - 1 \in 1..(Len(s) - 1) /\ (i - 1) + 1 = i
    BY <1>1, <1>5
  <2>2. Tail(s)[i - 1] = m
    BY <1>2, <1>3, <2>1
  <2>3. QED
    BY <1>2, <2>1, <2>2 DEF ToSet
<1>6. QED
  BY <1>4, <1>5

\* The part of CoverInv about what is below the visits.
Covered(i) ==
    log[i].got \in Visitors =>
       \A m \in ToSet(Children[log[i].node]) :
          \/ err \/ IsPending(m, log[i].node)
          \/ \E j \in (DOMAIN log) \ {1} : log[j].node = m

\* A visit, whatever it returns: what was pending still is, or is visited now.
LEMMA CoveredKept ==
    ASSUME WalkTypeOK, NEW n \in Nodes, Calls(n),
           NEW got \in Visitors \cup {Nil, "error"}, Visited(n, got),
           NEW i \in DOMAIN log, Covered(i),
           \A k \in DOMAIN stack : k \in DOMAIN stack' /\ stack'[k] = Rest[k]
    PROVE  Covered(i)'
<1>1. /\ DOMAIN log' = 1..(Len(log) + 1) /\ Len(log) \in Nat
      /\ DOMAIN log = 1..Len(log)
      /\ \A j \in DOMAIN log : log'[j] = log[j]
      /\ log'[Len(log) + 1].node = n /\ n = Head(Top.todo)
      /\ stack # <<>> /\ Top.todo # <<>>
  BY LogGrows
<1> SUFFICES ASSUME log'[i].got \in Visitors,
                    NEW m \in ToSet(Children[log'[i].node])
             PROVE  \/ IsPending(m, log[i].node)'
                    \/ \E j \in DOMAIN log' \ {1} : log'[j].node = m
  BY DEF Covered
<1>2. ~err /\ log'[i] = log[i]
  BY <1>1 DEF Calls
<1>3. CASE \E j \in (DOMAIN log) \ {1} : log[j].node = m
  <2>1. PICK j \in (DOMAIN log) \ {1} : log[j].node = m
    BY <1>3
  <2>2. j \in DOMAIN log' \ {1} /\ log'[j].node = m
    BY <1>1, <2>1
  <2>3. QED
    BY <2>2
<1>4. CASE IsPending(m, log[i].node)
  <2>1. PICK k \in DOMAIN stack : /\ stack[k].node = log[i].node /\ stack[k].v # Nil
                                  /\ m \in ToSet(stack[k].todo)
    BY <1>4 DEF IsPending
  <2>2. CASE k # Len(stack)
    <3>1. k \in 1..(Len(stack) - 1)
      BY <1>1, <2>2, TopFrame
    <3>2. k \in DOMAIN stack' /\ stack'[k] = stack[k]
      BY <1>1, <3>1, RestOfStack
    <3>3. QED
      BY <1>2, <2>1, <3>2 DEF IsPending
  <2>3. CASE k = Len(stack) /\ m \in ToSet(Tail(Top.todo))
    <3>1. /\ stack[k] = Top /\ Top \in Frames
          /\ stack'[k] = [Top EXCEPT !.todo = Tail(@)] /\ k \in DOMAIN stack'
      BY <1>1, <2>3, TopFrame, RestOfStack
    <3>2. /\ stack'[k].node = Top.node /\ stack'[k].v = Top.v
          /\ stack'[k].todo = Tail(Top.todo)
      BY <3>1 DEF Frames
    <3>3. QED
      BY <1>2, <2>1, <2>3, <3>1, <3>2 DEF IsPending
  <2>4. CASE k = Len(stack) /\ m = Head(Top.todo)
    <3>1. Len(log) + 1 \in DOMAIN log' \ {1}
      BY <1>1
    <3>2. QED
      BY <1>1, <2>4, <3>1
  <2>5. CASE k = Len(stack)
    <3>1. Top.todo \in Seq(Nodes) /\ m \in ToSet(Top.todo)
      BY <1>1, <2>1, <2>5, TopFrame DEF Frames
    <3>2. m = Head(Top.todo) \/ m \in ToSet(Tail(Top.todo))
      BY <1>1, <3>1, HeadOrTail
    <3>3. QED
      BY <2>3, <2>4, <2>5, <3>2
  <2>6. QED
    BY <2>2, <2>5
<1>5. QED
  BY <1>2, <1>3, <1>4 DEF Covered

\* Every step of the walk leaves nothing out.
LEMMA CoverStep == CoverInv /\ [WalkNext]_walkVars => CoverInv'
<1> DEFINE Started == result # "none" /\ log = <<>> /\ start # Nil =>
                         stack = <<[node |-> Nil, todo |-> <<root>>, v |-> start]>>
<1> SUFFICES ASSUME CoverInv, [WalkNext]_walkVars
             PROVE  (\A i \in DOMAIN log' : Covered(i)') /\ Started'
  BY InheritStep DEF CoverInv, Covered
<1>0. /\ WalkTypeOK /\ HaltInv
      /\ \A i \in DOMAIN log : Covered(i)
      /\ Started
  BY DEF CoverInv, InheritInv, HaltInv, Covered
<1> HIDE DEF Covered
<1>1. ASSUME NEW n \in Nodes, NEW v \in Visitors \cup {Nil}, Call(n, v)
      PROVE  (\A i \in DOMAIN log' : Covered(i)') /\ Started'
  <2>1. log' = <<>>
    BY <1>0, <1>1 DEF Call, HaltInv
  <2>2. DOMAIN log' = {}
    BY <2>1
  <2>3. Started'
    BY <1>1 DEF Call
  <2>4. QED
    BY <2>2, <2>3
<1>2. ASSUME NEW n \in Nodes, Skip(n) \/ VisitFails(n)
      PROVE  (\A i \in DOMAIN log' : Covered(i)') /\ Started'
  <2>1. PICK got \in {Nil, "error"} : Visited(n, got)
    BY <1>2 DEF Skip, VisitFails
  <2>2. Calls(n) /\ stack' = Rest
    BY <1>2 DEF Skip, VisitFails
  <2>3. /\ DOMAIN log' = 1..(Len(log) + 1) /\ DOMAIN log = 1..Len(log)
        /\ Len(log) \in Nat /\ log'[Len(log) + 1].got = got /\ log' # <<>>
    BY <1>0, <2>1, <2>2, LogGrows
  <2>4. \A k \in DOMAIN stack : k \in DOMAIN stack' /\ stack'[k] = Rest[k]
    BY <1>0, <2>2, TopFrame, RestOfStack DEF Calls
  <2>5. \A i \in DOMAIN log : Covered(i)'
    BY <1>0, <2>1, <2>2, <2>4, CoveredKept
  <2>6. got \notin Visitors
    BY VisitorsAssumption
  <2>7. \A i : i = Len(log) + 1 => Covered(i)'
    BY <2>3, <2>6 DEF Covered
  <2>8. QED
    BY <2>3, <2>5, <2>7
<1>3. ASSUME NEW n \in Nodes, NEW v \in Visitors, Descend(n, v)
      PROVE  (\A i \in DOMAIN log' : Covered(i)') /\ Started'
  <2>1. /\ Calls(n) /\ Visited(n, v) /\ stack # <<>> /\ Top.todo # <<>>
        /\ stack' = Append(Rest, Frame(n, v))
    BY <1>3 DEF Descend, Calls
  <2>2. /\ DOMAIN log' = 1..(Len(log) + 1) /\ DOMAIN log = 1..Len(log)
        /\ Len(log) \in Nat /\ log'[Len(log) + 1].node = n /\ log' # <<>>
    BY <1>0, <2>1, LogGrows
  <2>3. /\ Len(stack) \in Nat \ {0} /\ DOMAIN stack = 1..Len(stack)
        /\ Rest \in Seq(Frames) /\ Len(Rest) = Len(stack)
    BY <1>0, <2>1, TopFrame, RestOfStack
  <2>4. Frame(n, v) \in Frames
    BY ChildrenType DEF Frame, Frames
  <2>5. /\ DOMAIN stack' = 1..(Len(stack) + 1)
        /\ stack'[Len(stack) + 1] = Frame(n, v)
        /\ \A k \in 1..Len(stack) : stack'[k] = Rest[k]
    BY <2>1, <2>3, <2>4
  <2>6. \A i \in DOMAIN log : Covered(i)'
    BY <1>0, <2>1, <2>3, <2>5, CoveredKept
  <2>7. \A m \in ToSet(Children[n]) : IsPending(m, n)'
    <3>1. /\ Len(stack) + 1 \in DOMAIN stack'
          /\ Frame(n, v).node = n /\ Frame(n, v).v # Nil
          /\ Frame(n, v).todo = Children[n]
      BY <2>3, <2>5, VisitorsAssumption DEF Frame
    <3>2. QED
      BY <2>5, <3>1 DEF IsPending
  <2>8. \A i : i = Len(log) + 1 => Covered(i)'
    BY <2>2, <2>7 DEF Covered
  <2>9. QED
    BY <2>2, <2>6, <2>8
<1>4. CASE NoVisitor
  <2>1. /\ stack # <<>> /\ Top.todo # <<>> /\ stack' = Rest /\ Top.v = Nil
        /\ UNCHANGED <<root, start, err, log, result>>
    BY <1>4 DEF NoVisitor
  <2>2. ASSUME NEW m, NEW n, IsPending(m, n)
        PROVE  IsPending(m, n)'
    <3>1. PICK k \in DOMAIN stack : /\ stack[k].node = n /\ stack[k].v # Nil
                                    /\ m \in ToSet(stack[k].todo)
      BY <2>2 DEF IsPending
    <3>2. k \in 1..(Len(stack) - 1) /\ k \in DOMAIN stack' /\ stack'[k] = stack[k]
      <4>1. k # Len(stack)
        BY <1>0, <2>1, <3>1, TopFrame
      <4>2. QED
        BY <1>0, <2>1, <4>1, TopFrame, RestOfStack
    <3>3. QED
      BY <3>1, <3>2 DEF IsPending
  <2>3. Started'
    <3>1. ASSUME stack = <<[node |-> Nil, todo |-> <<root>>, v |-> start]>>
          PROVE  start = Nil
      BY <2>1, <3>1 DEF Top
    <3>2. QED
      BY <1>0, <2>1, <3>1
  <2>4. QED
    BY <1>0, <2>1, <2>2, <2>3 DEF Covered
<1>5. CASE Return
  <2>1. /\ stack # <<>> /\ Pop /\ Top.todo = <<>>
        /\ UNCHANGED <<root, start, err, log>>
    BY <1>5 DEF Return
  <2>2. ASSUME NEW m, NEW n, IsPending(m, n)
        PROVE  IsPending(m, n)'
    <3>1. PICK k \in DOMAIN stack : /\ stack[k].node = n /\ stack[k].v # Nil
                                    /\ m \in ToSet(stack[k].todo)
      BY <2>2 DEF IsPending
    <3>2. k # Len(stack)
      <4>1. ToSet(<<>>) = {}
        BY DEF ToSet
      <4>2. QED
        BY <1>0, <2>1, <3>1, <4>1, TopFrame
    <3>3. k \in DOMAIN stack' /\ stack'[k] = stack[k]
      BY <1>0, <2>1, <3>2, TopFrame, PopStack
    <3>4. QED
      BY <3>1, <3>3 DEF IsPending
  <2>3. Started'
    <3>1. stack # <<[node |-> Nil, todo |-> <<root>>, v |-> start]>>
      BY <2>1 DEF Top
    <3>2. result # "none"
      BY <1>0, <2>1 DEF HaltInv
    <3>3. QED
      BY <1>0, <2>1, <3>1, <3>2
  <2>4. QED
    BY <1>0, <2>1, <2>2, <2>3 DEF Covered
<1>6. CASE Unwind
  <2>1. err /\ UNCHANGED <<root, start, err, log>>
    BY <1>6 DEF Unwind
  <2>2. log # <<>>
    BY <1>0, <2>1 DEF HaltInv
  <2>3. QED
    BY <2>1, <2>2 DEF Covered
<1>7. CASE UNCHANGED walkVars
  BY <1>0, <1>7 DEF walkVars, Covered, IsPending
<1>8. QED
  BY <1>1, <1>2, <1>3, <1>4, <1>5, <1>6, <1>7 DEF WalkNext

\* A walk that is over has visited what it should.
LEMMA CoverIsAll == CoverInv => AllButSkipped
<1> SUFFICES ASSUME CoverInv PROVE AllButSkipped
  OBVIOUS
<1>1. /\ WalkTypeOK /\ HaltInv /\ VisitorInherited
  BY DEF CoverInv, InheritInv, HaltInv
<1>2. ErrorHalts
  BY <1>1 DEF HaltInv, ErrorHalts, Last
<1> SUFFICES ASSUME result = "ok"
             PROVE  /\ start # Nil => \E i \in DOMAIN log : log[i].node = root
                    /\ \A n, m \in Nodes : IsChild(m, n) =>
                          ((\E j \in (DOMAIN log) \ {1} : log[j].node = m)
                             <=> \E i \in DOMAIN log : log[i].node = n /\ log[i].got # Nil)
  BY <1>2 DEF AllButSkipped
<1>3. /\ stack = <<>> /\ ~err
      /\ \A i \in DOMAIN log : log[i].got # "error"
      /\ log \in Seq(Visits) /\ Len(log) \in Nat /\ DOMAIN log = 1..Len(log)
      /\ \A i \in DOMAIN log : log[i] \in Visits
  <2>1. stack = <<>> /\ ~err
    BY <1>1 DEF HaltInv
  <2>2. log \in Seq(Visits) /\ Len(log) \in Nat /\ DOMAIN log = 1..Len(log)
    BY <1>1, LenProperties DEF WalkTypeOK, Visits
  <2>3. \A i \in DOMAIN log : log[i].got # "error"
    BY <1>1, <2>1, <2>2 DEF HaltInv
  <2>4. QED
    BY <2>1, <2>2, <2>3
<1>4. start # Nil => \E i \in DOMAIN log : log[i].node = root
  <2> SUFFICES ASSUME start # Nil PROVE \E i \in DOMAIN log : log[i].node = root
    OBVIOUS
  <2>1. log # <<>>
    <3>1. stack # <<[node |-> Nil, todo |-> <<root>>, v |-> start]>>
      BY <1>3
    <3>2. QED
      BY <3>1 DEF CoverInv
  <2>2. 1 \in DOMAIN log
    BY <1>3, <2>1, EmptySeq
  <2>3. QED
    BY <1>1, <2>2 DEF VisitorInherited
<1>5. ASSUME NEW n \in Nodes, NEW m \in Nodes, IsChild(m, n),
             NEW j \in (DOMAIN log) \ {1}, log[j].node = m
      PROVE  \E i \in DOMAIN log : log[i].node = n /\ log[i].got # Nil
  <2>1. PICK i \in 1..(j - 1) : IsChild(m, log[i].node) /\ log[i].got = log[j].by
    BY <1>1, <1>5 DEF VisitorInherited
  <2>2. /\ i \in DOMAIN log /\ log[i].node \in Nodes /\ log[j].by \in Visitors
    BY <1>3 DEF Visits
  <2>3. log[i].node = n
    BY <1>5, <2>1, <2>2, ParentsAssumption DEF IsChild
  <2>4. QED
    BY <2>1, <2>2, <2>3, VisitorsAssumption
<1>6. ASSUME NEW n \in Nodes, NEW m \in Nodes, IsChild(m, n),
             NEW i \in DOMAIN log, log[i].node = n, log[i].got # Nil
      PROVE  \E j \in (DOMAIN log) \ {1} : log[j].node = m
  <2>1. log[i].got \in Visitors
    BY <1>3, <1>6 DEF Visits
  <2>2. ~IsPending(m, n)
    BY <1>3 DEF IsPending
  <2>3. QED
    BY <1>3, <1>6, <2>1, <2>2 DEF CoverInv, IsChild
<1>7. QED
  BY <1>4, <1>5, <1>6

\* The accept methods: in any tree, a walk that ends without an error has visited
\* all that is below a node it visited, if that visit returned a visitor, and
\* nothing else.
THEOREM NothingMissed == Spec => []AllButSkipped
<1>1. Init => CoverInv
  <2> SUFFICES ASSUME Init PROVE CoverInv
    OBVIOUS
  <2>1. DOMAIN log = {} /\ result = "none"
    BY DEF Init, WalkInit
  <2>2. QED
    BY <2>1, InheritInit DEF CoverInv
<1>2. CoverInv /\ [Next]_vars => CoverInv'
  BY TourStep, CoverStep
<1>3. QED
  BY <1>1, <1>2, CoverIsAll, PTL DEF Spec

-----------------------------------------------------------------------------
(* The order of the visits.                                                *)

\* What is left of a list without repetitions, when its first node is taken.
LEMMA FirstTaken ==
    ASSUME NEW s \in Seq(Nodes), s # <<>>, IsInjective(s)
    PROVE  IsInjective(Tail(s)) /\ Head(s) \notin ToSet(Tail(s))
<1>1. Len(s) \in Nat \ {0} /\ DOMAIN s = 1..Len(s)
  BY LenProperties, EmptySeq
<1>2. /\ \A i \in 1..(Len(s) - 1) : Tail(s)[i] = s[i + 1]
      /\ Head(s) = s[1] /\ DOMAIN Tail(s) = 1..(Len(s) - 1)
  BY <1>1, HeadTailProperties
<1>3. \A i, j \in 1..Len(s) : s[i] = s[j] => i = j
  BY <1>1 DEF IsInjective
<1>4. \A i \in 1..(Len(s) - 1) : i + 1 \in 1..Len(s) /\ i + 1 # 1 /\ 1 \in 1..Len(s)
  BY <1>1
<1>5. ASSUME NEW i \in 1..(Len(s) - 1), NEW j \in 1..(Len(s) - 1), Tail(s)[i] = Tail(s)[j]
      PROVE  i = j
  <2>1. i + 1 = j + 1
    BY <1>2, <1>3, <1>4, <1>5
  <2>2. QED
    BY <2>1
<1>6. \A i \in 1..(Len(s) - 1) : Tail(s)[i] # Head(s)
  BY <1>2, <1>3, <1>4
<1>7. QED
  BY <1>2, <1>5, <1>6 DEF IsInjective, ToSet

\* The parts of the invariant.
LEMMA DepthParts ==
    ASSUME DepthInv
    PROVE  /\ WalkTypeOK /\ InheritInv /\ FrameOrigin /\ VisitorInherited /\ DepthFirst
           /\ log \in Seq(Visits) /\ Len(log) \in Nat /\ DOMAIN log = 1..Len(log)
           /\ \A i \in DOMAIN log : log[i].node \in Nodes
<1>1. WalkTypeOK /\ InheritInv /\ FrameOrigin /\ VisitorInherited /\ DepthFirst
  BY DEF DepthInv, InheritInv, HaltInv
<1>2. log \in Seq(Visits) /\ Len(log) \in Nat /\ DOMAIN log = 1..Len(log)
  BY <1>1, LenProperties DEF WalkTypeOK, Visits
<1>3. \A i \in DOMAIN log : log[i] \in Visits
  BY <1>2
<1>4. \A i \in DOMAIN log : log[i].node \in Nodes
  BY <1>3 DEF Visits
<1>5. QED
  BY <1>1, <1>2, <1>4

\* Above the call of Walk, a frame goes through the children of the node of its visit.
LEMMA FrameChildren ==
    ASSUME DepthInv, NEW k \in DOMAIN stack, k # 1
    PROVE  \E i \in DOMAIN log : /\ log[i].node = stack[k].node /\ OpenSince(i)
                                 /\ ToSet(stack[k].todo) \subseteq ToSet(Children[stack[k].node])
<1>1. PICK i \in DOMAIN log : log[i].node = stack[k].node /\ OpenSince(i)
  BY DEF DepthInv
<1>2. ToSet(stack[k].todo) \subseteq ToSet(Children[stack[k].node])
  BY DepthParts DEF FrameOrigin
<1>3. QED
  BY <1>1, <1>2

\* A node that is come to was not visited before; unless it is the first, it is a
\* child of the node of the frame on top.
LEMMA ComesTo ==
    ASSUME DepthInv, NEW n \in Nodes, Calls(n)
    PROVE  /\ \A j \in DOMAIN log : log[j].node # n
           /\ log = <<>> => n = root /\ Len(stack) = 1
           /\ log # <<>> => /\ Len(stack) # 1
                            /\ \E i \in DOMAIN log :
                                  /\ log[i].node = Top.node /\ OpenSince(i)
                                  /\ IsChild(n, Top.node)
<1>1. /\ stack # <<>> /\ Top.todo # <<>> /\ n = Head(Top.todo)
      /\ Top = stack[Len(stack)] /\ Len(stack) \in DOMAIN stack
      /\ n \in ToSet(Top.todo) /\ Len(stack) \in Nat \ {0}
  BY DepthParts, TopFrame DEF Calls
<1>2. \A j \in DOMAIN log : log[j].node # n
  BY <1>1 DEF DepthInv, Fresh
<1>3. CASE log = <<>>
  <2>1. DOMAIN log = {}
    BY <1>3
  <2>2. Len(stack) = 1
    BY <1>1, <2>1, FrameChildren
  <2>3. Top.todo = <<root>>
    BY <1>1, <2>2 DEF DepthInv
  <2>4. QED
    BY <1>1, <1>2, <1>3, <2>2, <2>3
<1>4. CASE log # <<>>
  <2>1. Len(stack) # 1
    BY <1>1, <1>4 DEF DepthInv
  <2>2. \E i \in DOMAIN log : log[i].node = Top.node /\ OpenSince(i) /\ IsChild(n, Top.node)
    BY <1>1, <2>1, FrameChildren DEF IsChild
  <2>3. QED
    BY <1>2, <1>4, <2>1, <2>2
<1>5. QED
  BY <1>3, <1>4

\* What is below a node that is come to was not visited before: it would have been
\* come to from that node, or be the node that the walk started with.
LEMMA NothingBelow ==
    ASSUME DepthInv, NEW n \in Nodes, Calls(n), NEW m \in ToSet(Children[n])
    PROVE  m # n /\ \A j \in DOMAIN log : log[j].node # m
<1> DEFINE Inner == {p \in Nodes : Children[p] # <<>>}
<1>1. \A p \in Nodes : \A q \in ToSet(Children[p]) : p \in Inner /\ q \in Nodes
  <2> SUFFICES ASSUME NEW p \in Nodes, NEW q \in ToSet(Children[p])
               PROVE  Children[p] # <<>> /\ q \in Nodes
    OBVIOUS
  <2>1. Children[p] \in Seq(Nodes)
    BY ChildrenType
  <2>2. QED
    BY <2>1 DEF ToSet
<1>2. m # n
  <2> SUFFICES ASSUME m = n PROVE FALSE
    OBVIOUS
  <2>1. {n} \in (SUBSET Inner) \ {{}}
    BY <1>1
  <2>2. PICK s \in {n} : \A p \in {n} : s \notin ToSet(Children[p])
    BY <2>1, TreeAssumption
  <2>3. QED
    BY <2>2
<1>3. ASSUME NEW j \in DOMAIN log, log[j].node = m PROVE FALSE
  <2> DEFINE S == {p \in Inner : p = n \/ \E i \in DOMAIN log : log[i].node = p}
  <2>1. log # <<>> /\ Len(log) \in Nat /\ DOMAIN log = 1..Len(log)
        /\ \A i \in DOMAIN log : log[i].node \in Nodes
    BY <1>3, DepthParts
  <2>2. \A i \in DOMAIN log : i # 1 =>
           \E h \in DOMAIN log : log[i].node \in ToSet(Children[log[h].node])
    <3> SUFFICES ASSUME NEW i \in DOMAIN log, i # 1
                 PROVE  \E h \in DOMAIN log : log[i].node \in ToSet(Children[log[h].node])
      OBVIOUS
    <3>1. PICK h \in 1..(i - 1) : IsChild(log[i].node, log[h].node)
      BY DepthParts DEF VisitorInherited
    <3>2. h \in DOMAIN log
      BY <2>1
    <3>3. QED
      BY <3>1, <3>2 DEF IsChild
  <2>3. j = 1
    <3> SUFFICES ASSUME j # 1 PROVE FALSE
      OBVIOUS
    <3>1. PICK h \in DOMAIN log : m \in ToSet(Children[log[h].node])
      BY <1>3, <2>2
    <3>2. log[h].node = n
      BY <2>1, <3>1, ParentsAssumption
    <3>3. QED
      BY <3>2, ComesTo
  <2>4. n \in S
    BY <1>1
  <2>5. ASSUME NEW s \in S PROVE \E p \in S : s \in ToSet(Children[p])
    <3>1. CASE s = n
      <4>1. PICK i \in DOMAIN log : n \in ToSet(Children[log[i].node])
        BY <2>1, ComesTo DEF IsChild
      <4>2. log[i].node \in S
        BY <1>1, <2>1, <4>1
      <4>3. QED
        BY <3>1, <4>1, <4>2
    <3>2. ASSUME NEW i \in DOMAIN log, log[i].node = s, i # 1
          PROVE  \E p \in S : s \in ToSet(Children[p])
      <4>1. PICK h \in DOMAIN log : s \in ToSet(Children[log[h].node])
        BY <2>2, <3>2
      <4>2. log[h].node \in S
        BY <1>1, <2>1, <4>1
      <4>3. QED
        BY <4>1, <4>2
    <3>3. CASE log[1].node = s
      <4>1. s = m
        BY <1>3, <2>3, <3>3
      <4>2. QED
        BY <2>4, <4>1
    <3>4. QED
      BY <3>1, <3>2, <3>3
  <2>6. S \in (SUBSET Inner) \ {{}}
    BY <2>4
  <2> HIDE DEF S
  <2>7. PICK s \in S : \A p \in S : s \notin ToSet(Children[p])
    BY <2>6, TreeAssumption
  <2>8. QED
    BY <2>5, <2>7
<1>4. QED
  BY <1>2, <1>3

\* A visit keeps the order: between the visit of its parent and its own, there were
\* only visits below the parent.
LEMMA VisitInOrder ==
    ASSUME DepthInv, NEW n \in Nodes, Calls(n),
           NEW got \in Visitors \cup {Nil, "error"}, Visited(n, got)
    PROVE  DepthFirst'
<1> DEFINE l == Len(log) + 1
<1>1. /\ Len(log) \in Nat /\ DOMAIN log = 1..Len(log) /\ DOMAIN log' = 1..l
      /\ \A i \in DOMAIN log : log'[i] = log[i]
      /\ log'[l].node = n
  BY DepthParts, LogGrows
<1>2. /\ \A i, j \in DOMAIN log : log[i].node = log[j].node => i = j
      /\ \A i, j \in DOMAIN log : i < j /\ IsChild(log[j].node, log[i].node) =>
           \A k \in (i + 1)..j : \E p \in i..(k - 1) : IsChild(log[k].node, log[p].node)
      /\ \A i \in DOMAIN log : log[i].node \in Nodes
  BY DepthParts DEF DepthFirst
<1>3. \A j \in DOMAIN log : log[j].node # n
  BY ComesTo
<1>4. \A i \in DOMAIN log' : i \in DOMAIN log \/ i = l
  BY <1>1
<1>5. \A i, j \in DOMAIN log' : log'[i].node = log'[j].node => i = j
  BY <1>1, <1>2, <1>3, <1>4
<1>6. ASSUME NEW i \in DOMAIN log, NEW j \in DOMAIN log, i < j,
             IsChild(log'[j].node, log'[i].node), NEW k \in (i + 1)..j
      PROVE  \E p \in i..(k - 1) : IsChild(log'[k].node, log'[p].node)
  <2>1. PICK p \in i..(k - 1) : IsChild(log[k].node, log[p].node)
    BY <1>1, <1>2, <1>6
  <2>2. k \in DOMAIN log /\ p \in DOMAIN log
    BY <1>1
  <2>3. QED
    BY <1>1, <2>1, <2>2
<1>7. ASSUME NEW i \in DOMAIN log, IsChild(n, log[i].node), NEW k \in (i + 1)..l
      PROVE  \E p \in i..(k - 1) : IsChild(log'[k].node, log'[p].node)
  <2>1. PICK h \in DOMAIN log :
           log[h].node = Top.node /\ OpenSince(h) /\ IsChild(n, Top.node)
    <3>1. log # <<>>
      BY <1>1
    <3>2. QED
      BY <3>1, ComesTo
  <2>2. i = h
    <3>1. log[i].node = log[h].node
      BY <1>2, <1>7, <2>1, ParentsAssumption DEF IsChild
    <3>2. QED
      BY <1>2, <3>1
  <2>3. CASE k = l
    <3>1. i \in i..(k - 1)
      BY <1>1, <2>3
    <3>2. QED
      BY <1>1, <1>7, <2>3, <3>1
  <2>4. CASE k # l
    <3>1. k \in (i + 1)..Len(log)
      BY <1>1, <2>4
    <3>2. PICK p \in i..(k - 1) : IsChild(log[k].node, log[p].node)
      BY <2>1, <2>2, <3>1 DEF OpenSince
    <3>3. k \in DOMAIN log /\ p \in DOMAIN log
      BY <1>1, <3>1
    <3>4. QED
      BY <1>1, <3>2, <3>3
  <2>5. QED
    BY <2>3, <2>4
<1>8. \A i, j \in DOMAIN log' : i < j => i \in DOMAIN log
  BY <1>1
<1> HIDE DEF l
<1>9. ASSUME NEW i \in DOMAIN log', NEW j \in DOMAIN log', i < j,
             IsChild(log'[j].node, log'[i].node), NEW k \in (i + 1)..j
      PROVE  \E p \in i..(k - 1) : IsChild(log'[k].node, log'[p].node)
  <2>1. i \in DOMAIN log
    BY <1>8, <1>9
  <2>2. CASE j \in DOMAIN log
    BY <1>6, <1>9, <2>1, <2>2
  <2>3. CASE j = l
    BY <1>1, <1>7, <1>9, <2>1, <2>3
  <2>4. QED
    BY <1>4, <2>2, <2>3
<1>10. QED
  BY <1>5, <1>9 DEF DepthFirst, IsChild

\* What was visited since the node of a frame is still below it after one more visit.
LEMMA OpenKept ==
    ASSUME DepthInv, NEW n \in Nodes, Calls(n),
           NEW got \in Visitors \cup {Nil, "error"}, Visited(n, got),
           NEW k \in DOMAIN stack, k # 1,
           NEW i \in DOMAIN log, log[i].node = stack[k].node, OpenSince(i)
    PROVE  OpenSince(i)'
<1> DEFINE l == Len(log) + 1
<1>1. /\ Len(log) \in Nat /\ DOMAIN log = 1..Len(log) /\ Len(log') = l
      /\ \A j \in DOMAIN log : log'[j] = log[j]
      /\ log'[l].node = n
  BY DepthParts, LogGrows
<1>2. PICK h \in DOMAIN log : log[h].node = Top.node /\ IsChild(n, Top.node)
  <2>1. log # <<>>
    BY <1>1
  <2>2. QED
    BY <2>1, ComesTo
<1>3. i <= h
  <2>1. /\ Top = stack[Len(stack)] /\ Len(stack) \in DOMAIN stack
        /\ DOMAIN stack = 1..Len(stack) /\ Len(stack) \in Nat
    BY DepthParts, TopFrame DEF Calls
  <2>2. CASE k = Len(stack)
    <3>1. i = h
      BY <1>2, <2>1, <2>2, DepthParts DEF DepthFirst
    <3>2. QED
      BY <1>1, <3>1
  <2>3. CASE k # Len(stack)
    <3>1. k < Len(stack) /\ Len(stack) # 1
      BY <2>1, <2>3
    <3>2. i < h
      BY <1>2, <2>1, <3>1 DEF DepthInv
    <3>3. QED
      BY <1>1, <3>2
  <2>4. QED
    BY <2>2, <2>3
<1>4. ASSUME NEW q \in (i + 1)..l
      PROVE  \E p \in i..(q - 1) : IsChild(log'[q].node, log'[p].node)
  <2>1. CASE q = l
    <3>1. h \in i..(q - 1)
      BY <1>1, <1>3, <2>1
    <3>2. QED
      BY <1>1, <1>2, <2>1, <3>1
  <2>2. CASE q # l
    <3>1. q \in (i + 1)..Len(log)
      BY <1>1, <2>2
    <3>2. PICK p \in i..(q - 1) : IsChild(log[q].node, log[p].node)
      BY <3>1 DEF OpenSince
    <3>3. q \in DOMAIN log /\ p \in DOMAIN log
      BY <1>1, <3>1
    <3>4. QED
      BY <1>1, <3>2, <3>3
  <2>3. QED
    BY <2>1, <2>2
<1> HIDE DEF l
<1>5. QED
  BY <1>1, <1>4 DEF OpenSince, IsChild

\* What the frames are yet to come to is unvisited after one more visit too.
LEMMA FreshKept ==
    ASSUME DepthInv, NEW n \in Nodes, Calls(n),
           NEW got \in Visitors \cup {Nil, "error"}, Visited(n, got),
           NEW k \in DOMAIN stack, stack'[k] = Rest[k]
    PROVE  Fresh(stack[k].todo)'
<1>1. /\ stack # <<>> /\ Top.todo # <<>> /\ n = Head(Top.todo)
      /\ Top = stack[Len(stack)] /\ Top \in Frames
      /\ DOMAIN stack = 1..Len(stack) /\ Len(stack) \in Nat \ {0}
  BY DepthParts, TopFrame DEF Calls
<1>2. /\ Len(log) \in Nat /\ DOMAIN log = 1..Len(log) /\ DOMAIN log' = 1..(Len(log) + 1)
      /\ \A j \in DOMAIN log : log'[j] = log[j]
      /\ log'[Len(log) + 1].node = n
  BY DepthParts, LogGrows
<1>3. Fresh(stack[k].todo)
  BY DEF DepthInv
<1>4. /\ IsInjective(Rest[k].todo) /\ n \notin ToSet(Rest[k].todo)
      /\ ToSet(Rest[k].todo) \subseteq ToSet(stack[k].todo)
  <2>1. CASE k = Len(stack)
    <3>1. Rest[k].todo = Tail(Top.todo)
      BY <1>1, <2>1, DepthParts, RestOfStack DEF Frames
    <3>2. Top.todo \in Seq(Nodes) /\ IsInjective(Top.todo)
      BY <1>1, <1>3, <2>1 DEF Frames, Fresh
    <3>3. IsInjective(Tail(Top.todo)) /\ n \notin ToSet(Tail(Top.todo))
      BY <1>1, <3>2, FirstTaken
    <3>4. ToSet(Tail(Top.todo)) \subseteq ToSet(Top.todo)
      BY <1>1, DepthParts, TopFrame
    <3>5. QED
      BY <1>1, <2>1, <3>1, <3>3, <3>4
  <2>2. CASE k # Len(stack)
    <3>1. Rest[k] = stack[k] /\ Len(stack) # 1 /\ k < Len(stack)
      BY <1>1, <2>2, DepthParts, RestOfStack
    <3>2. PICK h \in DOMAIN log : log[h].node = Top.node /\ IsChild(n, Top.node)
      BY <3>1, ComesTo
    <3>3. CASE k = 1
      <4>1. stack[k].todo = <<>>
        BY <1>1, <3>2, <3>3 DEF DepthInv
      <4>2. ToSet(<<>>) = {}
        BY DEF ToSet
      <4>3. QED
        BY <1>3, <3>1, <4>1, <4>2 DEF Fresh
    <3>4. CASE k # 1
      <4>1. PICK i \in DOMAIN log :
               /\ log[i].node = stack[k].node
               /\ ToSet(stack[k].todo) \subseteq ToSet(Children[stack[k].node])
        BY <3>4, FrameChildren
      <4>2. i < h
        BY <1>1, <3>1, <3>2, <3>4, <4>1 DEF DepthInv
      <4>3. log[i].node # log[h].node
        BY <1>2, <4>2, DepthParts DEF DepthFirst
      <4>4. stack[k].node \in Nodes /\ Top.node \in Nodes /\ stack[k].node # Top.node
        BY <3>2, <4>1, <4>3, DepthParts
      <4>5. n \notin ToSet(stack[k].todo)
        BY <3>2, <4>1, <4>4, ParentsAssumption DEF IsChild
      <4>6. QED
        BY <1>3, <3>1, <4>5 DEF Fresh
    <3>5. QED
      BY <3>3, <3>4
  <2>3. QED
    BY <2>1, <2>2
<1>5. \A i \in DOMAIN log' : log'[i].node \notin ToSet(Rest[k].todo)
  <2>1. \A i \in DOMAIN log' : i \in DOMAIN log \/ i = Len(log) + 1
    BY <1>2
  <2>2. \A i \in DOMAIN log : log[i].node \notin ToSet(stack[k].todo)
    BY <1>3 DEF Fresh
  <2>3. QED
    BY <1>2, <1>4, <2>1, <2>2
<1>6. QED
  BY <1>4, <1>5 DEF Fresh, IsInjective

\* The clauses of the invariant, for one frame and for two.
FrameOpen(k) == \E i \in DOMAIN log : log[i].node = stack[k].node /\ OpenSince(i)

Later(k, l) ==
    \A i, j \in DOMAIN log : log[i].node = stack[k].node /\ log[j].node = stack[l].node
                               => i < j

\* A visit keeps the clauses of the frames that are there.
LEMMA FramesKept ==
    ASSUME DepthInv, NEW n \in Nodes, Calls(n),
           NEW got \in Visitors \cup {Nil, "error"}, Visited(n, got),
           \A k \in DOMAIN stack : k \in DOMAIN stack' /\ stack'[k] = Rest[k]
    PROVE  /\ stack'[1].todo = <<>>
           /\ \A k \in (DOMAIN stack) \ {1} : FrameOpen(k)'
           /\ \A k \in DOMAIN stack : \A i \in DOMAIN log' :
                 k # 1 /\ log'[i].node = stack'[k].node => i \in DOMAIN log
           /\ \A k, l \in (DOMAIN stack) \ {1} : k < l => Later(k, l)'
           /\ \A k \in DOMAIN stack : Fresh(stack[k].todo)'
<1>1. /\ stack # <<>> /\ Top.todo # <<>>
      /\ Top = stack[Len(stack)] /\ Top \in Frames
      /\ DOMAIN stack = 1..Len(stack) /\ Len(stack) \in Nat \ {0}
  BY DepthParts, TopFrame DEF Calls
<1>2. /\ Len(log) \in Nat /\ DOMAIN log = 1..Len(log) /\ DOMAIN log' = 1..(Len(log) + 1)
      /\ \A j \in DOMAIN log : log'[j] = log[j]
      /\ log'[Len(log) + 1].node = n
  BY DepthParts, LogGrows
<1>3. ASSUME NEW k \in DOMAIN stack
      PROVE  stack'[k].node = stack[k].node
  <2>1. CASE k = Len(stack)
    <3>1. stack'[k] = [Top EXCEPT !.todo = Tail(@)]
      BY <1>1, <2>1, DepthParts, RestOfStack
    <3>2. QED
      BY <1>1, <2>1, <3>1 DEF Frames
  <2>2. CASE k # Len(stack)
    BY <1>1, <2>2, DepthParts, RestOfStack
  <2>3. QED
    BY <2>1, <2>2
<1>4. stack'[1].todo = <<>>
  <2>1. CASE Len(stack) = 1
    <3>1. stack'[1] = [Top EXCEPT !.todo = Tail(@)] /\ Top.todo = <<root>>
      BY <1>1, <2>1, DepthParts, RestOfStack DEF DepthInv
    <3>2. QED
      BY <1>1, <3>1 DEF Frames
  <2>2. CASE Len(stack) # 1
    <3>1. stack'[1] = stack[1]
      BY <1>1, <2>2, DepthParts, RestOfStack
    <3>2. log # <<>>
      BY <2>2, ComesTo
    <3>3. QED
      BY <1>1, <3>1, <3>2 DEF DepthInv
  <2>3. QED
    BY <2>1, <2>2
<1>5. ASSUME NEW k \in (DOMAIN stack) \ {1}
      PROVE  FrameOpen(k)'
  <2>1. PICK i \in DOMAIN log : log[i].node = stack[k].node /\ OpenSince(i)
    BY FrameChildren
  <2>2. OpenSince(i)'
    BY <2>1, OpenKept
  <2>3. i \in DOMAIN log' /\ log'[i].node = stack'[k].node
    BY <1>2, <1>3, <2>1
  <2>4. QED
    BY <2>2, <2>3 DEF FrameOpen
<1>6. ASSUME NEW k \in (DOMAIN stack) \ {1}, NEW i \in DOMAIN log',
             log'[i].node = stack'[k].node
      PROVE  i \in DOMAIN log
  <2>1. stack[k].node # n
    BY FrameChildren, ComesTo
  <2>2. i # Len(log) + 1
    BY <1>2, <1>3, <1>6, <2>1
  <2>3. QED
    BY <1>2, <2>2
<1>7. ASSUME NEW k \in (DOMAIN stack) \ {1}, NEW l \in (DOMAIN stack) \ {1}, k < l
      PROVE  Later(k, l)'
  <2> SUFFICES ASSUME NEW i \in DOMAIN log', NEW j \in DOMAIN log',
                      log'[i].node = stack'[k].node, log'[j].node = stack'[l].node
               PROVE  i < j
    BY DEF Later
  <2>1. i \in DOMAIN log /\ j \in DOMAIN log
    BY <1>6
  <2>2. log[i].node = stack[k].node /\ log[j].node = stack[l].node
    BY <1>2, <1>3, <2>1
  <2>3. QED
    BY <1>7, <2>1, <2>2 DEF DepthInv
<1>8. \A k \in DOMAIN stack : Fresh(stack[k].todo)'
  BY FreshKept
<1>9. QED
  BY <1>4, <1>5, <1>6, <1>7, <1>8

\* The invariant, from its clauses for the frames.
LEMMA DepthFromClauses ==
    ASSUME InheritInv', DepthFirst', DOMAIN stack' = 1..Len(stack'),
           stack' # <<>> => stack'[1].todo = <<>> \/ (log' = <<>> /\ stack'[1].todo = <<root'>>),
           \A k \in (DOMAIN stack') \ {1} : FrameOpen(k)',
           \A k, l \in (DOMAIN stack') \ {1} : k < l => Later(k, l)',
           \A k \in DOMAIN stack' : Fresh(stack[k].todo)'
    PROVE  DepthInv'
  BY DEF DepthInv, FrameOpen, Later

\* Every step of the walk keeps the order of the visits.
LEMMA DepthStep == DepthInv /\ [WalkNext]_walkVars => DepthInv'
<1> SUFFICES ASSUME DepthInv, [WalkNext]_walkVars PROVE DepthInv'
  OBVIOUS
<1>0. /\ WalkTypeOK /\ HaltInv /\ InheritInv' /\ DepthFirst
      /\ Len(log) \in Nat /\ DOMAIN log = 1..Len(log)
      /\ \A k \in (DOMAIN stack) \ {1} : FrameOpen(k)
      /\ \A k, l \in (DOMAIN stack) \ {1} : k < l => Later(k, l)
      /\ \A k \in DOMAIN stack : Fresh(stack[k].todo)
  <2>1. WalkTypeOK /\ HaltInv /\ InheritInv' /\ DepthFirst
    BY DepthParts, InheritStep DEF InheritInv
  <2>2. Len(log) \in Nat /\ DOMAIN log = 1..Len(log)
    BY DepthParts
  <2>3. QED
    BY <2>1, <2>2 DEF DepthInv, FrameOpen, Later
<1>1. ASSUME NEW n \in Nodes, NEW v \in Visitors \cup {Nil}, Call(n, v)
      PROVE  DepthInv'
  <2>1. /\ stack' = <<[node |-> Nil, todo |-> <<n>>, v |-> v]>>
        /\ root' = n /\ log' = <<>>
    BY <1>0, <1>1 DEF Call, HaltInv
  <2>2. DOMAIN log' = {} /\ DOMAIN stack' = {1} /\ Len(stack') = 1
    BY <2>1
  <2>3. DepthFirst'
    BY <2>2 DEF DepthFirst
  <2>4. stack'[1].todo = <<n>>
    BY <2>1
  <2>5. IsInjective(<<n>>)
    BY DEF IsInjective
  <2>6. Fresh(stack[1].todo)'
    BY <2>2, <2>4, <2>5 DEF Fresh, IsInjective
  <2>7. QED
    BY <1>0, <2>1, <2>2, <2>3, <2>4, <2>6 DEF DepthInv
<1>2. ASSUME NEW n \in Nodes, Skip(n) \/ VisitFails(n)
      PROVE  DepthInv'
  <2>1. PICK got \in {Nil, "error"} : Visited(n, got)
    BY <1>2 DEF Skip, VisitFails
  <2>2. Calls(n) /\ stack' = Rest /\ stack # <<>> /\ Top.todo # <<>>
    BY <1>2 DEF Skip, VisitFails, Calls
  <2>3. DOMAIN stack' = DOMAIN stack /\ DOMAIN stack' = 1..Len(stack')
    BY <1>0, <2>2, TopFrame, RestOfStack
  <2>4. /\ stack'[1].todo = <<>>
        /\ \A k \in (DOMAIN stack) \ {1} : FrameOpen(k)'
        /\ \A k, l \in (DOMAIN stack) \ {1} : k < l => Later(k, l)'
        /\ \A k \in DOMAIN stack : Fresh(stack[k].todo)'
    BY <2>1, <2>2, <2>3, FramesKept
  <2>5. DepthFirst'
    BY <2>1, <2>2, VisitInOrder
  <2>6. QED
    BY <1>0, <2>3, <2>4, <2>5, DepthFromClauses
<1>3. ASSUME NEW n \in Nodes, NEW v \in Visitors, Descend(n, v)
      PROVE  DepthInv'
  <2>1. /\ Calls(n) /\ Visited(n, v) /\ stack # <<>> /\ Top.todo # <<>>
        /\ stack' = Append(Rest, Frame(n, v))
    BY <1>3 DEF Descend, Calls
  <2>2. /\ Len(stack) \in Nat \ {0} /\ DOMAIN stack = 1..Len(stack)
        /\ Rest \in Seq(Frames) /\ Len(Rest) = Len(stack)
    BY <1>0, <2>1, TopFrame, RestOfStack
  <2>3. Frame(n, v) \in Frames
    BY ChildrenType DEF Frame, Frames
  <2>t. PICK t \in Nat \ {0} : t = Len(stack) + 1
    BY <2>2
  <2>4. /\ DOMAIN stack' = 1..t /\ Len(stack') = t
        /\ stack'[t] = Frame(n, v)
        /\ \A k \in DOMAIN stack : k \in DOMAIN stack' /\ stack'[k] = Rest[k]
    BY <2>1, <2>2, <2>3, <2>t
  <2>5. /\ stack'[1].todo = <<>>
        /\ \A k \in (DOMAIN stack) \ {1} : FrameOpen(k)'
        /\ \A k \in DOMAIN stack : \A i \in DOMAIN log' :
              k # 1 /\ log'[i].node = stack'[k].node => i \in DOMAIN log
        /\ \A k, l \in (DOMAIN stack) \ {1} : k < l => Later(k, l)'
        /\ \A k \in DOMAIN stack : Fresh(stack[k].todo)'
    BY <2>1, <2>4, FramesKept
  <2>6. DepthFirst'
    BY <2>1, VisitInOrder
  <2>7. /\ stack'[t].node = n /\ stack'[t].todo = Children[n]
        /\ DOMAIN log' = 1..(Len(log) + 1) /\ Len(log') = Len(log) + 1
        /\ log'[Len(log) + 1].node = n
        /\ \A i \in DOMAIN log : log'[i] = log[i]
    <3>1. stack'[t].node = n /\ stack'[t].todo = Children[n]
      BY <2>4 DEF Frame
    <3>2. /\ DOMAIN log' = 1..(Len(log) + 1) /\ Len(log') = Len(log) + 1
          /\ log'[Len(log) + 1].node = n
          /\ \A i \in DOMAIN log : log'[i] = log[i]
      BY <1>0, <2>1, LogGrows
    <3>3. QED
      BY <3>1, <3>2
  <2>8. \A i \in DOMAIN log' : i \in DOMAIN log \/ i = Len(log) + 1
    BY <1>0, <2>7
  <2>9. FrameOpen(t)'
    <3>1. PICK i \in Nat : i = Len(log) + 1
      BY <1>0
    <3>2. i \in DOMAIN log' /\ log'[i].node = stack'[t].node /\ (i + 1)..Len(log') = {}
      BY <1>0, <2>7, <3>1
    <3>3. OpenSince(i)'
      BY <3>2 DEF OpenSince
    <3>4. QED
      BY <3>2, <3>3 DEF FrameOpen
  <2>10. ASSUME NEW k \in (DOMAIN stack) \ {1}
         PROVE  Later(k, t)'
    <3> SUFFICES ASSUME NEW i \in DOMAIN log', NEW j \in DOMAIN log',
                        log'[i].node = stack'[k].node, log'[j].node = stack'[t].node
                 PROVE  i < j
      BY DEF Later
    <3>1. i \in DOMAIN log
      BY <2>5
    <3>2. j = Len(log) + 1
      BY <2>1, <2>7, <2>8, ComesTo
    <3>3. QED
      BY <1>0, <3>1, <3>2
  <2>11. Fresh(stack[t].todo)'
    <3>1. \A m \in ToSet(Children[n]) : m # n /\ \A j \in DOMAIN log : log[j].node # m
      BY <2>1, NothingBelow
    <3>2. \A i \in DOMAIN log' : log'[i].node \notin ToSet(Children[n])
      BY <2>7, <2>8, <3>1
    <3>3. IsInjective(Children[n])
      BY TreeAssumption
    <3>4. QED
      BY <2>7, <3>2, <3>3 DEF Fresh, IsInjective
  <2>12. \A k \in DOMAIN stack' : k \in DOMAIN stack \/ k = t
    BY <2>2, <2>4, <2>t
  <2>13. t # 1 /\ \A k, l \in DOMAIN stack' : k < l => k \in DOMAIN stack
    BY <2>2, <2>4, <2>t
  <2>14. \A k \in (DOMAIN stack') \ {1} : FrameOpen(k)'
    BY <2>5, <2>9, <2>12
  <2>15. \A k, l \in (DOMAIN stack') \ {1} : k < l => Later(k, l)'
    BY <2>5, <2>10, <2>12, <2>13
  <2>16. \A k \in DOMAIN stack' : Fresh(stack[k].todo)'
    BY <2>5, <2>11, <2>12
  <2>17. QED
    BY <1>0, <2>4, <2>5, <2>6, <2>14, <2>15, <2>16, DepthFromClauses
<1>4. CASE NoVisitor
  <2>1. /\ stack # <<>> /\ Top.todo # <<>> /\ stack' = Rest
        /\ UNCHANGED <<root, start, err, log, result>>
    BY <1>4 DEF NoVisitor
  <2>2. /\ Len(stack) \in Nat \ {0} /\ DOMAIN stack = 1..Len(stack)
        /\ DOMAIN stack' = DOMAIN stack /\ DOMAIN stack' = 1..Len(stack')
        /\ Top = stack[Len(stack)] /\ Top \in Frames
    BY <1>0, <2>1, TopFrame, RestOfStack
  <2>3. ASSUME NEW k \in DOMAIN stack
        PROVE  /\ stack'[k].node = stack[k].node
               /\ stack'[k].todo = stack[k].todo
                    \/ (k = Len(stack) /\ stack'[k].todo = Tail(Top.todo))
    <3>1. CASE k = Len(stack)
      <4>1. stack'[k] = [Top EXCEPT !.todo = Tail(@)]
        BY <1>0, <2>1, <3>1, RestOfStack
      <4>2. QED
        BY <2>2, <3>1, <4>1 DEF Frames
    <3>2. CASE k # Len(stack)
      BY <1>0, <2>1, <2>2, <3>2, RestOfStack
    <3>3. QED
      BY <3>1, <3>2
  <2>4. \A k \in (DOMAIN stack) \ {1} : FrameOpen(k)'
    BY <1>0, <2>1, <2>3 DEF FrameOpen, OpenSince
  <2>5. \A k, l \in (DOMAIN stack) \ {1} : k < l => Later(k, l)'
    BY <1>0, <2>1, <2>3 DEF Later
  <2>6. ASSUME NEW k \in DOMAIN stack PROVE Fresh(stack[k].todo)'
    <3>1. Fresh(stack[k].todo)
      BY <1>0
    <3>2. CASE k = Len(stack) /\ stack'[k].todo = Tail(Top.todo)
      <4>1. Top.todo \in Seq(Nodes) /\ IsInjective(Top.todo)
        BY <2>2, <3>1, <3>2 DEF Frames, Fresh
      <4>2. IsInjective(Tail(Top.todo)) /\ ToSet(Tail(Top.todo)) \subseteq ToSet(Top.todo)
        BY <1>0, <2>1, <4>1, FirstTaken, TopFrame
      <4>3. QED
        BY <2>1, <2>2, <3>1, <3>2, <4>2 DEF Fresh, IsInjective
    <3>3. CASE stack'[k].todo = stack[k].todo
      BY <2>1, <3>1, <3>3 DEF Fresh, IsInjective
    <3>4. QED
      BY <2>3, <3>2, <3>3
  <2>7. stack'[1].todo = <<>> \/ (log' = <<>> /\ stack'[1].todo = <<root'>>)
    <3>1. 1 \in DOMAIN stack
      BY <2>2
    <3>2. stack[1].todo = <<>> \/ (log = <<>> /\ stack[1].todo = <<root>>)
      BY <2>1 DEF DepthInv
    <3>3. Tail(<<root>>) = <<>>
      OBVIOUS
    <3>4. QED
      BY <2>1, <2>2, <2>3, <3>1, <3>2, <3>3
  <2>8. DepthFirst'
    BY <1>0, <2>1 DEF DepthFirst
  <2>9. QED
    BY <1>0, <2>2, <2>4, <2>5, <2>6, <2>7, <2>8, DepthFromClauses
<1>5. CASE Return \/ Unwind
  <2>1. stack # <<>> /\ Pop /\ UNCHANGED <<root, start, err, log>>
    BY <1>5 DEF Return, Unwind
  <2>2. /\ DOMAIN stack' = 1..Len(stack')
        /\ \A k \in DOMAIN stack' : k \in DOMAIN stack /\ stack'[k] = stack[k]
        /\ stack' # <<>> => 1 \in DOMAIN stack'
    <3>1. /\ stack' \in Seq(Frames) /\ Len(stack') = Len(stack) - 1
          /\ DOMAIN stack' = 1..(Len(stack) - 1)
          /\ \A k \in DOMAIN stack' : stack'[k] = stack[k]
      BY <1>0, <2>1, PopStack
    <3>2. DOMAIN stack = 1..Len(stack) /\ Len(stack) \in Nat
      BY <1>0, <2>1, TopFrame
    <3>3. stack' # <<>> => Len(stack') # 0 /\ Len(stack') \in Nat
      BY <3>1, EmptySeq, LenProperties
    <3>4. QED
      BY <3>1, <3>2, <3>3
  <2>3. \A k \in (DOMAIN stack') \ {1} : FrameOpen(k)'
    BY <1>0, <2>1, <2>2 DEF FrameOpen, OpenSince
  <2>4. \A k, l \in (DOMAIN stack') \ {1} : k < l => Later(k, l)'
    BY <1>0, <2>1, <2>2 DEF Later
  <2>5. \A k \in DOMAIN stack' : Fresh(stack[k].todo)'
    BY <1>0, <2>1, <2>2 DEF Fresh, IsInjective
  <2>6. stack' # <<>> => stack'[1].todo = <<>> \/ (log' = <<>> /\ stack'[1].todo = <<root'>>)
    BY <2>1, <2>2 DEF DepthInv
  <2>7. DepthFirst'
    BY <1>0, <2>1 DEF DepthFirst
  <2>8. QED
    BY <1>0, <2>2, <2>3, <2>4, <2>5, <2>6, <2>7, DepthFromClauses
<1>6. CASE UNCHANGED walkVars
  BY <1>0, <1>6 DEF walkVars, DepthInv, DepthFirst, OpenSince, Fresh, IsInjective
<1>7. QED
  BY <1>1, <1>2, <1>3, <1>4, <1>5, <1>6 DEF WalkNext

\* node.go, the accept methods: in any tree, a walk is depth first.  No node is
\* visited twice, and all that is visited between a node and a child of it is below
\* that node.
THEOREM WalksDepthFirst == Spec => []DepthFirst
<1>1. Init => DepthInv
  <2> SUFFICES ASSUME Init PROVE DepthInv
    OBVIOUS
  <2>1. DOMAIN log = {} /\ stack = <<>> /\ DOMAIN stack = {}
    BY DEF Init, WalkInit
  <2>2. QED
    BY <2>1, InheritInit DEF DepthInv, DepthFirst
<1>2. DepthInv /\ [Next]_vars => DepthInv'
  BY TourStep, DepthStep
<1>3. DepthInv => DepthFirst
  BY DEF DepthInv
<1>4. QED
  BY <1>1, <1>2, <1>3, PTL DEF Spec

-----------------------------------------------------------------------------
(* What is in the file, and where it is declared.                          *)

\* What a node holds, in whichever list.
Held(n) == UNION {ToSet(Decl[n][l]) : l \in Lists}

\* No node is below itself, those without lists included.
LEMMA HeldNoCycle ==
  /\ NoCycle(Nodes, [n \in Nodes |-> Held(n)])
  /\ \A n \in Nodes : Held(n) \in SUBSET Nodes
<1>1. ASSUME NEW n \in Nodes PROVE Held(n) \in SUBSET Nodes
  <2>1. \A l \in Lists : Decl[n][l] \in Seq(Nodes)
    BY NodesAssumption
  <2>2. \A l \in Lists : ToSet(Decl[n][l]) \in SUBSET Nodes
    BY <2>1 DEF ToSet
  <2> QED BY <2>2 DEF Held
<1> DEFINE holds == [n \in Nodes |-> Held(n)]
           With == {n \in Nodes : \E l \in Lists : Decl[n][l] # <<>>}
<1>2. holds \in [Nodes -> SUBSET Nodes]
  BY <1>1
<1>3. ASSUME NEW S \in (SUBSET Nodes) \ {{}} PROVE \E n \in S : holds[n] \cap S = {}
  <2>1. \E n \in S : \A l \in Lists : ToSet(Decl[n][l]) \cap S = {}
    <3>1. CASE S \subseteq With
      <4>1. S \in (SUBSET With) \ {{}}
        BY <3>1
      <4> QED BY <4>1, NestingAssumption
    <3>2. CASE ~(S \subseteq With)
      <4>1. PICK n \in S : \A l \in Lists : Decl[n][l] = <<>>
        BY <3>2
      <4>2. \A l \in Lists : ToSet(Decl[n][l]) = {}
        BY <4>1 DEF ToSet
      <4> QED BY <4>2
    <3> QED BY <3>1, <3>2
  <2>2. PICK n \in S : \A l \in Lists : ToSet(Decl[n][l]) \cap S = {}
    BY <2>1
  <2>3. holds[n] = Held(n)
    OBVIOUS
  <2> QED BY <2>2, <2>3 DEF Held
<1> QED BY <1>1, <1>2, <1>3, NestingAssumption DEF NoCycle

\* What is in the file are nodes.
LEMMA EntitiesAreNodes == Entities \in SUBSET Nodes
<1> DEFINE X == SUBSET Nodes
           holds == [n \in Nodes |-> Held(n)]
           all(n, h) == {n} \cup UNION {UNION {h[m] : m \in ToSet(Decl[n][l])} : l \in Lists}
           step == [n \in Nodes |-> [h \in [Nodes -> X] |-> all(n, h)]]
           F(h) == h = [n \in Nodes |-> all(n, h)]
           chosen == CHOOSE h : F(h)
<1>1. Entities = chosen[file]
  BY DEF Entities
<1>2. ASSUME NEW n \in Nodes, NEW h, \A m \in Held(n) : h[m] \in X PROVE all(n, h) \in X
  <2>1. \A l \in Lists : \A m \in ToSet(Decl[n][l]) : m \in Held(n)
    BY DEF Held
  <2> QED BY <1>2, <2>1
<1>3. MadeOfNeeds(Nodes, holds, X, step)
  <2>1. step \in [Nodes -> [[Nodes -> X] -> X]]
    <3>1. \A n \in Nodes, h \in [Nodes -> X] : \A m \in Held(n) : h[m] \in X
      BY HeldNoCycle
    <3> HIDE DEF all, X
    <3>2. \A n \in Nodes, h \in [Nodes -> X] : all(n, h) \in X
      BY <1>2, <3>1
    <3> QED BY <3>2
  <2>2. ASSUME NEW n \in Nodes, NEW h \in [Nodes -> X], NEW j \in [Nodes -> X],
               \A k \in holds[n] : h[k] = j[k]
        PROVE  step[n][h] = step[n][j]
    <3>1. \A l \in Lists : \A m \in ToSet(Decl[n][l]) : h[m] = j[m]
      BY <2>2 DEF Held
    <3>2. \A l \in Lists : {h[m] : m \in ToSet(Decl[n][l])} = {j[m] : m \in ToSet(Decl[n][l])}
      BY <3>1
    <3>3. all(n, h) = all(n, j)
      BY <3>2
    <3> HIDE DEF all, X
    <3> QED BY <3>3
  <2> HIDE DEF step, holds, X
  <2> QED BY <2>1, <2>2 DEF MadeOfNeeds
<1>4. PICK h \in [Nodes -> X] : \A n \in Nodes : h[n] = step[n][h]
  <2>1. X # {}
    OBVIOUS
  <2>2. NoCycle(Nodes, holds)
    BY HeldNoCycle
  <2> HIDE DEF step, holds, X
  <2>3. Solutions(Nodes, X, step) # {}
    BY <1>3, <2>1, <2>2, Recursive
  <2> QED BY <2>3 DEF Solutions
<1>5. h \in [Nodes -> X] /\ F(h)
  <2> HIDE DEF all, X
  <2>1. \A n \in Nodes : h[n] = all(n, h)
    BY <1>4
  <2> QED BY <2>1
<1>6. F(chosen)
  <2> HIDE DEF F
  <2> QED BY <1>5
<1>7. \A n \in Nodes : chosen[n] = all(n, chosen)
  <2> HIDE DEF all, chosen
  <2> QED BY <1>6
<1> DEFINE Bad == {n \in Nodes : chosen[n] \notin X}
<1>8. Bad = {}
  <2> SUFFICES ASSUME Bad # {} PROVE FALSE
    OBVIOUS
  <2>1. PICK n \in Bad : Held(n) \cap Bad = {}
    <3> HIDE DEF Bad
    <3>1. Bad \in (SUBSET Nodes) \ {{}}
      BY DEF Bad
    <3>2. PICK n \in Bad : holds[n] \cap Bad = {}
      BY <3>1, HeldNoCycle DEF NoCycle
    <3> QED BY <3>1, <3>2
  <2>2. \A k \in Held(n) : chosen[k] \in X
    <3> HIDE DEF chosen, X
    <3> QED BY <2>1, HeldNoCycle
  <2> HIDE DEF all, chosen, X
  <2>3. all(n, chosen) \in X
    BY <1>2, <2>2
  <2> QED BY <1>7, <2>1, <2>3
<1> HIDE DEF chosen
<1> QED BY <1>1, <1>8, FileAssumption

\* Two places of declaration are of different lists, or of different fields.
LEMMA FieldsAreApart ==
  \A f, g \in DeclarationFields :
     /\ f[1] = g[1] /\ f[2] = g[2] => f = g
     /\ f = <<f[1], f[2], f[3]>> /\ f[3] \in Lists /\ f[1] \in Kinds /\ f[2] \in Nat
     /\ ListKind[f[3]] # "file"
<1>1. \A f \in DeclarationFields :
         /\ f = <<f[1], f[2], f[3]>> /\ f[3] \in Lists /\ f[1] \in Kinds /\ f[2] \in Nat
         /\ ListKind[f[3]] # "file"
  BY DEF DeclarationFields, Lists, Kinds, ListKind
<1>2. \A f, g \in DeclarationFields : f[1] = g[1] /\ f[2] = g[2] => f = g
  BY SMTT(30) DEF DeclarationFields
<1> QED BY <1>1, <1>2

\* The lists that childAtPath indexes are those that descriptor.proto says, without
\* those of extensions.
LEMMA FollowedIs ==
  ASSUME NEW kind, NEW code, NEW l
  PROVE  l = Followed(kind, code) /\ l # "none"
            <=> <<kind, code, l>> \in DeclarationFields /\ l # "defExts"
<1> USE DEF messageTypePath, enumTypePath, servicePath, messageTypeFieldPath,
            messageTypeNestedTypePath, messageTypeEnumTypePath, messageTypeOneofDeclPath,
            enumTypeValuePath, serviceTypeMethodPath
<1>1. CASE kind = "file"
  BY <1>1 DEF Followed, DeclarationFields
<1>2. CASE kind = "message"
  BY <1>2 DEF Followed, DeclarationFields
<1>3. CASE kind \in {"enum", "service"}
  BY <1>3 DEF Followed, DeclarationFields
<1>4. CASE kind \notin {"file", "message", "enum", "service"}
  BY <1>4 DEF Followed, DeclarationFields
<1> QED BY <1>1, <1>2, <1>3, <1>4

\* What childAtPath does with a pair: what is declared there is found, extensions excepted.
LEMMA ChildIs ==
  ASSUME NEW p \in Nodes, NEW code, NEW index \in Nat, NEW e \in Nodes
  PROVE  Child(p, code, index) = e <=> Declares(p, code, index, e) /\ KindOf[e] # "ext"
<1> DEFINE kind == KindOf[p]
<1>1. kind \in Kinds /\ p # Nobody /\ e # Nobody
  BY NodesAssumption, FileAssumption
<1>2. \A l \in Lists : \A i \in DOMAIN Decl[p][l] :
         KindOf[Decl[p][l][i]] = "ext" <=> l = "defExts"
  <2>1. ASSUME NEW l \in Lists, NEW i \in DOMAIN Decl[p][l]
        PROVE  KindOf[Decl[p][l][i]] = ListKind[l]
    BY KindsAssumption DEF ToSet
  <2> QED BY <2>1 DEF Lists, ListKind
<1> HIDE DEF kind
<1>3. \A l : <<kind, code, l>> \in DeclarationFields => l \in Lists
  BY FieldsAreApart
<1>4. \A l : l = Followed(kind, code) /\ l # "none"
                <=> <<kind, code, l>> \in DeclarationFields /\ l # "defExts"
  BY FollowedIs
<1>5. ASSUME Child(p, code, index) = e
      PROVE  Declares(p, code, index, e) /\ KindOf[e] # "ext"
  <2> DEFINE l == Followed(kind, code)
  <2>1. /\ l # "none" /\ index + 1 \in DOMAIN Decl[p][l]
        /\ Decl[p][l][index + 1] = e
    BY <1>1, <1>5 DEF Child, List, kind
  <2>2. <<kind, code, l>> \in DeclarationFields /\ l # "defExts" /\ l \in Lists
    BY <1>3, <1>4, <2>1
  <2> HIDE DEF l
  <2> QED BY <1>2, <2>1, <2>2 DEF Declares, kind
<1>6. ASSUME Declares(p, code, index, e), KindOf[e] # "ext"
      PROVE  Child(p, code, index) = e
  <2>1. PICK l \in Lists : /\ <<kind, code, l>> \in DeclarationFields
                           /\ index + 1 \in DOMAIN Decl[p][l] /\ Decl[p][l][index + 1] = e
    BY <1>6 DEF Declares, kind
  <2>2. l = Followed(kind, code) /\ l # "none"
    BY <1>2, <1>4, <1>6, <2>1
  <2> QED BY <1>1, <2>1, <2>2 DEF Child, List, kind
<1> QED BY <1>5, <1>6

\* A path goes on below what it has found only.
LEMMA ChildOfNobody ==
  /\ \A code, index : Child(Nobody, code, index) = Nobody
  /\ \A p \in Nodes : \A code, index \in Nat : Child(p, code, index) \in Nodes \cup {Nobody}
<1>1. \A code, index : Child(Nobody, code, index) = Nobody
  BY DEF Child
<1>2. ASSUME NEW p \in Nodes, NEW code \in Nat, NEW index \in Nat
      PROVE  Child(p, code, index) \in Nodes \cup {Nobody}
  <2> DEFINE l == Followed(KindOf[p], code)
  <2>1. CASE l # "none" /\ index + 1 \in DOMAIN Decl[p][l]
    <3>2. <<KindOf[p], code, l>> \in DeclarationFields
      BY <2>1, FollowedIs
    <3>3. l \in Lists
      BY <3>2, FieldsAreApart
    <3>4. Decl[p][l] \in Seq(Nodes)
      BY <3>3, NodesAssumption
    <3> HIDE DEF l
    <3>5. Decl[p][l][index + 1] \in Nodes
      BY <2>1, <3>4
    <3> QED BY <3>5 DEF Child, List, l
  <2>2. CASE ~(l # "none" /\ index + 1 \in DOMAIN Decl[p][l])
    BY <2>2 DEF Child, List
  <2> QED BY <2>1, <2>2
<1> QED BY <1>1, <1>2

\* The entities that childAtPath comes through.
IsTaken(path, n, at) ==
    /\ at \in [0..n -> Nodes \cup {Nobody}]
    /\ at[0] = file /\ at[n] = ChildAtPath(path)
    /\ \A i \in 1..n : at[i] = Child(at[i - 1], path[2 * i - 1], path[2 * i])

FoundBy(path, n) ==
    FoldLeft(LAMBDA e, i : Child(e, path[2 * i - 1], path[2 * i]), file, [i \in 1..n |-> i])

\* A path of n pairs is taken from the file down, one after the other.
LEMMA PathTaken ==
  ASSUME NEW path \in Seq(Nat), NEW n \in Nat, Len(path) = 2 * n
  PROVE  \E at : IsTaken(path, n, at)
<1> DEFINE V == Nodes \cup {Nobody}
           pairs == [i \in 1..n |-> i]
           g == [i \in 1..n |-> [e \in V |-> Child(e, path[2 * i - 1], path[2 * i])]]
           F(it) == it = [T \in SUBSET (DOMAIN pairs) |->
                      IF T = {} THEN file
                      ELSE Child(it[T \ {Max(T)}], path[2 * pairs[Max(T)] - 1],
                                 path[2 * pairs[Max(T)]])]
           chosen == CHOOSE it : F(it)
<1>1. DOMAIN pairs = 1..n /\ \A i \in 1..n : pairs[i] = i
  OBVIOUS
<1>2. ChildAtPath(path) = chosen[DOMAIN pairs]
  <2>1. Len(path) % 2 # 1 /\ Len(path) \div 2 = n
    OBVIOUS
  <2>2. ChildAtPath(path) = FoundBy(path, n)
    BY <2>1 DEF ChildAtPath, FoundBy
  <2>3. FoundBy(path, n) = chosen[DOMAIN pairs]
    BY DEF FoundBy, FoldLeft, MapThenFoldSet
  <2> QED BY <2>2, <2>3
<1>3. g \in Steps(n, V) /\ file \in V
  <2>1. ASSUME NEW i \in 1..n, NEW e \in V PROVE Child(e, path[2 * i - 1], path[2 * i]) \in V
    <3>1. path[2 * i - 1] \in Nat /\ path[2 * i] \in Nat
      <4>1. 2 * i - 1 \in 1..Len(path) /\ 2 * i \in 1..Len(path)
        OBVIOUS
      <4> QED BY <4>1
    <3> QED BY <3>1, ChildOfNobody
  <2> HIDE DEF V
  <2> QED BY <2>1, FileAssumption DEF Steps, V
<1>4. \A i \in 1..n, e \in V : g[i][e] = Child(e, path[2 * i - 1], path[2 * i])
  OBVIOUS
<1> HIDE DEF V, pairs, g
<1>5. \E it : F(it)
  <2>1. PICK it \in FoldsUpTo(n, n, V, g, file) : TRUE
    BY <1>3, FoldsExist
  <2>2. it \in [SUBSET (1..n) -> V] /\ it[{}] = file
    BY <2>1 DEF FoldsUpTo
  <2>3. ASSUME NEW T \in SUBSET (1..n), T # {}
        PROVE  it[T] = Child(it[T \ {Max(T)}], path[2 * pairs[Max(T)] - 1], path[2 * pairs[Max(T)]])
    <3>1. Max(T) \in 1..n
      BY <2>3, MaxPosition
    <3>2. it[T] = g[Max(T)][it[T \ {Max(T)}]]
      BY <2>1, <2>3 DEF FoldsUpTo
    <3>3. it[T \ {Max(T)}] \in V
      BY <2>2
    <3> QED BY <3>1, <3>2, <3>3, <1>1, <1>4
  <2>4. \A T \in SUBSET (1..n) :
           it[T] = IF T = {} THEN file
                   ELSE Child(it[T \ {Max(T)}], path[2 * pairs[Max(T)] - 1], path[2 * pairs[Max(T)]])
    BY <2>2, <2>3
  <2>5. it = [T \in SUBSET (DOMAIN pairs) |-> it[T]]
    BY <1>1, <2>2
  <2>6. F(it)
    BY <1>1, <2>4, <2>5
  <2> QED BY <2>6
<1>6. F(chosen)
  BY <1>5
<1> HIDE DEF chosen
<1>7. chosen[{}] = file
  BY <1>1, <1>6
<1>8. ASSUME NEW T \in SUBSET (1..n), T # {}
      PROVE  chosen[T] = Child(chosen[T \ {Max(T)}], path[2 * Max(T) - 1], path[2 * Max(T)])
  <2>1. Max(T) \in 1..n
    BY <1>8, MaxPosition
  <2> QED BY <2>1, <1>1, <1>6, <1>8
<1> DEFINE at == [i \in 0..n |-> chosen[1..i]]
<1>9. ASSUME NEW i \in 1..n PROVE at[i] = Child(at[i - 1], path[2 * i - 1], path[2 * i])
  <2> HIDE DEF at
  <2>1. 1..i \in SUBSET (1..n) /\ i \in 1..i
    OBVIOUS
  <2>2. Max(1..i) = i
    <3>1. Max(1..i) \in 1..i /\ i <= Max(1..i)
      <4>1. 1..i # {}
        BY <2>1
      <4> QED BY <2>1, <4>1, MaxPosition
    <3> QED BY <3>1
  <2>3. (1..i) \ {i} = 1..(i - 1)
    OBVIOUS
  <2>4. chosen[1..i] = Child(chosen[1..(i - 1)], path[2 * i - 1], path[2 * i])
    BY <1>8, <2>1, <2>2, <2>3
  <2> QED BY <2>4 DEF at
<1>10. at[0] = file /\ at[n] = ChildAtPath(path)
  <2>1. 1..0 = {}
    OBVIOUS
  <2> QED BY <1>1, <1>2, <1>7, <2>1
<1> DEFINE S == {i \in Nat : i <= n => at[i] \in V}
<1>11. Nat \subseteq S
  <2> HIDE DEF at
  <2>1. 0 \in S
    BY <1>3, <1>10
  <2>2. ASSUME NEW i \in Nat, i \in S PROVE i + 1 \in S
    <3>1. CASE i + 1 <= n
      <4>1. at[i + 1] = Child(at[i], path[2 * (i + 1) - 1], path[2 * (i + 1)])
        BY <1>9, <3>1
      <4>2. path[2 * (i + 1) - 1] \in Nat /\ path[2 * (i + 1)] \in Nat
        <5>1. 2 * (i + 1) - 1 \in 1..Len(path) /\ 2 * (i + 1) \in 1..Len(path)
          BY <3>1
        <5> QED BY <5>1
      <4>3. at[i] \in V
        BY <2>2, <3>1
      <4>4. at[i + 1] \in V
        BY <4>1, <4>2, <4>3, ChildOfNobody DEF V
      <4> QED BY <4>4
    <3>2. CASE ~(i + 1 <= n)
      BY <3>2
    <3> QED BY <3>1, <3>2
  <2> HIDE DEF S
  <2> QED BY <2>1, <2>2, NatInduct
<1>12. at \in [0..n -> V]
  <2>1. \A i \in 0..n : at[i] \in V
    <3> HIDE DEF at
    <3> QED BY <1>11
  <2> QED BY <2>1
<1> HIDE DEF at
<1> QED BY <1>9, <1>10, <1>12 DEF IsTaken, V

\* The entities on the way of a path, as descriptor.proto says.
IsWay(path, n, c) ==
    /\ c \in [0..n -> Nodes] /\ Len(path) = 2 * n /\ c[0] = file
    /\ \A i \in 1..n : Declares(c[i - 1], path[2 * i - 1], path[2 * i], c[i])

LEMMA MeantIs ==
  ASSUME NEW path \in Seq(Nat), NEW e
  PROVE  e \in Meant(path) <=> \E n \in Nat : \E c : IsWay(path, n, c) /\ c[n] = e
<1> DEFINE k == Len(path) \div 2
<1>1. k \in Nat /\ \A n \in Nat : Len(path) = 2 * n => n = k
  OBVIOUS
<1> HIDE DEF k
<1>2. e \in Meant(path) <=> \E c : IsWay(path, k, c) /\ c[k] = e
  <2>1. e \in Meant(path) <=>
          \E c \in [0..k -> Nodes] :
             /\ Len(path) = 2 * k /\ c[0] = file
             /\ \A i \in 1..k : Declares(c[i - 1], path[2 * i - 1], path[2 * i], c[i])
             /\ e = c[k]
    BY DEF Meant, k
  <2> QED BY <2>1, Zenon DEF IsWay
<1>3. \A n \in Nat : \A c : IsWay(path, n, c) => n = k
  BY <1>1 DEF IsWay
<1> QED BY <1>1, <1>2, <1>3

\* The nodes on a way are of kinds that declare something; those after the file are
\* not files.
LEMMA WayNodes ==
  ASSUME NEW path, NEW n \in Nat, NEW c, IsWay(path, n, c), NEW i \in 1..n
  PROVE  /\ c[i - 1] \in Nodes /\ c[i] \in Nodes /\ i - 1 \in 0..n /\ i \in 0..n
         /\ KindOf[c[i - 1]] # "ext" /\ KindOf[c[i]] # "file"
<1>1. /\ i - 1 \in 0..n /\ i \in 0..n /\ c[i - 1] \in Nodes /\ c[i] \in Nodes
      /\ Declares(c[i - 1], path[2 * i - 1], path[2 * i], c[i])
  BY DEF IsWay
<1>2. PICK l \in Lists :
         /\ <<KindOf[c[i - 1]], path[2 * i - 1], l>> \in DeclarationFields
         /\ path[2 * i] + 1 \in DOMAIN Decl[c[i - 1]][l]
         /\ Decl[c[i - 1]][l][path[2 * i] + 1] = c[i]
  BY <1>1 DEF Declares
<1>3. KindOf[c[i - 1]] # "ext"
  BY <1>2 DEF DeclarationFields
<1>4. KindOf[c[i]] = ListKind[l]
  BY <1>1, <1>2, KindsAssumption DEF ToSet
<1>5. ListKind[l] # "file"
  <2> DEFINE f == <<KindOf[c[i - 1]], path[2 * i - 1], l>>
  <2>1. f \in DeclarationFields /\ f[3] = l
    BY <1>2
  <2> HIDE DEF f
  <2> QED BY <2>1, FieldsAreApart
<1> QED BY <1>1, <1>3, <1>4, <1>5

\* The two numbers of a pair of a path.
LEMMA PairOfPath ==
  ASSUME NEW path \in Seq(Nat), NEW n \in Nat, Len(path) = 2 * n, NEW i \in 1..n
  PROVE  path[2 * i - 1] \in Nat /\ path[2 * i] \in Nat
<1>1. 2 * i - 1 \in 1..Len(path) /\ 2 * i \in 1..Len(path)
  OBVIOUS
<1> QED BY <1>1

\* childAtPath finds what the path stands for, if it is no extension.
LEMMA ChildAtPathIs ==
  ASSUME NEW path \in Seq(Nat), NEW e \in Nodes, KindOf[e] # "ext"
  PROVE  ChildAtPath(path) = e <=> e \in Meant(path)
<1>1. ASSUME ChildAtPath(path) = e PROVE e \in Meant(path)
  <2> DEFINE n == Len(path) \div 2
  <2>1. Len(path) = 2 * n /\ n \in Nat
    <3>1. Len(path) % 2 # 1
      BY <1>1, FileAssumption DEF ChildAtPath
    <3> QED BY <3>1
  <2> HIDE DEF n
  <2>2. PICK at : IsTaken(path, n, at)
    BY <2>1, PathTaken
  <2> DEFINE S == {k \in Nat : k <= n => at[n - k] \in Nodes}
  <2>3. 0 \in S
    BY <1>1, <2>1, <2>2 DEF IsTaken
  <2>4. ASSUME NEW k \in Nat, k \in S PROVE k + 1 \in S
    <3> SUFFICES ASSUME k + 1 <= n PROVE at[n - (k + 1)] \in Nodes
      OBVIOUS
    <3>1. n - k \in 1..n /\ n - k - 1 \in 0..n /\ n - (k + 1) = n - k - 1
      BY <2>1
    <3>2. at[n - k] \in Nodes
      BY <2>1, <2>4
    <3>3. at[n - k] = Child(at[n - k - 1], path[2 * (n - k) - 1], path[2 * (n - k)])
      BY <2>2, <3>1 DEF IsTaken
    <3>4. at[n - k - 1] # Nobody
      BY <3>2, <3>3, ChildOfNobody, FileAssumption
    <3>5. at[n - k - 1] \in Nodes \cup {Nobody}
      BY <2>2, <3>1 DEF IsTaken
    <3> QED BY <3>1, <3>4, <3>5
  <2>5. Nat \subseteq S
    <3> HIDE DEF S
    <3> QED BY <2>3, <2>4, NatInduct
  <2>6. \A i \in 0..n : at[i] \in Nodes
    <3> SUFFICES ASSUME NEW i \in 0..n PROVE at[i] \in Nodes
      OBVIOUS
    <3>1. n - i \in Nat /\ n - i <= n /\ n - (n - i) = i
      BY <2>1
    <3> QED BY <2>5, <3>1
  <2>7. \A i \in 1..n : Declares(at[i - 1], path[2 * i - 1], path[2 * i], at[i])
    <3> SUFFICES ASSUME NEW i \in 1..n
                 PROVE  Declares(at[i - 1], path[2 * i - 1], path[2 * i], at[i])
      OBVIOUS
    <3>1. i - 1 \in 0..n /\ i \in 0..n /\ path[2 * i - 1] \in Nat /\ path[2 * i] \in Nat
      BY <2>1, PairOfPath
    <3>2. at[i] = Child(at[i - 1], path[2 * i - 1], path[2 * i])
      BY <2>2 DEF IsTaken
    <3> QED BY <2>6, <3>1, <3>2, ChildIs
  <2>8. IsWay(path, n, at) /\ at[n] = e
    <3>1. at \in [0..n -> Nodes]
      BY <2>2, <2>6 DEF IsTaken
    <3> QED BY <1>1, <2>1, <2>2, <2>7, <3>1 DEF IsTaken, IsWay
  <2> QED BY <2>1, <2>8, MeantIs
<1>2. ASSUME e \in Meant(path) PROVE ChildAtPath(path) = e
  <2>1. PICK n \in Nat : \E c : IsWay(path, n, c) /\ c[n] = e
    BY <1>2, MeantIs
  <2>2. PICK c : IsWay(path, n, c) /\ c[n] = e
    BY <2>1
  <2>3. Len(path) = 2 * n
    BY <2>2 DEF IsWay
  <2>4. PICK at : IsTaken(path, n, at)
    BY <2>3, PathTaken
  <2> DEFINE S == {k \in Nat : k <= n => at[k] = c[k]}
  <2>5. 0 \in S
    BY <2>2, <2>4 DEF IsWay, IsTaken
  <2>6. ASSUME NEW k \in Nat, k \in S PROVE k + 1 \in S
    <3> SUFFICES ASSUME k + 1 <= n PROVE at[k + 1] = c[k + 1]
      OBVIOUS
    <3> DEFINE i == k + 1
    <3>1. i \in 1..n /\ i - 1 = k /\ k <= n
      OBVIOUS
    <3> HIDE DEF i
    <3>2. /\ c[i - 1] \in Nodes /\ c[i] \in Nodes /\ KindOf[c[i - 1]] # "ext"
          /\ Declares(c[i - 1], path[2 * i - 1], path[2 * i], c[i])
      BY <2>2, <3>1, WayNodes DEF IsWay
    <3>3. KindOf[c[i]] # "ext"
      <4>1. CASE i = n
        BY <2>2, <4>1
      <4>2. CASE i # n
        <5>1. i + 1 \in 1..n /\ (i + 1) - 1 = i
          BY <3>1, <4>2
        <5> QED BY <2>2, <5>1, WayNodes
      <4> QED BY <4>1, <4>2
    <3>4. path[2 * i - 1] \in Nat /\ path[2 * i] \in Nat
      BY <2>3, <3>1, PairOfPath
    <3>5. Child(c[i - 1], path[2 * i - 1], path[2 * i]) = c[i]
      BY <3>2, <3>3, <3>4, ChildIs
    <3>6. at[i] = Child(at[i - 1], path[2 * i - 1], path[2 * i])
      BY <2>4, <3>1 DEF IsTaken
    <3>7. at[i - 1] = c[i - 1]
      BY <2>6, <3>1
    <3> QED BY <3>5, <3>6, <3>7 DEF i
  <2>7. Nat \subseteq S
    <3> HIDE DEF S
    <3> QED BY <2>5, <2>6, NatInduct
  <2>8. at[n] = c[n]
    BY <2>7
  <2> QED BY <2>2, <2>4, <2>8 DEF IsTaken
<1> QED BY <1>1, <1>2

\* What is declared twice is declared in one place.
LEMMA OneDeclaration ==
  ASSUME NEW a \in Nodes, NEW b \in Nodes, NEW f \in Nat, NEW g \in Nat,
         NEW i \in Nat, NEW j \in Nat, NEW e, Declares(a, f, i, e), Declares(b, g, j, e)
  PROVE  a = b /\ f = g /\ i = j
<1>1. PICK l \in Lists : /\ <<KindOf[a], f, l>> \in DeclarationFields
                         /\ i + 1 \in DOMAIN Decl[a][l] /\ Decl[a][l][i + 1] = e
  BY DEF Declares
<1>2. PICK k \in Lists : /\ <<KindOf[b], g, k>> \in DeclarationFields
                         /\ j + 1 \in DOMAIN Decl[b][k] /\ Decl[b][k][j + 1] = e
  BY DEF Declares
<1> DEFINE u == <<KindOf[a], f, l>>
           v == <<KindOf[b], g, k>>
<1>3. /\ u \in DeclarationFields /\ u[1] = KindOf[a] /\ u[2] = f /\ u[3] = l
      /\ v \in DeclarationFields /\ v[1] = KindOf[b] /\ v[2] = g /\ v[3] = k
  BY <1>1, <1>2
<1> HIDE DEF u, v
<1>4. u = v /\ a = b /\ i + 1 = j + 1
  <2>1. a \in {n \in Nodes : KindOf[n] = u[1]} /\ b \in {n \in Nodes : KindOf[n] = v[1]}
    BY <1>3
  <2>2. /\ i + 1 \in DOMAIN Decl[a][u[3]] /\ j + 1 \in DOMAIN Decl[b][v[3]]
        /\ Decl[a][u[3]][i + 1] = Decl[b][v[3]][j + 1]
    BY <1>1, <1>2, <1>3
  <2> QED BY <1>3, <2>1, <2>2, PlacesAssumption
<1> QED BY <1>3, <1>4

\* Two ways that end in the same place are one: from their end, each comes from where
\* the other does, and a way that goes on from the file would have a file declared.
LEMMA OneWay ==
  ASSUME NEW p \in Seq(Nat), NEW q \in Seq(Nat), NEW n \in Nat, NEW m \in Nat, n <= m,
         NEW c, IsWay(p, n, c), NEW d, IsWay(q, m, d), c[n] = d[m]
  PROVE  p = q
<1> DEFINE S == {k \in Nat : k <= n => c[n - k] = d[m - k]}
<1>1. ASSUME NEW k \in Nat, k < n, c[n - k] = d[m - k]
      PROVE  /\ c[n - k - 1] = d[m - k - 1]
             /\ p[2 * (n - k) - 1] = q[2 * (m - k) - 1] /\ p[2 * (n - k)] = q[2 * (m - k)]
  <2> DEFINE i == n - k
             j == m - k
  <2>1. i \in 1..n /\ j \in 1..m
    BY <1>1
  <2>2. c[i] = d[j]
    BY <1>1
  <2> HIDE DEF i, j
  <2>3. /\ c[i - 1] \in Nodes /\ Declares(c[i - 1], p[2 * i - 1], p[2 * i], c[i])
        /\ d[j - 1] \in Nodes /\ Declares(d[j - 1], q[2 * j - 1], q[2 * j], d[j])
    BY <2>1, WayNodes DEF IsWay
  <2>4. Len(p) = 2 * n /\ Len(q) = 2 * m
    BY DEF IsWay
  <2>5. p[2 * i - 1] \in Nat /\ p[2 * i] \in Nat /\ q[2 * j - 1] \in Nat /\ q[2 * j] \in Nat
    BY <2>1, <2>4, PairOfPath
  <2>6. c[i - 1] = d[j - 1] /\ p[2 * i - 1] = q[2 * j - 1] /\ p[2 * i] = q[2 * j]
    <3> DEFINE a == c[i - 1]
               b == d[j - 1]
               f == p[2 * i - 1]
               g == q[2 * j - 1]
               x == p[2 * i]
               y == q[2 * j]
               e == c[i]
    <3>1. /\ a \in Nodes /\ b \in Nodes /\ f \in Nat /\ g \in Nat /\ x \in Nat /\ y \in Nat
          /\ Declares(a, f, x, e) /\ Declares(b, g, y, e)
      BY <2>2, <2>3, <2>5
    <3> HIDE DEF a, b, f, g, x, y, e
    <3>2. a = b /\ f = g /\ x = y
      BY <3>1, OneDeclaration
    <3> QED BY <3>2 DEF a, b, f, g, x, y
  <2> QED BY <2>6 DEF i, j
<1>2. Nat \subseteq S
  <2>1. 0 \in S
    OBVIOUS
  <2>2. ASSUME NEW k \in Nat, k \in S PROVE k + 1 \in S
    <3> SUFFICES ASSUME k + 1 <= n PROVE c[n - (k + 1)] = d[m - (k + 1)]
      OBVIOUS
    <3>1. c[n - k] = d[m - k]
      BY <2>2
    <3>2. n - (k + 1) = n - k - 1 /\ m - (k + 1) = m - k - 1
      OBVIOUS
    <3> QED BY <1>1, <3>1, <3>2
  <2> HIDE DEF S
  <2> QED BY <2>1, <2>2, NatInduct
<1>3. n = m
  <2> SUFFICES ASSUME n < m PROVE FALSE
    OBVIOUS
  <2>1. c[0] = d[m - n]
    <3>1. n \in S
      BY <1>2
    <3> QED BY <3>1
  <2>2. m - n \in 1..m
    OBVIOUS
  <2>3. KindOf[d[m - n]] # "file"
    BY <2>2, WayNodes
  <2> QED BY <2>1, <2>3, FileAssumption DEF IsWay
<1>4. ASSUME NEW i \in 1..n PROVE p[2 * i - 1] = q[2 * i - 1] /\ p[2 * i] = q[2 * i]
  <2> DEFINE k == n - i
  <2>1. k \in Nat /\ k < n /\ n - k = i /\ k <= n
    OBVIOUS
  <2>2. c[n - k] = d[m - k]
    <3>1. k \in S
      BY <1>2, <2>1
    <3> QED BY <2>1, <3>1
  <2> HIDE DEF k
  <2> QED BY <1>1, <1>3, <2>1, <2>2
<1>5. Len(p) = 2 * n /\ Len(q) = 2 * n
  BY <1>3 DEF IsWay
<1>6. \A k \in 1..Len(p) : p[k] = q[k]
  <2> SUFFICES ASSUME NEW k \in 1..(2 * n) PROVE p[k] = q[k]
    BY <1>5
  <2>1. \E i \in 1..n : k = 2 * i - 1 \/ k = 2 * i
    <3> DEFINE i == (k + 1) \div 2
    <3>1. i \in 1..n /\ (k = 2 * i - 1 \/ k = 2 * i)
      OBVIOUS
    <3> QED BY <3>1
  <2> QED BY <1>4, <2>1
<1> QED BY <1>5, <1>6, SeqEqual

\* No two paths stand for the same.
LEMMA OnePath ==
  ASSUME NEW p \in Seq(Nat), NEW q \in Seq(Nat), NEW e, e \in Meant(p), e \in Meant(q)
  PROVE  p = q
<1>1. PICK n \in Nat : \E c : IsWay(p, n, c) /\ c[n] = e
  BY MeantIs
<1>2. PICK c : IsWay(p, n, c) /\ c[n] = e
  BY <1>1
<1>3. PICK m \in Nat : \E d : IsWay(q, m, d) /\ d[m] = e
  BY MeantIs
<1>4. PICK d : IsWay(q, m, d) /\ d[m] = e
  BY <1>3
<1>5. CASE n <= m
  BY <1>2, <1>4, <1>5, OneWay
<1>6. CASE m <= n
  BY <1>2, <1>4, <1>6, OneWay
<1> QED BY <1>5, <1>6

\* Only the empty path leads to the file itself.
LEMMA FileAtRoot ==
  ASSUME NEW path \in Paths
  PROVE  path \in Seq(Nat) /\ path # Root /\ ChildAtPath(path) # file
<1>1. path \in Seq(Nat) /\ path # Root
  BY PathsAssumption
<1>2. ASSUME ChildAtPath(path) = file PROVE FALSE
  <2>1. file \in Meant(path)
    BY <1>1, <1>2, ChildAtPathIs, FileAssumption
  <2>2. PICK n \in Nat : \E c : IsWay(path, n, c) /\ c[n] = file
    BY <1>1, <2>1, MeantIs
  <2>3. PICK c : IsWay(path, n, c) /\ c[n] = file
    BY <2>2
  <2>4. n \in 1..n
    <3>1. Len(path) = 2 * n
      BY <2>3 DEF IsWay
    <3>2. Len(path) # 0
      BY <1>1 DEF Root
    <3> QED BY <3>1, <3>2
  <2> QED BY <2>3, <2>4, WayNodes, FileAssumption
<1> QED BY <1>1, <1>2

-----------------------------------------------------------------------------
(* The comments that a walk finds.                                         *)

\* Of two locations that stand for an entity, both are one; and it is the one by which
\* childAtPath finds it.
LEMMA MeaningIs ==
  ASSUME NEW e \in Entities \ {file}, KindOf[e] # "ext", NEW path \in Paths
  PROVE  /\ ChildAtPath(path) = e <=> Meaning[path] = e
         /\ \A p \in Paths : Meaning[path] = e /\ Meaning[p] = e => p = path
         /\ e \in Nodes /\ e # Nobody
<1>1. e \in Nodes /\ e # Nobody
  BY EntitiesAreNodes, FileAssumption
<1>2. \A p \in Paths : p \in Seq(Nat) /\ (Meaning[p] = e <=> e \in Meant(p))
  BY PathsAssumption
<1>3. ChildAtPath(path) = e <=> Meaning[path] = e
  BY <1>1, <1>2, ChildAtPathIs
<1>4. \A p \in Paths : Meaning[path] = e /\ Meaning[p] = e => p = path
  BY <1>2, OnePath
<1> QED BY <1>1, <1>3, <1>4

InfoInv == InfoTypeOK /\ InfoIsOwn

\* Every turn of the loop in hydrateSourceCodeInfo gives an entity its own location, or
\* none its.
LEMMA InfoStep == InfoInv /\ [InfoNext]_infoVars => InfoInv'
<1> SUFFICES ASSUME InfoInv, [InfoNext]_infoVars PROVE InfoInv'
  OBVIOUS
<1>1. InfoTypeOK /\ InfoTypeOK'
  BY InfoType DEF InfoInv
<1>2. /\ \A e \in Entities \ {file} : KindOf[e] # "ext" =>
            \A path \in Paths : info[e] = path <=> path \in seen /\ Meaning[path] = e
      /\ \A path \in seen \ {Root} :
            /\ Meaning[path] = "syntax"  => syntaxInfo = path
            /\ Meaning[path] = "package" => packageInfo = path
  BY DEF InfoInv, InfoIsOwn, IsExtension
<1>3. CASE First
  <2>1. ChildAtPath(Root) = file
    <3>1. Root \in Seq(Nat) /\ Len(Root) = 2 * 0
      BY DEF Root
    <3>2. PICK at : IsTaken(Root, 0, at)
      BY <3>1, PathTaken
    <3> QED BY <3>2 DEF IsTaken
  <2>2. info' = info /\ seen' = {Root} /\ seen = {} /\ Root \notin Paths
    BY <1>3, <2>1, PathsAssumption DEF First, Locate
  <2>3. \A e \in Entities \ {file} : KindOf[e] # "ext" =>
            \A path \in Paths : info'[e] = path <=> path \in seen' /\ Meaning[path] = e
    BY <1>2, <2>2
  <2>4. seen' \ {Root} = {}
    BY <2>2
  <2> QED BY <1>1, <2>3, <2>4 DEF InfoInv, InfoIsOwn, IsExtension
<1>4. ASSUME NEW q \in Paths, q \notin seen, Root \in seen, Locate(q)
      PROVE  InfoInv'
  <2>1. q \in Seq(Nat) /\ q # Root /\ ChildAtPath(q) # file
    BY FileAtRoot
  <2>2. seen' = seen \cup {q} /\ info' = InfoWith(ChildAtPath(q), q)
    BY <1>4, <2>1 DEF Locate
  <2>3. ASSUME NEW e \in Entities \ {file}, KindOf[e] # "ext", NEW path \in Paths
        PROVE  info'[e] = path <=> path \in seen' /\ Meaning[path] = e
    <3>1. info'[e] = IF e = ChildAtPath(q) THEN q ELSE info[e]
      BY <2>2 DEF InfoWith
    <3>2. ChildAtPath(q) = e <=> Meaning[q] = e
      BY <2>3, MeaningIs
    <3>3. Meaning[path] = e /\ Meaning[q] = e => path = q
      BY <2>3, MeaningIs
    <3>4. info[e] = path <=> path \in seen /\ Meaning[path] = e
      BY <1>2, <2>3
    <3> QED BY <1>4, <2>2, <3>1, <3>2, <3>3, <3>4
  <2>4. ASSUME NEW path \in seen' \ {Root}
        PROVE  /\ Meaning[path] = "syntax"  => syntaxInfo' = path
               /\ Meaning[path] = "package" => packageInfo' = path
    <3>1. path \in Paths
      BY <1>1, <2>4 DEF InfoTypeOK
    <3>2. (Meaning[path] = "syntax" => path = <<12>>) /\ (Meaning[path] = "package" => path = <<2>>)
      BY <3>1, PathsAssumption
    <3>3. /\ packageInfo' = IF Stanza(q) = "package" THEN q ELSE packageInfo
          /\ syntaxInfo' = IF Stanza(q) = "syntax" THEN q ELSE syntaxInfo
      BY <1>4, <2>1 DEF Locate
    <3>4. (Stanza(q) = "syntax" <=> q = <<12>>) /\ (Stanza(q) = "package" <=> q = <<2>>)
      <4>1. <<12>> # <<2>>
        OBVIOUS
      <4> QED BY <4>1 DEF Stanza, syntaxPath, packagePath
    <3>5. path # q => path \in seen \ {Root}
      BY <2>2, <2>4
    <3> QED BY <1>2, <3>2, <3>3, <3>4, <3>5
  <2> QED BY <1>1, <2>3, <2>4 DEF InfoInv, InfoIsOwn, IsExtension
<1>5. CASE UNCHANGED infoVars
  <2>1. info' = info /\ seen' = seen /\ syntaxInfo' = syntaxInfo /\ packageInfo' = packageInfo
    BY <1>5 DEF infoVars
  <2> QED BY <1>1, <1>2, <2>1 DEF InfoInv, InfoIsOwn, IsExtension
<1> QED BY <1>3, <1>4, <1>5 DEF InfoNext, Other

\* Nothing is visited before all locations have been gone through.
FindInv == InfoInv /\ (log # <<>> => seen = Paths \cup {Root})

LEMMA FindStep == FindInv /\ [Next]_vars => FindInv'
<1> SUFFICES ASSUME FindInv, [Next]_vars PROVE FindInv'
  OBVIOUS
<1>1. InfoInv'
  BY TourStep, InfoStep DEF FindInv
<1>2. seen \subseteq seen' /\ seen' \subseteq Paths \cup {Root}
  <2>1. seen \subseteq seen'
    BY DEF Next, Hydrate, Visit, InfoNext, First, Other, Locate, vars, infoVars
  <2> QED BY <1>1, <2>1 DEF InfoInv, InfoTypeOK
<1>3. log' = log \/ seen = Paths \cup {Root}
  BY DEF Next, Hydrate, Visit, vars, walkVars
<1> QED BY <1>1, <1>2, <1>3 DEF FindInv

\* node.go:9-12, entity.go:44-46: for any tree, any locations of the file in any order
\* and any walk, a visitor finds with each entity of the file that entity's own
\* location, if it has one, and with none another's.
THEOREM CommentsFound == Spec => []VisitsFindComments
<1>1. Init => FindInv
  <2> SUFFICES ASSUME Init PROVE FindInv
    OBVIOUS
  <2>1. InfoTypeOK
    BY TourInit
  <2>2. \A e \in Entities : info[e] = Nobody
    BY DEF Init, InfoInit
  <2>3. seen = {} /\ log = <<>>
    BY DEF Init, InfoInit, WalkInit
  <2> QED BY <2>1, <2>2, <2>3, FileAssumption DEF FindInv, InfoInv, InfoIsOwn
<1>2. FindInv => VisitsFindComments
  <2> SUFFICES ASSUME FindInv PROVE VisitsFindComments
    OBVIOUS
  <2>1. InfoIsOwn
    BY DEF FindInv, InfoInv
  <2>2. ASSUME NEW i \in DOMAIN log, log[i].node \in Entities \ {file}, KindOf[log[i].node] # "ext",
               NEW path \in Paths, Meaning[path] = log[i].node
        PROVE  info[log[i].node] = path
    <3>1. log # <<>>
      BY <2>2
    <3>2. path \in seen
      BY <3>1 DEF FindInv
    <3> QED BY <2>1, <2>2, <3>2 DEF InfoIsOwn, IsExtension
  <2> QED BY <2>1, <2>2 DEF VisitsFindComments
<1>3. QED
  BY <1>1, <1>2, FindStep, PTL DEF Spec
=============================================================================
