--------------------------------- MODULE Tree ---------------------------------
(***************************************************************************)
(* The tree of a package, its files and their entities, as hydration has   *)
(* built it: the lists in which each node holds its children.              *)
(***************************************************************************)
EXTENDS Naturals, Sequences, SequencesExt, FiniteSetsExt

CONSTANTS
  Nodes,    \* packages, files and entities
  KindOf,   \* the kind of each node
  Decl      \* Decl[n][list]: the children of n that are in that list of it

Kinds == {"package", "file", "message", "enum", "enumVal", "field", "ext",
          "oneof", "service", "method"}
Lists == {"files", "enums", "msgs", "maps", "preservedMsgs", "fields", "oneofs",
          "srvs", "vals", "methods", "defExts"}

ASSUME NodesAssumption ==
    /\ KindOf \in [Nodes -> Kinds]
    /\ Decl \in [Nodes -> [Lists -> Seq(Nodes)]]

\* What each list is of.
ListKind == [files |-> "file", enums |-> "enum", msgs |-> "message", maps |-> "message",
             preservedMsgs |-> "message", fields |-> "field", oneofs |-> "oneof",
             srvs |-> "service", vals |-> "enumVal", methods |-> "method",
             defExts |-> "ext"]

ASSUME KindsAssumption ==
    \A n \in Nodes, l \in Lists : \A m \in ToSet(Decl[n][l]) : KindOf[m] = ListKind[l]

\* An entity is made before its children, so that none is below itself: of some nodes
\* that hold others, one at least holds none of them.
ASSUME NestingAssumption ==
    /\ IsFiniteSet(Nodes)
    /\ \A S \in (SUBSET {n \in Nodes : \E l \in Lists : Decl[n][l] # <<>>}) \ {{}} :
          \E n \in S : \A l \in Lists : ToSet(Decl[n][l]) \cap S = {}
=============================================================================
