----------------------------- MODULE MCDependents -----------------------------
(* Small instances of Dependents for TLC.                                  *)
EXTENDS Dependents, TLC

CONSTANTS A, B, C, D

Four == {A, B, C, D}

\* Every graph over three nodes, and every graph over four that has no cycle, up
\* to the names of the nodes: there a node uses only nodes that come before it.
Rank == (A :> 1) @@ (B :> 2) @@ (C :> 3) @@ (D :> 4)
MCGraphs == {g \in [Nodes -> SUBSET Nodes] :
               \/ \A n \in Nodes : D \notin g[n] /\ g[D] = {}
               \/ \A n \in Nodes : \A m \in g[n] : Rank[m] < Rank[n]}
=============================================================================
