--------------------------------- MODULE Tour ---------------------------------
(***************************************************************************)
(* What a module does with a file: once hydration has been through the     *)
(* file's locations (SourceInfo), a visitor walks the tree (Walk) and      *)
(* reads the comments of what it visits.                                   *)
(***************************************************************************)
EXTENDS SourceInfo, Walk

vars == <<seen, info, syntaxInfo, packageInfo, root, start, stack, err, log, result>>

Init == InfoInit /\ WalkInit

\* graph.hydrateFile ends with the locations; modules get the graph after that.
Hydrate == InfoNext /\ UNCHANGED walkVars

Visit == seen = Paths \cup {Root} /\ WalkNext /\ UNCHANGED infoVars

Next == Hydrate \/ Visit

Spec == Init /\ [][Next]_vars

-----------------------------------------------------------------------------
\* The types of the state.
TypeOK == InfoTypeOK /\ WalkTypeOK

\* node.go:9-12, entity.go:44-46: whatever a walk comes to in a file, the walk's
\* order following the lists of entities and the locations their declaration
\* order, the visitor finds that entity's own comments: every info is that of its
\* entity (InfoIsOwn), and the entity has it before anybody looks.
VisitsFindComments ==
    /\ InfoIsOwn
    /\ \A i \in DOMAIN log :
          LET n == log[i].node
          IN n \in Entities \ {file} /\ KindOf[n] # "ext" =>
                \A path \in Paths : Meaning[path] = n => info[n] = path
=============================================================================
