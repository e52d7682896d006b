-------------------------- MODULE WorkflowRefinement --------------------------
(* Workflow implements OneShot.                                            *)
EXTENDS Workflow

StateOf == CASE ~alive -> "dead"
             [] alive /\ panicked -> "broken"
             [] alive /\ ~panicked /\ out # <<>> -> "written"
             [] alive /\ ~panicked /\ out = <<>> /\ ast -> "built"
             [] OTHER -> "new"

Promise == INSTANCE OneShot
             WITH state <- StateOf,
                  in <- [c \in Callers |-> IF pc[c] = "idle" THEN "none"
                                           ELSE call[c]]

\* generator.go:71-84, for any number of goroutines: until code of the plugin
\* panics, AST() never returns without the AST and Render() never before the
\* response has been written, and there is never a second response.
ImplementsPromise == Promise!Spec
=============================================================================
