------------------------------- MODULE OneShot -------------------------------
(***************************************************************************)
(* What generator.go:71-84 promises to concurrent callers: AST() returns   *)
(* the one AST, which is built on demand, and Render() returns when the    *)
(* one response has been written, whoever wrote it.  The promise ends with *)
(* the first panic of the plugin's own code.                               *)
(***************************************************************************)
CONSTANTS Callers

VARIABLES
  state,  \* "new", "built", "written", "broken" (the plugin's code has
          \* panicked) or "dead" (the process has ended)
  in      \* the call each caller is in, or "none"

Init == state = "new" /\ in = [c \in Callers |-> "none"]

Start(c, which) ==
    /\ state # "dead" /\ in[c] = "none"
    /\ in' = [in EXCEPT ![c] = which]
    /\ UNCHANGED state

Build == state = "new" /\ state' = "built"

Respond == state = "built" /\ state' = "written"

\* A call may end in the step in which it has done its part.
End(c) ==
    /\ in[c] # "none"
    /\ in[c] = "AST"    => state' \in {"built", "written", "broken"}
    /\ in[c] = "Render" => state' \in {"written", "broken"}
    /\ in' = [in EXCEPT ![c] = "none"]

\* The panic goes through the call in which it came to its caller.
Break(c) ==
    /\ state # "dead" /\ state' = "broken"
    /\ in[c] # "none" /\ in' = [in EXCEPT ![c] = "none"]

Die == state # "dead" /\ state' = "dead" /\ UNCHANGED in

Next ==
    \/ \E c \in Callers, which \in {"AST", "Render"} : Start(c, which)
    \/ \E c \in Callers : Break(c)
    \/ Die
    \/ /\ Build \/ Respond \/ (state # "dead" /\ state' = state)
       /\ UNCHANGED in \/ \E c \in Callers : End(c)

Spec == Init /\ [][Next]_<<state, in>>
=============================================================================
