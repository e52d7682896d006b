------------------------------ MODULE ModuleBase ------------------------------
(***************************************************************************)
(* module.go and standardWorkflow.Run: modules are given their contexts,   *)
(* then executed, one after the other.  In both, a module moves about in   *)
(* its context (BuildContext) and adds artifacts to the buffer of its      *)
(* ModuleBase; what Execute returns is collected for the persister.        *)
(***************************************************************************)
EXTENDS BuildContext

CONSTANTS
  Order,      \* the modules as they were registered
  MaxAdded    \* bound on the artifacts

ASSUME OrderAssumption ==
    /\ Order \in Seq(Modules) /\ ToSet(Order) = Modules
    /\ \A i, j \in DOMAIN Order : Order[i] = Order[j] => i = j
    /\ MaxAdded \in Nat

VARIABLES
  phase,       \* "init", "execute" or "done"
  todo,        \* the modules yet to be called in this phase, the current one first
  artifacts,   \* ModuleBase.artifacts
  kept,        \* what the current module got from Artifacts() itself
  collected,   \* arts of Run
  added        \* everything that was added, in order of time

moduleVars == <<phase, todo, artifacts, kept, collected, added>>

vars == <<ctx, output, opens, alive, phase, todo, artifacts, kept, collected, added>>

Running(m) == alive /\ todo # <<>> /\ m = Head(todo)

Init ==
    /\ ContextInit
    /\ phase = "init" /\ todo = Order
    /\ artifacts = [m \in Modules |-> <<>>]
    /\ kept = <<>> /\ collected = <<>> /\ added = <<>>

\* The module pushes and pops; what it leaves open in InitContext is still open
\* when it is executed.
Move(m) == Running(m) /\ ContextNext(m) /\ UNCHANGED moduleVars

\* AddGeneratorFile and the like; artifacts are told apart by when they came.
Add(m) ==
    /\ Running(m) /\ Len(added) < MaxAdded
    /\ LET a == [by |-> m, nr |-> Len(added) + 1]
       IN /\ artifacts' = [artifacts EXCEPT ![m] = Append(@, a)]
          /\ added' = Append(added, a)
    /\ UNCHANGED <<ctx, output, opens, alive, phase, todo, kept, collected>>

\* A mistake: the buffer keeps what it gave out.
TakeCopy(m) ==
    /\ Running(m) /\ phase = "execute" /\ artifacts[m] # <<>>
    /\ kept' = kept \o artifacts[m]
    /\ UNCHANGED <<ctx, output, opens, alive, phase, todo, artifacts, collected, added>>

\* Execute calls Artifacts() before its end.
Take(m) ==
    /\ Running(m) /\ phase = "execute" /\ artifacts[m] # <<>>
    /\ kept' = kept \o artifacts[m]
    /\ artifacts' = [artifacts EXCEPT ![m] = <<>>]
    /\ UNCHANGED <<ctx, output, opens, alive, phase, todo, collected, added>>

\* InitContext returns; after that of the last module, they are executed.
Initialized(m) ==
    /\ Running(m) /\ phase = "init"
    /\ phase' = IF Len(todo) = 1 THEN "execute" ELSE "init"
    /\ todo' = IF Len(todo) = 1 THEN Order ELSE Tail(todo)
    /\ UNCHANGED <<ctx, output, opens, alive, artifacts, kept, collected, added>>

\* Execute returns what it kept and Artifacts().
Executed(m) ==
    /\ Running(m) /\ phase = "execute"
    /\ collected' = collected \o kept \o artifacts[m]
    /\ artifacts' = [artifacts EXCEPT ![m] = <<>>]
    /\ kept' = <<>>
    /\ todo' = Tail(todo)
    /\ phase' = IF Len(todo) = 1 THEN "done" ELSE "execute"
    /\ UNCHANGED <<ctx, output, opens, alive, added>>

\* ModuleBase.Execute itself, of a module that has no Execute of its own: Fail.
NotImplemented(m) ==
    /\ Running(m) /\ phase = "execute" /\ kept = <<>>
    /\ alive' = FALSE
    /\ UNCHANGED <<ctx, output, opens, phase, todo, artifacts, kept, collected, added>>

Next == \E m \in Modules :
           \/ Move(m) \/ Add(m) \/ Take(m)
           \/ Initialized(m) \/ Executed(m) \/ NotImplemented(m)

Spec == Init /\ [][Next]_vars

-----------------------------------------------------------------------------
Artifacts == Seq([by : Modules, nr : 1..MaxAdded])

\* The types of the state.
TypeOK ==
    /\ ContextTypeOK
    /\ phase \in {"init", "execute", "done"}
    /\ todo \in Seq(Modules)
    /\ artifacts \in [Modules -> Artifacts]
    /\ kept \in Artifacts /\ collected \in Artifacts /\ added \in Artifacts

\* What a module added, in order of time.
AddedBy(m) == FlattenSeq([i \in DOMAIN added |-> IF added[i].by = m THEN <<added[i]>>
                                                 ELSE <<>>])

\* What the first n modules added.
AddedByFirst(n) == FlattenSeq([i \in 1..n |-> AddedBy(Order[i])])

\* module.go:91-94, workflow.go:59-62: what modules add, in whichever of their two
\* calls and however often they call Artifacts(), gets to the persister once, in
\* the order of the modules and then of time.
ArtifactsArriveOnce == phase = "done" => collected = AddedByFirst(Len(Order))

-----------------------------------------------------------------------------
\* The inductive invariant under it: the modules that have been executed are the
\* first ones and what they added is collected; what the current one added is in
\* what it kept and in its buffer; the others have it in their buffers.
Called == Len(Order) - Len(todo)

TodoIsRest ==
    /\ Called \in Nat
    /\ todo = [j \in 1..Len(todo) |-> Order[Called + j]]
    /\ phase = "execute" => todo # <<>>
    /\ phase = "done" => todo = <<>>

NothingLost ==
    /\ phase = "init" => kept = <<>> /\ collected = <<>>
    /\ phase # "init" => collected = AddedByFirst(Called)
    /\ \A m \in Modules :
          \/ phase = "execute" /\ m = Head(todo) /\ AddedBy(m) = kept \o artifacts[m]
          \/ phase = "execute" /\ m # Head(todo) /\ AddedBy(m) = artifacts[m]
          \/ phase = "init" /\ AddedBy(m) = artifacts[m]
          \/ phase # "init" /\ \E i \in 1..Called : m = Order[i]

ModuleInv == TypeOK /\ ContextInv /\ TodoIsRest /\ NothingLost
=============================================================================
