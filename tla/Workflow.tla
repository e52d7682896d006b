------------------------------- MODULE Workflow -------------------------------
(***************************************************************************)
(* generator.go and workflow.go: goroutines call AST() and Render() of one *)
(* Generator.  Both go through onceWorkflow, which guards each of the      *)
(* stages Init, Run and Persist of standardWorkflow with a sync.Once.      *)
(*                                                                         *)
(* Code of the plugin runs inside the stages (parameter mutators, modules, *)
(* post-processors) and may panic; the caller may recover.  A failure that *)
(* the library finds itself ends the process (CheckErr, Assert).           *)
(***************************************************************************)
EXTENDS Naturals, Sequences, FiniteSets

CONSTANTS
  Callers,    \* goroutines that use the Generator
  Modules,    \* modules that may be registered
  MayPanic,   \* whether code of the plugin may panic
  MaxCalls    \* bound on the calls of one goroutine

ASSUME PanicAssumption == MayPanic \in BOOLEAN
ASSUME CallsAssumption == MaxCalls \in Nat

Stages == {"Init", "Run", "Persist"}

VARIABLES
  pc,      \* where each caller is; "idle" outside of AST() and Render()
  call,    \* the call a caller is in, or was in last
  left,    \* the calls each caller has yet to make
  once,    \* the sync.Once of each stage
  input,   \* what protoc's pipe holds: a request that is fine or not, or nothing
  ast,     \* whether onceWorkflow.ast is set (it is nil before)
  mods,    \* Generator.mods
  log,     \* the calls made to modules, in order
  arts,    \* onceWorkflow.arts; an artifact is known by its module
  got,     \* the artifacts of the Run stage in progress
  out,     \* the responses written to protoc, in order
  ended,   \* whether some Render() has ended
  alive,   \* the process has neither exited nor crashed
  panicked \* history: code of the plugin has panicked, and a caller recovered

vars == <<pc, call, left, once, input, ast, mods, log, arts, got, out,
          ended, alive, panicked>>

Init ==
    /\ pc = [c \in Callers |-> "idle"]
    /\ call = [c \in Callers |-> "AST"]
    /\ left = [c \in Callers |-> MaxCalls]
    /\ once = [s \in Stages |-> "fresh"]
    /\ input \in {"fine", "bad"}
    /\ ast = FALSE
    /\ mods = <<>>
    /\ log = <<>>
    /\ arts = <<>>
    /\ got = <<>>
    /\ out = <<>>
    /\ ended = FALSE
    /\ alive = TRUE
    /\ panicked = FALSE

-----------------------------------------------------------------------------
GoTo(c, to) == pc' = [pc EXCEPT ![c] = to]

At(c, where) == alive /\ pc[c] = where

\* A mistake: Render() does not wait for the response to be written.
AfterTooSoon(c, s) ==
    IF s = "Init" /\ call[c] = "Render" THEN "Run" ELSE "idle"

\* The place a call goes to after a stage; a call that is through is over.
After(c, s) ==
    CASE s = "Init" /\ call[c] = "Render" -> "Run"
      [] s = "Run"                        -> "Persist"
      [] OTHER                            -> "idle"

Leave(c, s) ==
    /\ GoTo(c, After(c, s))
    /\ ended' = (ended \/ s = "Persist")

\* The body of a stage returns: the Once is done for good.
Complete(c, s) == once' = [once EXCEPT ![s] = "done"] /\ Leave(c, s)

\* RegisterModule, to be called before Render.
RegisterModule(m) ==
    /\ alive
    /\ m \notin {mods[i] : i \in DOMAIN mods}
    /\ ~ended /\ \A c \in Callers : call[c] = "AST"
    /\ mods' = Append(mods, m)
    /\ UNCHANGED <<pc, call, left, once, input, ast, log, arts, got, out, ended,
                   alive, panicked>>

\* AST() or Render() is called.
Start(c, which) ==
    /\ At(c, "idle")
    /\ left[c] > 0
    /\ left' = [left EXCEPT ![c] = @ - 1]
    /\ call' = [call EXCEPT ![c] = which]
    /\ GoTo(c, "Init")
    /\ UNCHANGED <<once, input, ast, mods, log, arts, got, out, ended, alive,
                   panicked>>

\* A mistake: a flag that is set at the end of the body instead of a Once.
EnterUnlessDone(c, s) ==
    /\ At(c, s)
    /\ once[s] # "done"
    /\ once' = [once EXCEPT ![s] = "running"]
    /\ GoTo(c, CASE s = "Init" -> "read" [] s = "Run" -> "initModules"
                 [] s = "Persist" -> "write")
    /\ got' = IF s = "Run" THEN <<>> ELSE got
    /\ UNCHANGED <<call, left, input, ast, mods, log, arts, out, ended, alive,
                   panicked>>

\* sync.Once.Do: the first caller runs the body, ...
Enter(c, s) ==
    /\ At(c, s)
    /\ once[s] = "fresh"
    /\ once' = [once EXCEPT ![s] = "running"]
    /\ GoTo(c, CASE s = "Init" -> "read" [] s = "Run" -> "initModules"
                 [] s = "Persist" -> "write")
    /\ got' = IF s = "Run" THEN <<>> ELSE got
    /\ UNCHANGED <<call, left, input, ast, mods, log, arts, out, ended, alive,
                   panicked>>

\* A mistake: a flag that is set at the start of the body instead of a Once.
SkipWithoutWaiting(c, s) ==
    /\ At(c, s)
    /\ once[s] # "fresh"
    /\ Leave(c, s)
    /\ UNCHANGED <<call, left, once, input, ast, mods, log, arts, got, out,
                   alive, panicked>>

\* ... others wait until it has ended and go on with what it left.
Skip(c, s) ==
    /\ At(c, s)
    /\ once[s] = "done"
    /\ Leave(c, s)
    /\ UNCHANGED <<call, left, once, input, ast, mods, log, arts, got, out,
                   alive, panicked>>

-----------------------------------------------------------------------------
\* A mistake: reading stops before the end of the pipe.
ReadSome(c) ==
    /\ At(c, "read")
    /\ input' = "a rest"
    /\ IF input = "fine" THEN GoTo(c, "build") /\ UNCHANGED alive
                         ELSE alive' = FALSE /\ UNCHANGED pc
    /\ UNCHANGED <<call, left, once, ast, mods, log, arts, got, out, ended,
                   panicked>>

\* standardWorkflow.Init: the pipe is read to its end; a request that cannot be
\* read or parsed, or is without files to generate (as is an empty one), ends
\* the process.
Read(c) ==
    /\ At(c, "read")
    /\ input' = "drained"
    /\ IF input = "fine" THEN GoTo(c, "build") /\ UNCHANGED alive
                         ELSE alive' = FALSE /\ UNCHANGED pc
    /\ UNCHANGED <<call, left, once, ast, mods, log, arts, got, out, ended,
                   panicked>>

\* The parameters are parsed and mutated and the AST is built.
Build(c) ==
    /\ At(c, "build")
    /\ ast' = TRUE
    /\ Complete(c, "Init")
    /\ UNCHANGED <<call, left, input, mods, log, arts, got, out, alive,
                   panicked>>

\* standardWorkflow.Run: the modules are given their context one by one, ...
Inited == Cardinality({i \in DOMAIN log : log[i].what = "InitContext"})

InitModule(c) ==
    /\ At(c, "initModules")
    /\ Inited < Len(mods)
    /\ log' = Append(log, [what |-> "InitContext", mod |-> mods[Inited + 1]])
    /\ UNCHANGED <<pc, call, left, once, input, ast, mods, arts, got, out,
                   ended, alive, panicked>>

AllInited(c) ==
    /\ At(c, "initModules")
    /\ Inited = Len(mods)
    /\ GoTo(c, "execute")
    /\ UNCHANGED <<call, left, once, input, ast, mods, log, arts, got, out,
                   ended, alive, panicked>>

\* ... and then executed one by one; a module may call AST() itself.
ExecuteModule(c) ==
    /\ At(c, "execute")
    /\ Len(got) < Len(mods)
    /\ ast                      \* Targets() of a nil AST panics
    /\ log' = Append(log, [what |-> "Execute", mod |-> mods[Len(got) + 1]])
    /\ got' = Append(got, mods[Len(got) + 1])
    /\ UNCHANGED <<pc, call, left, once, input, ast, mods, arts, out, ended,
                   alive, panicked>>

AllExecuted(c) ==
    /\ At(c, "execute")
    /\ Len(got) = Len(mods)
    /\ arts' = got
    /\ Complete(c, "Run")
    /\ UNCHANGED <<call, left, input, ast, mods, log, got, out, alive,
                   panicked>>

\* standardWorkflow.Persist: the response is written out, ...
Write(c) ==
    /\ At(c, "write")
    /\ out' = Append(out, arts)
    /\ Complete(c, "Persist")
    /\ UNCHANGED <<call, left, input, ast, mods, log, arts, got, alive,
                   panicked>>

\* ... or an artifact, the marshalling or the write fails.  Build and modules
\* have failures of their own (Failf, CheckErr).
Exit(c) ==
    /\ \/ At(c, "build") \/ At(c, "initModules") \/ At(c, "execute") \/ At(c, "write")
    /\ alive' = FALSE
    /\ UNCHANGED <<pc, call, left, once, input, ast, mods, log, arts, got, out,
                   ended, panicked>>

StageOf(where) == CASE where = "build" -> "Init" [] where = "write" -> "Persist"
                    [] OTHER -> "Run"

PanicLeaves(c, state) ==
    /\ MayPanic
    /\ \/ At(c, "build") \/ At(c, "initModules") \/ At(c, "execute") \/ At(c, "write")
    /\ once' = [once EXCEPT ![StageOf(pc[c])] = state]
    /\ GoTo(c, "idle")
    /\ ended' = (ended \/ call[c] = "Render")
    /\ panicked' = TRUE
    /\ UNCHANGED <<call, left, input, ast, mods, log, arts, got, out, alive>>

\* Two mistakes: a stage that panicked is run again, or is never released.
PanicRetries(c)   == PanicLeaves(c, "fresh")
PanicHoldsOnce(c) == PanicLeaves(c, "running")

\* Code of the plugin panics in a stage.  sync.Once counts the stage as done;
\* the panic goes on through AST() or Render() to a caller that recovers.
\* (One that does not is a crash, which is as Exit.)
Panic(c) == PanicLeaves(c, "done")

-----------------------------------------------------------------------------
\* What a call that has begun does on its own.
Step(c) ==
    \/ \E s \in Stages : Enter(c, s) \/ Skip(c, s)
    \/ Read(c) \/ Build(c)
    \/ InitModule(c) \/ AllInited(c) \/ ExecuteModule(c) \/ AllExecuted(c)
    \/ Write(c) \/ Exit(c) \/ Panic(c)

Next ==
    \/ \E m \in Modules : RegisterModule(m)
    \/ \E c \in Callers : Step(c) \/ \E which \in {"AST", "Render"} : Start(c, which)

Spec == Init /\ [][Next]_vars

\* The Go scheduler runs every goroutine that can go on.
FairSpec == Spec /\ \A c \in Callers : WF_vars(Step(c))

-----------------------------------------------------------------------------
Places == Stages \cup {"idle", "read", "build", "initModules", "execute", "write"}
Calls  == [what : {"InitContext", "Execute"}, mod : Modules]

\* The types of the state.
TypeOK ==
    /\ pc \in [Callers -> Places]
    /\ call \in [Callers -> {"AST", "Render"}]
    /\ left \in [Callers -> 0..MaxCalls]
    /\ once \in [Stages -> {"fresh", "running", "done"}]
    /\ input \in {"fine", "bad", "drained"}
    /\ ast \in BOOLEAN
    /\ mods \in Seq(Modules)
    /\ log \in Seq(Calls)
    /\ arts \in Seq(Modules)
    /\ got \in Seq(Modules)
    /\ out \in Seq(Seq(Modules))
    /\ ended \in BOOLEAN
    /\ alive \in BOOLEAN
    /\ panicked \in BOOLEAN

Bodies == [s \in Stages |-> CASE s = "Init" -> {"read", "build"}
                              [] s = "Run"  -> {"initModules", "execute"}
                              [] OTHER      -> {"write"}]

\* sync.Once: whatever the interleaving, one caller at most is inside a stage,
\* it is there only while the Once is held, and a stage is entered only when
\* those before it have ended.
StagesExclusive ==
    /\ \A s \in Stages : \A c \in Callers : pc[c] \in Bodies[s] => once[s] = "running"
    /\ \A s \in Stages : \A c, d \in Callers :
          pc[c] \in Bodies[s] /\ pc[d] \in Bodies[s] => c = d
    /\ once["Run"] # "fresh" => once["Init"] = "done"
    /\ once["Persist"] # "fresh" => once["Run"] = "done"

Plan == [i \in 1..(2 * Len(mods)) |->
           IF i <= Len(mods) THEN [what |-> "InitContext", mod |-> mods[i]]
           ELSE [what |-> "Execute", mod |-> mods[i - Len(mods)]]]

\* standardWorkflow.Run, module.go:12-19: every registered module gets its
\* context before any is executed, and both happen once and in the order of
\* registration, whoever calls Render and however often.
ModuleProtocol ==
    /\ Len(log) <= Len(Plan)
    /\ \A i \in DOMAIN log : log[i] = Plan[i]

\* generator.go:78-83: what protoc gets is one response, and the artifacts of
\* every module are in it, or of none if code of the plugin panicked; a call of
\* Render made after another has ended adds nothing.
OneFullResponse ==
    /\ Len(out) <= 1
    /\ \A i \in DOMAIN out : out[i] = mods \/ (panicked /\ out[i] = <<>>)

\* Every call of AST() and Render() returns (or panics), or the process ends:
\* no caller is left waiting for a Once, not even when a stage panicked.
CallsEnd == \A c \in Callers : pc[c] # "idle" ~> pc[c] = "idle" \/ ~alive
=============================================================================
