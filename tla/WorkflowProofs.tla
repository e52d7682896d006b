--------------------------- MODULE WorkflowProofs ---------------------------
(* Theorems about Workflow, for any goroutines, modules and calls.         *)
EXTENDS WorkflowRefinement, FiniteSetTheorems, SequenceTheorems, TLAPS

-----------------------------------------------------------------------------
\* The loop over the modules in Run: it has a count, ...
LEMMA InitedIsNat == ASSUME TypeOK PROVE Inited \in Nat
<1> DEFINE S == {i \in DOMAIN log : log[i].what = "InitContext"}
<1>1. DOMAIN log = 1..Len(log) /\ Len(log) \in Nat
  BY DEF TypeOK
<1>2. IsFiniteSet(1..Len(log))
  BY <1>1, FS_Interval
<1>3. IsFiniteSet(S)
  BY <1>1, <1>2, FS_Subset
<1>4. QED
  BY <1>3, FS_CardinalityType DEF Inited

\* ... which is that of all the calls as long as no module has been executed.
LEMMA InitedIsLen ==
    ASSUME TypeOK, \A i \in DOMAIN log : log[i].what = "InitContext"
    PROVE  Inited = Len(log)
<1> DEFINE S == {i \in DOMAIN log : log[i].what = "InitContext"}
<1>1. DOMAIN log = 1..Len(log) /\ Len(log) \in Nat
  BY DEF TypeOK
<1>2. S = 1..Len(log)
  BY <1>1
<1>3. Cardinality(1..Len(log)) = Len(log)
  BY <1>1, FS_Interval
<1>4. QED
  BY <1>2, <1>3 DEF Inited

-----------------------------------------------------------------------------
\* Every step of a goroutine keeps the types.
LEMMA StepTypes == ASSUME TypeOK, NEW c \in Callers, Step(c) PROVE TypeOK'
<1>1. ASSUME NEW s \in Stages, Enter(c, s) PROVE TypeOK'
  BY <1>1 DEF TypeOK, Enter, GoTo, Stages, Places
<1>2. ASSUME NEW s \in Stages, Skip(c, s) PROVE TypeOK'
  BY <1>2 DEF TypeOK, Skip, Leave, After, GoTo, Stages, Places
<1>3. CASE Read(c)
  BY <1>3 DEF TypeOK, Read, GoTo, Places
<1>4. CASE Build(c)
  BY <1>4 DEF TypeOK, Build, Complete, Leave, After, GoTo, Stages, Places
<1>5. CASE InitModule(c)
  <2>1. mods[Inited + 1] \in Modules
    BY <1>5, InitedIsNat DEF TypeOK, InitModule
  <2>2. [what |-> "InitContext", mod |-> mods[Inited + 1]] \in Calls
    BY <2>1 DEF Calls
  <2>3. log' \in Seq(Calls)
    BY <1>5, <2>2 DEF TypeOK, InitModule
  <2>4. QED
    BY <1>5, <2>3 DEF TypeOK, InitModule
<1>6. CASE AllInited(c)
  BY <1>6 DEF TypeOK, AllInited, GoTo, Places
<1>7. CASE ExecuteModule(c)
  <2>1. mods[Len(got) + 1] \in Modules
    BY <1>7 DEF TypeOK, ExecuteModule
  <2>2. [what |-> "Execute", mod |-> mods[Len(got) + 1]] \in Calls
    BY <2>1 DEF Calls
  <2>3. log' \in Seq(Calls) /\ got' \in Seq(Modules)
    BY <1>7, <2>1, <2>2 DEF TypeOK, ExecuteModule
  <2>4. QED
    BY <1>7, <2>3 DEF TypeOK, ExecuteModule
<1>8. CASE AllExecuted(c)
  BY <1>8 DEF TypeOK, AllExecuted, Complete, Leave, After, GoTo, Stages, Places
<1>9. CASE Write(c)
  BY <1>9 DEF TypeOK, Write, Complete, Leave, After, GoTo, Stages, Places
<1>10. CASE Exit(c)
  BY <1>10 DEF TypeOK, Exit
<1>11. CASE Panic(c)
  <2>1. StageOf(pc[c]) \in Stages
    BY DEF StageOf, Stages
  <2>2. QED
    BY <1>11, <2>1 DEF TypeOK, Panic, PanicLeaves, GoTo, Places
<1>12. QED
  BY <1>1, <1>2, <1>3, <1>4, <1>5, <1>6, <1>7, <1>8, <1>9, <1>10, <1>11 DEF Step

\* generator.go and workflow.go: the state keeps its types, with any number of
\* goroutines, modules and panics.
THEOREM TypeCorrect == Spec => []TypeOK
<1>1. Init => TypeOK
  <2> SUFFICES ASSUME Init PROVE TypeOK
    OBVIOUS
  <2>1. /\ pc \in [Callers -> Places] /\ call \in [Callers -> {"AST", "Render"}]
        /\ left \in [Callers -> 0..MaxCalls]
    BY CallsAssumption DEF Init, Places
  <2>2. /\ once \in [Stages -> {"fresh", "running", "done"}]
        /\ input \in {"fine", "bad", "drained"}
    BY DEF Init
  <2>3. mods \in Seq(Modules) /\ log \in Seq(Calls) /\ arts \in Seq(Modules)
    BY DEF Init
  <2>4. got \in Seq(Modules) /\ out \in Seq(Seq(Modules))
    BY DEF Init
  <2>5. /\ ast \in BOOLEAN /\ ended \in BOOLEAN /\ alive \in BOOLEAN
        /\ panicked \in BOOLEAN
    BY DEF Init
  <2>6. QED
    BY <2>1, <2>2, <2>3, <2>4, <2>5 DEF TypeOK
<1>2. TypeOK /\ [Next]_vars => TypeOK'
  <2> SUFFICES ASSUME TypeOK, [Next]_vars PROVE TypeOK'
    OBVIOUS
  <2>1. ASSUME NEW m \in Modules, RegisterModule(m) PROVE TypeOK'
    BY <2>1 DEF TypeOK, RegisterModule
  <2>2. ASSUME NEW c \in Callers, NEW which \in {"AST", "Render"}, Start(c, which)
        PROVE  TypeOK'
    BY <2>2, CallsAssumption DEF TypeOK, Start, At, GoTo, Places, Stages
  <2>3. CASE UNCHANGED vars
    BY <2>3 DEF TypeOK, vars
  <2>4. QED
    BY <2>1, <2>2, <2>3, StepTypes DEF Next
<1>3. QED
  BY <1>1, <1>2, PTL DEF Spec

-----------------------------------------------------------------------------
Rendering == {"Run", "initModules", "execute", "Persist", "write"}

\* Where the callers are: only Render() gets beyond Init, a stage is waited for
\* only when the one before has ended, and a Render() that is over has been
\* noted.
CallersInPlace ==
    \A c \in Callers :
       /\ pc[c] \in Rendering => call[c] = "Render"
       /\ pc[c] = "idle" /\ call[c] = "Render" => ended
       /\ pc[c] = "Run" => once["Init"] = "done"
       /\ pc[c] = "Persist" => once["Run"] = "done"

\* StagesExclusive, stage by stage.
Exclusive ==
    /\ \A c \in Callers :
          /\ pc[c] \in {"read", "build"} => once["Init"] = "running"
          /\ pc[c] \in {"initModules", "execute"} => once["Run"] = "running"
          /\ pc[c] = "write" => once["Persist"] = "running"
    /\ \A c, d \in Callers :
          /\ pc[c] \in {"read", "build"} /\ pc[d] \in {"read", "build"} => c = d
          /\ pc[c] \in {"initModules", "execute"}
               /\ pc[d] \in {"initModules", "execute"} => c = d
          /\ pc[c] = "write" /\ pc[d] = "write" => c = d
    /\ once["Run"] # "fresh" => once["Init"] = "done"
    /\ once["Persist"] # "fresh" => once["Run"] = "done"

\* The two forms are the same.
LEMMA ExclusiveIsStagesExclusive == Exclusive => StagesExclusive
<1>1. /\ Bodies["Init"] = {"read", "build"}
      /\ Bodies["Run"] = {"initModules", "execute"}
      /\ Bodies["Persist"] = {"write"}
  BY DEF Bodies, Stages
<1>2. QED
  BY <1>1 DEF Exclusive, StagesExclusive, Stages

\* sync.Once keeps goroutines apart, with every step of any of them.
LEMMA StepExclusive ==
    ASSUME TypeOK, Exclusive, CallersInPlace, NEW c \in Callers, Step(c)
    PROVE  Exclusive' /\ CallersInPlace'
<1> USE DEF TypeOK, Exclusive, CallersInPlace, GoTo, At, Rendering, Stages, Places
<1>1. ASSUME NEW s \in Stages, Enter(c, s) PROVE Exclusive' /\ CallersInPlace'
  <2>1. CASE s = "Init"
    BY <1>1, <2>1 DEF Enter
  <2>2. CASE s = "Run"
    BY <1>1, <2>2 DEF Enter
  <2>3. CASE s = "Persist"
    BY <1>1, <2>3 DEF Enter
  <2>4. QED
    BY <2>1, <2>2, <2>3
<1>2. ASSUME NEW s \in Stages, Skip(c, s) PROVE Exclusive' /\ CallersInPlace'
  <2>0. /\ once' = once /\ call' = call /\ pc[c] = s /\ once[s] = "done"
        /\ pc' = [pc EXCEPT ![c] = After(c, s)]
        /\ ended' = (ended \/ s = "Persist")
    BY <1>2 DEF Skip, Leave
  <2>1. CASE s = "Init"
    <3>1. pc' = [pc EXCEPT ![c] = IF call[c] = "Render" THEN "Run" ELSE "idle"]
      BY <2>0, <2>1 DEF After
    <3>2. Exclusive'
      BY <2>0, <2>1, <3>1
    <3>3. CallersInPlace'
      BY <2>0, <2>1, <3>1
    <3>4. QED
      BY <3>2, <3>3
  <2>2. CASE s = "Run"
    <3>1. pc' = [pc EXCEPT ![c] = "Persist"]
      BY <2>0, <2>2 DEF After
    <3>2. Exclusive'
      BY <2>0, <2>2, <3>1
    <3>3. CallersInPlace'
      BY <2>0, <2>2, <3>1
    <3>4. QED
      BY <3>2, <3>3
  <2>3. CASE s = "Persist"
    <3>1. pc' = [pc EXCEPT ![c] = "idle"]
      BY <2>0, <2>3 DEF After
    <3>2. Exclusive'
      BY <2>0, <2>3, <3>1
    <3>3. CallersInPlace'
      BY <2>0, <2>3, <3>1
    <3>4. QED
      BY <3>2, <3>3
  <2>4. QED
    BY <2>1, <2>2, <2>3
<1>3. CASE Read(c)
  <2>1. once' = once /\ call' = call /\ ended' = ended /\ pc[c] = "read"
    BY <1>3 DEF Read
  <2>2. pc' = pc \/ pc' = [pc EXCEPT ![c] = "build"]
    BY <1>3 DEF Read
  <2>3. Exclusive'
    BY <2>1, <2>2
  <2>4. CallersInPlace'
    BY <2>1, <2>2
  <2>5. QED
    BY <2>3, <2>4
<1>4. CASE Build(c)
  BY <1>4 DEF Build, Complete, Leave, After
<1>5. CASE InitModule(c) \/ ExecuteModule(c)
  BY <1>5 DEF InitModule, ExecuteModule
<1>6. CASE AllInited(c)
  BY <1>6 DEF AllInited
<1>7. CASE AllExecuted(c)
  BY <1>7 DEF AllExecuted, Complete, Leave, After
<1>8. CASE Write(c)
  BY <1>8 DEF Write, Complete, Leave, After
<1>9. CASE Exit(c)
  BY <1>9 DEF Exit
<1>10. CASE Panic(c)
  BY <1>10 DEF Panic, PanicLeaves, StageOf
<1>11. QED
  BY <1>1, <1>2, <1>3, <1>4, <1>5, <1>6, <1>7, <1>8, <1>9, <1>10 DEF Step

\* ... and so does the start of a call.
LEMMA NextExclusive ==
    TypeOK /\ Exclusive /\ CallersInPlace /\ [Next]_vars => Exclusive' /\ CallersInPlace'
<1> SUFFICES ASSUME TypeOK, Exclusive, CallersInPlace, [Next]_vars
             PROVE  Exclusive' /\ CallersInPlace'
  OBVIOUS
<1>1. ASSUME NEW m \in Modules, RegisterModule(m) PROVE Exclusive' /\ CallersInPlace'
  BY <1>1 DEF RegisterModule, Exclusive, CallersInPlace
<1>2. ASSUME NEW c \in Callers, NEW which \in {"AST", "Render"}, Start(c, which)
      PROVE  Exclusive' /\ CallersInPlace'
  BY <1>2 DEF TypeOK, Start, At, GoTo, Exclusive, CallersInPlace, Rendering
<1>3. CASE UNCHANGED vars
  BY <1>3 DEF vars, Exclusive, CallersInPlace
<1>4. QED
  BY <1>1, <1>2, <1>3, StepExclusive DEF Next

\* No behaviour starts inside a stage.
LEMMA InitExclusive == Init => Exclusive /\ CallersInPlace
BY DEF Init, Exclusive, CallersInPlace, Rendering, Stages

\* onceWorkflow: whatever goroutines call AST() and Render(), and even when code
\* of the plugin panics, one of them at most is inside a stage, and no stage is
\* begun before the one before it has ended.
THEOREM StagesCorrect == Spec => []StagesExclusive
<1>1. Spec => [](Exclusive /\ CallersInPlace)
  BY InitExclusive, NextExclusive, TypeCorrect, PTL DEF Spec
<1>2. QED
  BY <1>1, ExclusiveIsStagesExclusive, PTL

-----------------------------------------------------------------------------
\* No module is registered any more once the modules are being called.
ModulesFixed ==
    once["Run"] # "fresh" => ended \/ \E c \in Callers : call[c] = "Render"

\* How far Run is.
Progress ==
    /\ once["Run"] = "fresh" => log = <<>> /\ got = <<>>
    /\ Len(got) <= Len(mods)
    /\ \A i \in DOMAIN got : got[i] = mods[i]
    /\ \A c \in Callers :
          /\ pc[c] = "initModules" => Len(log) <= Len(mods) /\ got = <<>>
          /\ pc[c] = "execute" => Len(log) = Len(mods) + Len(got)

\* Run leaves the artifacts of all modules, or none if it was broken off by a
\* panic, and what it has left is written once.
Responding ==
    /\ once["Run"] # "done" => arts = <<>>
    /\ once["Run"] = "done" => arts = mods \/ (panicked /\ arts = <<>>)
    /\ once["Persist"] # "done" => out = <<>>
    /\ out = <<>> \/ out = <<mods>> \/ (panicked /\ out = <<<<>>>>)

Protocol == ModulesFixed /\ Progress /\ ModuleProtocol

IndInv == TypeOK /\ Exclusive /\ CallersInPlace /\ Protocol /\ Responding

\* The plan is a sequence of calls, first those of InitContext.
LEMMA PlanElements ==
    ASSUME mods \in Seq(Modules)
    PROVE  /\ Len(Plan) = 2 * Len(mods)
           /\ \A i \in 1..Len(mods) :
                 Plan[i] = [what |-> "InitContext", mod |-> mods[i]]
           /\ \A i \in 1..Len(mods) :
                 Plan[Len(mods) + i] = [what |-> "Execute", mod |-> mods[i]]
<1>1. Len(mods) \in Nat
  OBVIOUS
<1> DEFINE n == Len(mods)
           step(i) == IF i <= n THEN [what |-> "InitContext", mod |-> mods[i]]
                      ELSE [what |-> "Execute", mod |-> mods[i - n]]
<1>2. Plan = [i \in 1..(2 * n) |-> step(i)]
  BY DEF Plan
<1> HIDE DEF step
<1>3. Len(Plan) = 2 * n
  BY <1>1, <1>2
<1>4. \A i \in 1..(2 * n) : Plan[i] = step(i)
  BY <1>1, <1>2
<1>5. \A i \in 1..n : i \in 1..(2 * n) /\ n + i \in 1..(2 * n)
  BY <1>1
<1>6. \A i \in 1..n : ~(n + i <= n) /\ (n + i) - n = i
  BY <1>1
<1>7. QED
  BY <1>1, <1>3, <1>4, <1>5, <1>6 DEF step

\* InitModule and ExecuteModule: a call that is next in the plan keeps to it.
LEMMA PlannedCall ==
    ASSUME TypeOK, ModuleProtocol, mods' = mods, Len(log) < 2 * Len(mods),
           log' = Append(log, Plan[Len(log) + 1])
    PROVE  ModuleProtocol' /\ Len(log') = Len(log) + 1
<1>1. mods \in Seq(Modules) /\ Len(mods) \in Nat
  BY DEF TypeOK
<1>2. log \in Seq(Calls) /\ Len(log) \in Nat /\ DOMAIN log = 1..Len(log)
  BY DEF TypeOK
<1>3. Plan' = Plan
  BY DEF Plan
<1>4. Len(Plan) = 2 * Len(mods)
  BY <1>1, PlanElements
<1>5. /\ Len(log') = Len(log) + 1 /\ DOMAIN log' = 1..(Len(log) + 1)
      /\ \A i \in 1..Len(log) : log'[i] = log[i]
      /\ log'[Len(log) + 1] = Plan[Len(log) + 1]
  BY <1>2
<1>6. \A i \in DOMAIN log' : log'[i] = Plan[i]
  BY <1>2, <1>5 DEF ModuleProtocol
<1>7. QED
  BY <1>1, <1>2, <1>3, <1>4, <1>5, <1>6 DEF ModuleProtocol

\* The steps of Run keep to the plan and the modules' artifacts.
LEMMA RunKeepsProtocol ==
    ASSUME IndInv, NEW c \in Callers,
           InitModule(c) \/ AllInited(c) \/ ExecuteModule(c) \/ AllExecuted(c)
    PROVE  Protocol' /\ Responding'
<1>1. mods \in Seq(Modules) /\ Len(mods) \in Nat
  BY DEF IndInv, TypeOK
<1>2. log \in Seq(Calls) /\ Len(log) \in Nat /\ DOMAIN log = 1..Len(log)
  BY DEF IndInv, TypeOK
<1>3. got \in Seq(Modules) /\ Len(got) \in Nat /\ DOMAIN got = 1..Len(got)
  BY DEF IndInv, TypeOK
<1>4. ASSUME NEW i \in DOMAIN log, Len(log) <= Len(mods)
      PROVE  log[i].what = "InitContext"
  <2>1. i \in 1..Len(mods)
    BY <1>1, <1>2, <1>4
  <2>2. Plan[i] = [what |-> "InitContext", mod |-> mods[i]]
    BY <1>1, <2>1, PlanElements
  <2>3. log[i] = Plan[i]
    BY DEF IndInv, Protocol, ModuleProtocol
  <2>4. QED
    BY <2>2, <2>3
<1>5. Len(log) <= Len(mods) => Inited = Len(log)
  BY <1>4, InitedIsLen DEF IndInv
<1>6. once["Run"] = "running"
  BY DEF IndInv, Exclusive, At, InitModule, AllInited, ExecuteModule, AllExecuted
<1>7. ModulesFixed'
  BY <1>6 DEF IndInv, Protocol, ModulesFixed, InitModule, AllInited,
              ExecuteModule, AllExecuted, Complete, Leave
<1>8. \A d \in Callers : d # c => pc[d] \notin {"initModules", "execute"}
  BY DEF IndInv, Exclusive, At, InitModule, AllInited, ExecuteModule, AllExecuted
<1>9. CASE InitModule(c)
  <2>1. /\ Len(log) < Len(mods) /\ got = <<>>
        /\ log' = Append(log, Plan[Len(log) + 1])
    <3>1. Len(log) <= Len(mods) /\ got = <<>>
      BY <1>9 DEF IndInv, Protocol, Progress, InitModule, At
    <3>2. Len(log) + 1 \in 1..Len(mods)
      BY <1>1, <1>2, <1>5, <1>9, <3>1 DEF InitModule
    <3>3. Plan[Len(log) + 1] = [what |-> "InitContext", mod |-> mods[Len(log) + 1]]
      BY <1>1, <3>2, PlanElements
    <3>4. QED
      BY <1>1, <1>2, <1>5, <1>9, <3>1, <3>2, <3>3 DEF InitModule
  <2>2. ModuleProtocol' /\ Len(log') = Len(log) + 1
    BY <1>1, <1>2, <1>9, <2>1, PlannedCall DEF IndInv, Protocol, InitModule
  <2>3. Progress'
    BY <1>1, <1>2, <1>6, <1>8, <1>9, <2>1, <2>2
       DEF IndInv, Protocol, Progress, InitModule, At
  <2>4. QED
    BY <1>7, <1>9, <2>2, <2>3 DEF IndInv, Protocol, Responding, InitModule
<1>10. CASE AllInited(c)
  <2>1. ModuleProtocol'
    BY <1>10 DEF IndInv, Protocol, ModuleProtocol, Plan, AllInited
  <2>2. Len(log) = Len(mods) /\ got = <<>>
    BY <1>5, <1>10 DEF IndInv, Protocol, Progress, AllInited, At
  <2>3. Progress'
    BY <1>1, <1>3, <1>6, <1>8, <1>10, <2>2
       DEF IndInv, TypeOK, Protocol, Progress, AllInited, At, GoTo
  <2>4. QED
    BY <1>7, <1>10, <2>1, <2>3 DEF IndInv, Protocol, Responding, AllInited
<1>11. CASE ExecuteModule(c)
  <2>1. Len(log) = Len(mods) + Len(got) /\ Len(got) < Len(mods)
    BY <1>11 DEF IndInv, Protocol, Progress, ExecuteModule, At
  <2>2. Plan[Len(log) + 1] = [what |-> "Execute", mod |-> mods[Len(got) + 1]]
    <3>1. Len(got) + 1 \in 1..Len(mods) /\ Len(log) + 1 = Len(mods) + (Len(got) + 1)
      BY <1>1, <1>3, <2>1
    <3>2. QED
      BY <1>1, <3>1, PlanElements
  <2>3. ModuleProtocol' /\ Len(log') = Len(log) + 1
    BY <1>1, <1>2, <1>3, <1>11, <2>1, <2>2, PlannedCall
       DEF IndInv, Protocol, ExecuteModule
  <2>4. /\ Len(got') = Len(got) + 1
        /\ \A i \in DOMAIN got' : got'[i] = mods[i]
    BY <1>1, <1>3, <1>11, <2>1 DEF IndInv, Protocol, Progress, ExecuteModule
  <2>5. Progress'
    BY <1>1, <1>2, <1>3, <1>6, <1>8, <1>11, <2>1, <2>3, <2>4
       DEF IndInv, Protocol, Progress, ExecuteModule, At
  <2>6. QED
    BY <1>7, <1>11, <2>3, <2>5 DEF IndInv, Protocol, Responding, ExecuteModule
<1>12. CASE AllExecuted(c)
  <2>1. got = mods
    BY <1>1, <1>3, <1>12 DEF IndInv, Protocol, Progress, AllExecuted
  <2>2. ModuleProtocol'
    BY <1>12 DEF IndInv, Protocol, ModuleProtocol, Plan, AllExecuted
  <2>3. pc' = [pc EXCEPT ![c] = "Persist"]
    BY <1>12 DEF AllExecuted, Complete, Leave, After, GoTo
  <2>4. once' = [once EXCEPT !["Run"] = "done"]
    BY <1>12 DEF AllExecuted, Complete
  <2>5. Progress'
    BY <1>8, <1>12, <2>1, <2>3, <2>4
       DEF IndInv, TypeOK, Protocol, Progress, AllExecuted, Stages
  <2>6. Responding'
    BY <1>12, <2>1, <2>4 DEF IndInv, TypeOK, Responding, AllExecuted, Stages
  <2>7. QED
    BY <1>7, <2>2, <2>5, <2>6 DEF Protocol
<1>13. QED
  BY <1>9, <1>10, <1>11, <1>12

\* A step that calls no module and changes none of the artifacts leaves them as
\* the plan has it.
LEMMA CallsKept ==
    ASSUME IndInv, mods' = mods, log' = log,
           got' = got \/ (got' = <<>> /\ once["Run"] = "fresh"),
           once'["Run"] = "fresh" => once["Run"] = "fresh",
           \A c \in Callers : pc'[c] \in {"initModules", "execute"} =>
              pc'[c] = pc[c] \/ (pc'[c] = "initModules" /\ once["Run"] = "fresh")
    PROVE  ModuleProtocol' /\ Progress'
<1>1. mods \in Seq(Modules) /\ Len(mods) \in Nat
  BY DEF IndInv, TypeOK
<1>2. ModuleProtocol'
  BY DEF IndInv, Protocol, ModuleProtocol, Plan
<1>3. once["Run"] = "fresh" => log = <<>> /\ got = <<>>
  BY DEF IndInv, Protocol, Progress
<1>4. got' = got
  BY <1>3
<1>5. Progress'
  BY <1>1, <1>3, <1>4 DEF IndInv, Protocol, Progress
<1>6. QED
  BY <1>2, <1>5

\* sync.Once and the stages Init and Persist keep to the protocol.
LEMMA StepKeepsProtocol ==
    ASSUME IndInv, NEW c \in Callers, Step(c)
    PROVE  Protocol' /\ Responding'
<1>1. CASE InitModule(c) \/ AllInited(c) \/ ExecuteModule(c) \/ AllExecuted(c)
  BY <1>1, RunKeepsProtocol
<1>2. ASSUME NEW s \in Stages, Enter(c, s) PROVE Protocol' /\ Responding'
  <2>1. /\ once["Run"] = "fresh" \/ s # "Run"
        /\ once' = [once EXCEPT ![s] = "running"]
        /\ pc' = [pc EXCEPT ![c] = CASE s = "Init" -> "read"
                     [] s = "Run" -> "initModules" [] s = "Persist" -> "write"]
        /\ once[s] = "fresh" /\ pc[c] = s
    BY <1>2 DEF Enter, GoTo, At
  <2>2. ModuleProtocol' /\ Progress'
    BY <1>2, <2>1, CallsKept DEF IndInv, TypeOK, Enter, Stages
  <2>3. ModulesFixed'
    BY <1>2, <2>1 DEF IndInv, TypeOK, Protocol, ModulesFixed, CallersInPlace,
                      Rendering, Enter, Stages
  <2>4. Responding'
    BY <1>2, <2>1 DEF IndInv, TypeOK, Exclusive, Responding, Enter, Stages
  <2>5. QED
    BY <2>2, <2>3, <2>4 DEF Protocol
<1>3. ASSUME NEW s \in Stages, Skip(c, s) PROVE Protocol' /\ Responding'
  <2>1. pc' = [pc EXCEPT ![c] = After(c, s)]
        /\ After(c, s) \notin {"initModules", "execute"}
    BY <1>3 DEF Skip, Leave, GoTo, After
  <2>2. ModuleProtocol' /\ Progress'
    BY <1>3, <2>1, CallsKept DEF IndInv, TypeOK, Skip
  <2>3. QED
    BY <1>3, <2>2 DEF IndInv, Protocol, ModulesFixed, Responding, Skip, Leave
<1>4. CASE Read(c)
  <2>1. pc' = pc \/ pc' = [pc EXCEPT ![c] = "build"]
    BY <1>4 DEF Read, GoTo
  <2>2. ModuleProtocol' /\ Progress'
    BY <1>4, <2>1, CallsKept DEF IndInv, TypeOK, Read
  <2>3. QED
    BY <1>4, <2>2 DEF IndInv, Protocol, ModulesFixed, Responding, Read
<1>5. CASE Build(c)
  <2>1. pc' = [pc EXCEPT ![c] = After(c, "Init")]
        /\ After(c, "Init") \notin {"initModules", "execute"}
    BY <1>5 DEF Build, Complete, Leave, GoTo, After
  <2>2. once' = [once EXCEPT !["Init"] = "done"]
    BY <1>5 DEF Build, Complete
  <2>3. once'["Run"] = once["Run"] /\ once'["Persist"] = once["Persist"]
    BY <2>2 DEF IndInv, TypeOK, Stages
  <2>4. ModuleProtocol' /\ Progress'
    BY <1>5, <2>1, <2>3, CallsKept DEF IndInv, TypeOK, Build
  <2>5. QED
    BY <1>5, <2>3, <2>4
       DEF IndInv, Protocol, ModulesFixed, Responding, Build, Complete, Leave
<1>6. CASE Write(c)
  <2>1. pc' = [pc EXCEPT ![c] = After(c, "Persist")]
        /\ After(c, "Persist") \notin {"initModules", "execute"}
    BY <1>6 DEF Write, Complete, Leave, GoTo, After
  <2>2. once' = [once EXCEPT !["Persist"] = "done"] /\ once["Persist"] = "running"
    BY <1>6 DEF Write, Complete, At, IndInv, Exclusive
  <2>3. once'["Run"] = once["Run"] /\ once'["Persist"] = "done" /\ once["Run"] = "done"
    BY <2>2 DEF IndInv, TypeOK, Exclusive, Stages
  <2>4. ModuleProtocol' /\ Progress'
    BY <1>6, <2>1, <2>3, CallsKept DEF IndInv, TypeOK, Write
  <2>5. Responding'
    BY <1>6, <2>2, <2>3 DEF IndInv, Responding, Write
  <2>6. QED
    BY <1>6, <2>3, <2>4, <2>5
       DEF IndInv, Protocol, ModulesFixed, Write, Complete, Leave
<1>7. CASE Exit(c)
  <2>1. ModuleProtocol' /\ Progress'
    BY <1>7, CallsKept DEF IndInv, TypeOK, Exit
  <2>2. QED
    BY <1>7, <2>1 DEF IndInv, Protocol, ModulesFixed, Responding, Exit
<1>8. CASE Panic(c)
  <2>1. pc' = [pc EXCEPT ![c] = "idle"] /\ panicked'
    BY <1>8 DEF Panic, PanicLeaves, GoTo
  <2>2. once' = [once EXCEPT ![StageOf(pc[c])] = "done"]
    BY <1>8 DEF Panic, PanicLeaves
  <2>3. once'["Run"] = "fresh" => once["Run"] = "fresh"
    BY <2>2 DEF IndInv, TypeOK, Stages
  <2>4. ModuleProtocol' /\ Progress'
    BY <1>8, <2>1, <2>3, CallsKept DEF IndInv, TypeOK, Panic, PanicLeaves
  <2>5. ModulesFixed'
    <3>1. CASE once'["Run"] = once["Run"]
      BY <1>8, <3>1 DEF IndInv, Protocol, ModulesFixed, Panic, PanicLeaves
    <3>2. CASE once'["Run"] # once["Run"]
      <4>1. StageOf(pc[c]) = "Run"
        BY <2>2, <3>2 DEF IndInv, TypeOK, Stages
      <4>2. pc[c] \in {"initModules", "execute"}
        BY <1>8, <4>1 DEF StageOf, Panic, PanicLeaves, At
      <4>3. call[c] = "Render"
        BY <4>2 DEF IndInv, CallersInPlace, Rendering
      <4>4. QED
        BY <1>8, <4>3 DEF ModulesFixed, Panic, PanicLeaves
    <3>3. QED
      BY <3>1, <3>2
  <2>6. Responding'
    <3>1. once'["Run"] # "done" => once["Run"] # "done"
      BY <2>2 DEF IndInv, TypeOK, Stages
    <3>2. once'["Persist"] # "done" => once["Persist"] # "done"
      BY <2>2 DEF IndInv, TypeOK, Stages
    <3>3. mods' = mods /\ arts' = arts /\ out' = out
      BY <1>8 DEF Panic, PanicLeaves
    <3>4. arts = <<>> \/ arts = mods
      BY DEF IndInv, Responding
    <3>5. QED
      BY <2>1, <3>1, <3>2, <3>3, <3>4 DEF IndInv, Responding
  <2>7. QED
    BY <2>4, <2>5, <2>6 DEF Protocol
<1>9. QED
  BY <1>1, <1>2, <1>3, <1>4, <1>5, <1>6, <1>7, <1>8 DEF Step

\* RegisterModule comes before the modules are called, and the start of a call
\* undoes nothing.
LEMMA NextKeepsProtocol == IndInv /\ [Next]_vars => Protocol' /\ Responding'
<1> SUFFICES ASSUME IndInv, [Next]_vars PROVE Protocol' /\ Responding'
  OBVIOUS
<1>1. ASSUME NEW m \in Modules, RegisterModule(m) PROVE Protocol' /\ Responding'
  <2>1. once["Run"] = "fresh"
    BY <1>1 DEF IndInv, Protocol, ModulesFixed, RegisterModule
  <2>2. once["Persist"] = "fresh"
    BY <2>1 DEF IndInv, Exclusive
  <2>3. log' = <<>> /\ got' = <<>> /\ once' = once /\ pc' = pc
    BY <1>1, <2>1 DEF IndInv, Protocol, Progress, RegisterModule
  <2>4. mods' \in Seq(Modules) /\ Len(mods') \in Nat
    BY <1>1 DEF IndInv, TypeOK, RegisterModule
  <2>5. \A c \in Callers : pc[c] \notin {"initModules", "execute"}
    BY <2>1 DEF IndInv, Exclusive
  <2>6. Progress'
    BY <2>3, <2>4, <2>5 DEF Progress
  <2>7. Len(Plan)' = 2 * Len(mods')
    <3>1. ASSUME mods' \in Seq(Modules) PROVE Len(Plan)' = 2 * Len(mods')
      <4> DEFINE step(i) == IF i <= Len(mods')
                            THEN [what |-> "InitContext", mod |-> mods'[i]]
                            ELSE [what |-> "Execute", mod |-> mods'[i - Len(mods')]]
      <4>1. Plan' = [i \in 1..(2 * Len(mods')) |-> step(i)]
        BY DEF Plan
      <4> HIDE DEF step
      <4>2. QED
        BY <2>4, <4>1
    <3>2. QED
      BY <2>4, <3>1
  <2>8. ModuleProtocol'
    BY <2>3, <2>4, <2>7 DEF ModuleProtocol
  <2>9. ModulesFixed' /\ Responding'
    BY <1>1, <2>1, <2>2, <2>3 DEF IndInv, ModulesFixed, Responding, RegisterModule
  <2>10. QED
    BY <2>6, <2>8, <2>9 DEF Protocol
<1>2. ASSUME NEW c \in Callers, NEW which \in {"AST", "Render"}, Start(c, which)
      PROVE  Protocol' /\ Responding'
  <2>1. pc' = [pc EXCEPT ![c] = "Init"] /\ pc[c] = "idle"
    BY <1>2 DEF Start, GoTo, At
  <2>2. ModuleProtocol' /\ Progress'
    BY <1>2, <2>1, CallsKept DEF IndInv, TypeOK, Start
  <2>3. ModulesFixed'
    BY <1>2, <2>1 DEF IndInv, TypeOK, CallersInPlace, Protocol, ModulesFixed, Start
  <2>4. QED
    BY <1>2, <2>2, <2>3 DEF IndInv, Protocol, Responding, Start
<1>3. CASE UNCHANGED vars
  <2>1. ModuleProtocol' /\ Progress'
    BY <1>3, CallsKept DEF vars
  <2>2. QED
    BY <1>3, <2>1 DEF IndInv, Protocol, ModulesFixed, Responding, vars
<1>4. QED
  BY <1>1, <1>2, <1>3, StepKeepsProtocol DEF Next

\* A new Generator has called nothing and written nothing.
LEMMA InitProtocol == Init => Protocol /\ Responding
<1> SUFFICES ASSUME Init PROVE Protocol /\ Responding
  OBVIOUS
<1>1. mods = <<>> /\ log = <<>> /\ got = <<>> /\ out = <<>> /\ arts = <<>>
  BY DEF Init
<1>2. once["Run"] = "fresh"
  BY DEF Init, Stages
<1>3. \A c \in Callers : pc[c] = "idle"
  BY DEF Init
<1>4. ModuleProtocol
  <2>1. mods \in Seq(Modules) /\ Len(mods) = 0 /\ Len(log) = 0 /\ DOMAIN log = {}
    BY <1>1
  <2>2. Len(Plan) = 0
    BY <2>1, PlanElements
  <2>3. QED
    BY <2>1, <2>2 DEF ModuleProtocol
<1>5. QED
  BY <1>1, <1>2, <1>3, <1>4 DEF Protocol, Progress, ModulesFixed, Responding

\* The invariant holds of every behaviour.
LEMMA Invariant == Spec => []IndInv
<1>1. IndInv <=> TypeOK /\ (Exclusive /\ CallersInPlace) /\ (Protocol /\ Responding)
  BY DEF IndInv
<1>2. QED
  BY <1>1, TypeCorrect, InitExclusive, NextExclusive, InitProtocol, NextKeepsProtocol,
     PTL DEF Spec

\* standardWorkflow.Run: whatever goroutines call Render() and however often,
\* every module is given its context before any is executed, both once and in
\* the order of registration; a panic only breaks this off.
THEOREM ProtocolCorrect == Spec => []ModuleProtocol
<1>1. IndInv => ModuleProtocol
  BY DEF IndInv, Protocol
<1>2. QED
  BY <1>1, Invariant, PTL

\* Render(): whatever goroutines call it and wherever code of the plugin panics,
\* protoc gets one response at most, and the artifacts of every module are in
\* it, or of none after a panic.
THEOREM ResponseCorrect == Spec => []OneFullResponse
<1>1. IndInv => OneFullResponse
  <2> SUFFICES ASSUME IndInv PROVE OneFullResponse
    OBVIOUS
  <2>1. out = <<>> \/ out = <<mods>> \/ (panicked /\ out = <<<<>>>>)
    BY DEF IndInv, Responding
  <2>2. CASE out = <<>>
    BY <2>2 DEF OneFullResponse
  <2>3. CASE out = <<mods>>
    <3>1. Len(out) = 1 /\ DOMAIN out = {1} /\ out[1] = mods
      BY <2>3
    <3>2. QED
      BY <3>1 DEF OneFullResponse
  <2>4. CASE panicked /\ out = <<<<>>>>
    <3>1. Len(out) = 1 /\ DOMAIN out = {1} /\ out[1] = <<>>
      BY <2>4
    <3>2. QED
      BY <2>4, <3>1 DEF OneFullResponse
  <2>5. QED
    BY <2>1, <2>2, <2>3, <2>4
<1>2. QED
  BY <1>1, Invariant, PTL

-----------------------------------------------------------------------------
\* Until a panic a stage that has ended has left its result.
Delivered ==
    ~panicked =>
       /\ once["Init"] = "done" <=> ast
       /\ once["Persist"] = "done" <=> out # <<>>

\* A response that was written shows.
LEMMA WriteShows == ASSUME TypeOK, NEW c \in Callers, Write(c) PROVE out' # <<>>
<1>1. out' = Append(out, arts) /\ out \in Seq(Seq(Modules)) /\ arts \in Seq(Modules)
  BY DEF Write, TypeOK
<1>2. Len(out') = Len(out) + 1 /\ Len(out) \in Nat
  BY <1>1
<1>3. QED
  BY <1>2

\* Stages leave their results, and nothing else sets them.
LEMMA NextDelivered ==
    TypeOK /\ Exclusive /\ Delivered /\ [Next]_vars => Delivered'
<1> SUFFICES ASSUME TypeOK, Exclusive, Delivered, [Next]_vars
             PROVE  Delivered'
  OBVIOUS
<1>1. ASSUME NEW m \in Modules, RegisterModule(m) PROVE Delivered'
  BY <1>1 DEF Delivered, RegisterModule
<1>2. ASSUME NEW c \in Callers, NEW which \in {"AST", "Render"}, Start(c, which)
      PROVE  Delivered'
  BY <1>2 DEF Delivered, Start
<1>3. ASSUME NEW c \in Callers, NEW s \in Stages, Enter(c, s) PROVE Delivered'
  BY <1>3 DEF Delivered, Enter, TypeOK, Stages
<1>4. ASSUME NEW c \in Callers, NEW s \in Stages, Skip(c, s) PROVE Delivered'
  BY <1>4 DEF Delivered, Skip
<1>5. ASSUME NEW c \in Callers, Build(c) PROVE Delivered'
  BY <1>5 DEF Delivered, Build, Complete, TypeOK, Stages
<1>6. ASSUME NEW c \in Callers, Write(c) PROVE Delivered'
  <2>1. out' # <<>>
    BY <1>6, WriteShows
  <2>2. once' = [once EXCEPT !["Persist"] = "done"]
    BY <1>6 DEF Write, Complete
  <2>3. QED
    BY <1>6, <2>1, <2>2 DEF Delivered, Write, TypeOK, Stages
<1>7. ASSUME NEW c \in Callers, AllExecuted(c) PROVE Delivered'
  BY <1>7 DEF Delivered, AllExecuted, Complete, TypeOK, Stages
<1>8. ASSUME NEW c \in Callers,
             \/ Read(c) \/ InitModule(c) \/ AllInited(c)
             \/ ExecuteModule(c) \/ Exit(c)
      PROVE  Delivered'
  BY <1>8 DEF Delivered, Read, InitModule, AllInited, ExecuteModule, Exit
<1>9. ASSUME NEW c \in Callers, Panic(c) PROVE Delivered'
  BY <1>9 DEF Delivered, Panic, PanicLeaves
<1>10. CASE UNCHANGED vars
  BY <1>10 DEF Delivered, vars
<1>11. QED
  BY <1>1, <1>2, <1>3, <1>4, <1>5, <1>6, <1>7, <1>8, <1>9, <1>10 DEF Next, Step

\* The call that a caller is in, as OneShot has it.
InOf == [c \in Callers |-> IF pc[c] = "idle" THEN "none" ELSE call[c]]

\* A step that keeps results and callers where they are is no step of OneShot, ...
LEMMA Stutter ==
    ASSUME TypeOK, alive' = alive, out' = out, ast' = ast, call' = call,
           panicked' = panicked,
           NEW c \in Callers, NEW p \in Places,
           pc[c] # "idle", p # "idle", pc' = [pc EXCEPT ![c] = p] \/ pc' = pc
    PROVE  StateOf' = StateOf /\ InOf' = InOf
<1>1. StateOf' = StateOf
  BY DEF StateOf
<1>2. \A d \in Callers : pc'[d] = "idle" <=> pc[d] = "idle"
  BY DEF TypeOK
<1>3. QED
  BY <1>1, <1>2 DEF InOf

\* ... and one that a call ends with is End.
LEMMA CallEnds ==
    ASSUME TypeOK, call' = call, NEW c \in Callers, pc[c] # "idle",
           pc' = [pc EXCEPT ![c] = "idle"],
           call[c] = "AST" => StateOf' \in {"built", "written", "broken"},
           call[c] = "Render" => StateOf' \in {"written", "broken"}
    PROVE  Promise!End(c)
<1>1. InOf[c] = call[c] /\ call[c] # "none"
  BY DEF InOf, TypeOK
<1>2. InOf' = [InOf EXCEPT ![c] = "none"]
  BY DEF InOf, TypeOK
<1>3. QED
  BY <1>1, <1>2 DEF Promise!End, InOf

\* Each step of a goroutine is a step of OneShot or none.
LEMMA StepRefines ==
    ASSUME IndInv, Delivered, Delivered', NEW c \in Callers, Step(c)
    PROVE  Promise!Next \/ (StateOf' = StateOf /\ InOf' = InOf)
<1> USE DEF IndInv
<1>1. ASSUME NEW s \in Stages, Enter(c, s)
      PROVE  StateOf' = StateOf /\ InOf' = InOf
  <2>1. PICK p \in Places \ {"idle"} : pc' = [pc EXCEPT ![c] = p]
    BY <1>1 DEF Enter, GoTo, Stages, Places
  <2>2. QED
    BY <1>1, <2>1, Stutter DEF Enter, At, Stages
<1>2. ASSUME NEW s \in Stages, Skip(c, s)
      PROVE  Promise!Next \/ (StateOf' = StateOf /\ InOf' = InOf)
  <2>1. pc' = [pc EXCEPT ![c] = After(c, s)] /\ pc[c] = s /\ once[s] = "done" /\ alive
    BY <1>2 DEF Skip, Leave, GoTo, At
  <2>2. CASE After(c, s) # "idle"
    BY <1>2, <2>1, <2>2, Stutter DEF Skip, After, Stages, Places
  <2>3. CASE After(c, s) = "idle"
    <3>1. StateOf' = StateOf
      BY <1>2 DEF Skip, StateOf
    <3>2. call[c] = "AST" => StateOf \in {"built", "written", "broken"}
      <4>1. call[c] = "AST" => s = "Init"
        BY <2>1 DEF CallersInPlace, Rendering, Stages
      <4>2. QED
        BY <2>1, <4>1 DEF Delivered, StateOf
    <3>3. call[c] = "Render" => StateOf \in {"written", "broken"}
      <4>1. call[c] = "Render" => s = "Persist"
        BY <2>3 DEF After, Stages
      <4>2. QED
        BY <2>1, <4>1 DEF Delivered, StateOf
    <3>4. Promise!End(c)
      BY <1>2, <2>1, <2>3, <3>1, <3>2, <3>3, CallEnds DEF Skip, Stages
    <3>5. StateOf # "dead"
      BY <2>1 DEF StateOf
    <3>6. QED
      BY <3>1, <3>4, <3>5 DEF Promise!Next
  <2>4. QED
    BY <2>2, <2>3
<1>3. ASSUME Read(c) \/ Exit(c)
      PROVE  Promise!Next \/ (StateOf' = StateOf /\ InOf' = InOf)
  <2>1. /\ alive /\ out' = out /\ ast' = ast /\ call' = call
        /\ panicked' = panicked
    BY <1>3 DEF Read, Exit, At
  <2>2. CASE alive'
    <3>1. pc' = [pc EXCEPT ![c] = "build"] /\ alive' = alive /\ pc[c] = "read"
      BY <1>3, <2>1, <2>2 DEF Read, Exit, GoTo, At
    <3>2. QED
      BY <2>1, <3>1, Stutter DEF Places
  <2>3. CASE ~alive'
    <3>1. pc' = pc
      BY <1>3, <2>1, <2>3 DEF Read, Exit
    <3>2. StateOf # "dead" /\ StateOf' = "dead" /\ InOf' = InOf
      BY <2>1, <2>3, <3>1 DEF StateOf, InOf
    <3>3. Promise!Die
      BY <3>2 DEF Promise!Die, InOf
    <3>4. QED
      BY <3>3 DEF Promise!Next
  <2>4. QED
    BY <2>2, <2>3
<1>4. ASSUME Build(c)
      PROVE  Promise!Next \/ (StateOf' = StateOf /\ InOf' = InOf)
  <2>1. /\ pc' = [pc EXCEPT ![c] = After(c, "Init")] /\ pc[c] = "build"
        /\ alive /\ alive' /\ call' = call /\ out' = out /\ ast'
        /\ panicked' = panicked
    BY <1>4 DEF Build, Complete, Leave, GoTo, At, TypeOK
  <2>2. ~panicked => ~ast /\ out = <<>>
    BY <2>1 DEF Exclusive, Delivered
  <2>3. \/ StateOf = "new" /\ StateOf' = "built"
        \/ StateOf = "broken" /\ StateOf' = "broken"
    BY <2>1, <2>2 DEF StateOf, TypeOK
  <2>4. Promise!Build \/ (StateOf # "dead" /\ StateOf' = StateOf)
    BY <2>3 DEF Promise!Build
  <2>5. CASE call[c] = "AST"
    <3>1. After(c, "Init") = "idle"
      BY <2>5 DEF After
    <3>2. Promise!End(c)
      BY <2>1, <2>3, <2>5, <3>1, CallEnds
    <3>3. QED
      BY <2>4, <3>2 DEF Promise!Next
  <2>6. CASE call[c] = "Render"
    <3>1. After(c, "Init") = "Run"
      BY <2>6 DEF After
    <3>2. InOf' = InOf
      BY <2>1, <3>1 DEF InOf, TypeOK
    <3>3. QED
      BY <2>4, <3>2 DEF Promise!Next, InOf
  <2>7. QED
    BY <2>5, <2>6 DEF TypeOK
<1>5. ASSUME Write(c)
      PROVE  Promise!Next \/ (StateOf' = StateOf /\ InOf' = InOf)
  <2>1. /\ pc' = [pc EXCEPT ![c] = "idle"] /\ pc[c] = "write"
        /\ alive /\ alive' /\ call' = call /\ panicked' = panicked
    BY <1>5 DEF Write, Complete, Leave, After, GoTo, At
  <2>2. once["Persist"] = "running" /\ once["Init"] = "done" /\ call[c] = "Render"
    BY <2>1 DEF Exclusive, CallersInPlace, Rendering
  <2>3. ~panicked => ast /\ out = <<>>
    BY <2>2 DEF Delivered
  <2>4. out' # <<>>
    BY <1>5, WriteShows
  <2>5. \/ StateOf = "built" /\ StateOf' = "written"
        \/ StateOf = "broken" /\ StateOf' = "broken"
    BY <2>1, <2>3, <2>4 DEF StateOf, TypeOK
  <2>6. Promise!Respond \/ (StateOf # "dead" /\ StateOf' = StateOf)
    BY <2>5 DEF Promise!Respond
  <2>7. Promise!End(c)
    BY <2>1, <2>2, <2>5, CallEnds
  <2>8. QED
    BY <2>6, <2>7 DEF Promise!Next
<1>6. ASSUME InitModule(c) \/ AllInited(c) \/ ExecuteModule(c) \/ AllExecuted(c)
      PROVE  StateOf' = StateOf /\ InOf' = InOf
  <2>1. /\ alive' = alive /\ out' = out /\ ast' = ast /\ call' = call
        /\ panicked' = panicked /\ pc[c] # "idle"
    BY <1>6 DEF InitModule, AllInited, ExecuteModule, AllExecuted, At
  <2>2. \/ pc' = pc \/ pc' = [pc EXCEPT ![c] = "execute"]
        \/ pc' = [pc EXCEPT ![c] = "Persist"]
    BY <1>6 DEF InitModule, AllInited, ExecuteModule, AllExecuted, GoTo,
                Complete, Leave, After
  <2>3. QED
    BY <2>1, <2>2, Stutter DEF Places, Stages
<1>7. ASSUME Panic(c) PROVE Promise!Next
  <2>1. /\ pc' = [pc EXCEPT ![c] = "idle"] /\ pc[c] # "idle"
        /\ alive /\ alive' /\ call' = call /\ panicked'
    BY <1>7 DEF Panic, PanicLeaves, GoTo, At
  <2>2. StateOf # "dead" /\ StateOf' = "broken"
    BY <2>1 DEF StateOf
  <2>3. InOf[c] # "none" /\ InOf' = [InOf EXCEPT ![c] = "none"]
    BY <2>1 DEF InOf, TypeOK
  <2>4. Promise!Break(c)
    BY <2>2, <2>3 DEF Promise!Break, InOf
  <2>5. QED
    BY <2>4 DEF Promise!Next
<1>8. QED
  BY <1>1, <1>2, <1>3, <1>4, <1>5, <1>6, <1>7 DEF Step

\* AST() and Render(), for any number of goroutines that call them and for any
\* modules: until code of the plugin panics, what the callers see is what
\* OneShot, and so generator.go, says.
THEOREM PromiseKept == Spec => ImplementsPromise
<1>1. Init => Promise!Init /\ Delivered
  <2> SUFFICES ASSUME Init PROVE Promise!Init /\ Delivered
    OBVIOUS
  <2>1. StateOf = "new" /\ InOf = [c \in Callers |-> "none"]
    BY DEF Init, StateOf, InOf
  <2>2. QED
    BY <2>1 DEF Init, Promise!Init, Delivered, InOf, Stages
<1>2. IndInv /\ Delivered /\ [Next]_vars => Delivered'
  BY NextDelivered DEF IndInv
<1>3. IndInv /\ Delivered /\ Delivered' /\ [Next]_vars
        => [Promise!Next]_<<StateOf, InOf>>
  <2> SUFFICES ASSUME IndInv, Delivered, Delivered', [Next]_vars
               PROVE  Promise!Next \/ (StateOf' = StateOf /\ InOf' = InOf)
    OBVIOUS
  <2>1. ASSUME NEW m \in Modules, RegisterModule(m)
        PROVE  StateOf' = StateOf /\ InOf' = InOf
    BY <2>1 DEF RegisterModule, StateOf, InOf
  <2>2. ASSUME NEW c \in Callers, NEW which \in {"AST", "Render"}, Start(c, which)
        PROVE  Promise!Next
    <3>1. alive /\ pc[c] = "idle" /\ StateOf' = StateOf
      BY <2>2 DEF Start, At, StateOf
    <3>2. StateOf # "dead" /\ InOf[c] = "none"
      BY <3>1 DEF StateOf, InOf
    <3>3. InOf' = [InOf EXCEPT ![c] = which]
      BY <2>2 DEF IndInv, TypeOK, Start, GoTo, InOf
    <3>4. Promise!Start(c, which)
      BY <3>1, <3>2, <3>3 DEF Promise!Start, InOf
    <3>5. QED
      BY <3>4 DEF Promise!Next
  <2>3. CASE UNCHANGED vars
    BY <2>3 DEF vars, StateOf, InOf
  <2>4. QED
    BY <2>1, <2>2, <2>3, StepRefines DEF Next
<1>4. [Promise!Next]_<<StateOf, InOf>> <=>
        [Promise!Next]_<<StateOf, [c \in Callers |-> IF pc[c] = "idle" THEN "none"
                                                      ELSE call[c]]>>
  BY DEF InOf
<1>5. QED
  BY <1>1, <1>2, <1>3, <1>4, Invariant, PTL DEF Spec, ImplementsPromise, Promise!Spec
=============================================================================
