-------------------------- MODULE ServerCodeProofs --------------------------
(* Theorems about TaskExecutor and its loader, for every program and every  *)
(* set of tasks                                                             *)
EXTENDS TaskExecutor, FiniteSetTheorems, SequenceTheorems,
        WellFoundedInduction, TLAPS

Frame == [file : Files, at : Nat \ {0}]
ModelType == [provider : [Names -> Files \cup {NoFile}], errors : SUBSET Files]

\* While files are being loaded the contexts are the files of the stack; bodies
\* that the code of a task requires have none.
InContext ==
  contexts # <<>> =>
    /\ Len(contexts) = Len(stack)
    /\ \A i \in 1 .. Len(stack) : contexts[i] = stack[i].file

\* Files are only read into the model in these phases (or when killed there)
LoadsInPhase ==
  /\ phase \notin {"publishing", "loading", "gone"} => contexts = <<>>
  /\ phase = "started" => stack = <<>>

\* A failure is noted before the task is answered and sent with its answer
FailuresAreReported ==
  /\ model.errors # {} => critical
  /\ abandoned # {} => critical /\ phase \in {"answered", "reported", "gone"}
  /\ phase \in {"waiting", "started", "running"} => model.errors = {}
  /\ phase = "reported" /\ (model.errors # {} \/ abandoned # {}) => reported

----------------------------------------------------------------------------
(* The operators on stacks                                                 *)

LEMMA FrontOfSeq ==
  ASSUME NEW S, NEW s \in Seq(S), s # <<>>
  PROVE  /\ Len(s) \in Nat \ {0}
         /\ Front(s) \in Seq(S) /\ Len(Front(s)) = Len(s) - 1
         /\ \A i \in 1 .. Len(s) - 1 : Front(s)[i] = s[i]
         /\ Last(s) \in S /\ Last(s) = s[Len(s)]
<1>1. Len(s) \in Nat \ {0} /\ \A i \in 1 .. Len(s) : s[i] \in S
  OBVIOUS
<1>2. Front(s) \in Seq(S) /\ Len(Front(s)) = Len(s) - 1
  BY <1>1, SubSeqProperties DEF Front
<1>3. \A i \in 1 .. Len(s) - 1 : Front(s)[i] = s[i]
  BY <1>1 DEF Front
<1> QED BY <1>1, <1>2, <1>3 DEF Last

LEMMA FrontOfEmpty ==
  Front(<<>>) = <<>>
BY DEF Front

LEMMA AdvancedStack ==
  ASSUME NEW s \in Seq(Frame)
  PROVE  /\ Advanced(s) \in Seq(Frame) /\ Len(Advanced(s)) = Len(s)
         /\ \A i \in 1 .. Len(s) : Advanced(s)[i].file = s[i].file
<1>1. CASE s = <<>>
  BY <1>1 DEF Advanced
<1>2. CASE s # <<>>
  <2>1. Len(s) \in 1 .. Len(s) /\ s[Len(s)] \in Frame
    BY <1>2
  <2>2. [s[Len(s)] EXCEPT !.at = @ + 1] \in Frame
    BY <2>1 DEF Frame
  <2>3. Advanced(s) = [s EXCEPT ![Len(s)] = [s[Len(s)] EXCEPT !.at = @ + 1]]
    BY <1>2 DEF Advanced
  <2>4. Advanced(s) \in Seq(Frame) /\ Len(Advanced(s)) = Len(s)
    BY <2>1, <2>2, <2>3
  <2>5. ASSUME NEW i \in 1 .. Len(s)
        PROVE  Advanced(s)[i].file = s[i].file
    <3>1. s[i] \in Frame
      OBVIOUS
    <3> QED BY <2>1, <2>3, <3>1 DEF Frame
  <2> QED BY <2>4, <2>5
<1> QED BY <1>1, <1>2

----------------------------------------------------------------------------
(* The loader                                                              *)

LoaderInv == LoaderTypeOK /\ InContext /\ ProvidersAreAuthors

\* The statement that runs is one of the script of the file that runs
LEMMA StatementOfRunning ==
  ASSUME LoaderTypeOK, stack # <<>>
  PROVE  /\ Running \in Files /\ script[Running] \in Seq(Statements)
         /\ stack \in Seq(Frame)
         /\ ~AtEnd => /\ Last(stack).at \in 1 .. Len(script[Running])
                      /\ Statement \in Statements
<1>1. stack \in Seq(Frame)
  BY DEF LoaderTypeOK, Frame
<1>2. Last(stack) \in Frame
  BY <1>1, FrontOfSeq
<1>3. Running \in Files /\ Last(stack).at \in Nat \ {0}
  BY <1>2 DEF Running, Frame
<1>4. script[Running] \in Seq(Statements)
  BY <1>3, ScriptAssumption DEF LoaderTypeOK
<1>5. ASSUME ~AtEnd
      PROVE  Last(stack).at \in 1 .. Len(script[Running]) /\ Statement \in Statements
  BY <1>3, <1>4, <1>5 DEF AtEnd, Statement
<1> QED BY <1>1, <1>3, <1>4, <1>5

LEMMA StatementFields ==
  ASSUME NEW st \in Statements
  PROVE  /\ st.do = "register" => st.name \in Names
         /\ st.do = "require" => st.file \in Files
BY DEF Statements

LEMMA EnterKeeps ==
  ASSUME LoaderInv, NEW f \in Files, NEW s \in Seq(Frame), s = stack, Enter(f, s)
  PROVE  /\ node' \in [Files -> {"absent", "loading", "loaded", "late"}]
         /\ stack' \in Seq([file : Files, at : Nat \ {0}])
         /\ contexts' \in Seq(Files)
         /\ InContext'
         /\ contexts' # <<>> => stack = <<>> \/ contexts # <<>>
<1> USE DEF LoaderInv, LoaderTypeOK
<1>1. CASE node[f] = "absent"
  <2> DEFINE frame == [file |-> f, at |-> 1]
  <2>1. frame \in Frame /\ frame.file = f
    BY DEF Frame
  <2>2. stack' = Append(stack, frame) /\ node' = [node EXCEPT ![f] = "loading"]
    BY <1>1 DEF Enter
  <2>3. contexts' = IF IsLate THEN contexts ELSE Append(contexts, f)
    BY <1>1 DEF Enter
  <2> HIDE DEF frame
  <2>4. stack' \in Seq(Frame) /\ Len(stack') = Len(stack) + 1
    BY <2>1, <2>2
  <2>5. CASE IsLate
    BY <2>2, <2>3, <2>4, <2>5 DEF IsLate, InContext, Frame
  <2>6. CASE ~IsLate
    <3>1. contexts' = Append(contexts, f) /\ contexts' \in Seq(Files)
          /\ Len(contexts') = Len(contexts) + 1
      BY <2>3, <2>6
    <3>2. Len(contexts) = Len(stack) /\ (contexts = <<>> => stack = <<>>)
      BY <2>6 DEF IsLate, InContext
    <3>3. \A i \in 1 .. Len(stack) : contexts[i] = stack[i].file
      BY <3>2 DEF InContext
    <3>4. ASSUME NEW i \in 1 .. Len(stack')
          PROVE  contexts'[i] = stack'[i].file
      BY <2>1, <2>2, <2>4, <3>1, <3>2, <3>3
    <3>5. InContext'
      BY <2>4, <3>1, <3>2, <3>4 DEF InContext
    <3> QED BY <2>2, <2>4, <3>1, <3>2, <3>5 DEF Frame
  <2> QED BY <2>5, <2>6
<1>2. CASE node[f] # "absent"
  <2>1. stack' = Advanced(stack) /\ node' = node /\ contexts' = contexts
    BY <1>2 DEF Enter
  <2>2. stack' \in Seq(Frame) /\ Len(stack') = Len(stack)
        /\ \A i \in 1 .. Len(stack) : stack'[i].file = stack[i].file
    BY <2>1, AdvancedStack
  <2> QED BY <2>1, <2>2 DEF InContext, Frame
<1> QED BY <1>1, <1>2

\* A body ends: stack and contexts lose their uppermost elements together
LEMMA PopKeeps ==
  ASSUME LoaderInv, stack # <<>>, NEW st,
         st = Front(stack) \/ st = Advanced(Front(stack))
  PROVE  /\ st \in Seq(Frame)
         /\ Front(contexts) \in Seq(Files)
         /\ Front(contexts) # <<>> => Len(Front(contexts)) = Len(st)
         /\ Front(contexts) # <<>> =>
              \A i \in 1 .. Len(st) : Front(contexts)[i] = st[i].file
         /\ contexts = <<>> => Front(contexts) = <<>>
<1>1. stack \in Seq(Frame) /\ contexts \in Seq(Files)
  BY DEF LoaderInv, LoaderTypeOK, Frame
<1>2. /\ Front(stack) \in Seq(Frame) /\ Len(Front(stack)) = Len(stack) - 1
      /\ Len(stack) \in Nat \ {0}
      /\ \A i \in 1 .. Len(stack) - 1 : Front(stack)[i] = stack[i]
  BY <1>1, FrontOfSeq
<1>3. /\ st \in Seq(Frame) /\ Len(st) = Len(stack) - 1
      /\ \A i \in 1 .. Len(stack) - 1 : st[i].file = stack[i].file
  BY <1>2, AdvancedStack
<1>4. CASE contexts = <<>>
  <2>1. Front(contexts) = <<>>
    BY <1>4, FrontOfEmpty
  <2> QED BY <1>1, <1>3, <1>4, <2>1
<1>5. CASE contexts # <<>>
  <2>1. /\ Front(contexts) \in Seq(Files) /\ Len(Front(contexts)) = Len(contexts) - 1
        /\ \A i \in 1 .. Len(contexts) - 1 : Front(contexts)[i] = contexts[i]
    BY <1>1, <1>5, FrontOfSeq
  <2>2. /\ Len(contexts) = Len(stack)
        /\ \A i \in 1 .. Len(stack) : contexts[i] = stack[i].file
    BY <1>5 DEF LoaderInv, InContext
  <2>3. ASSUME NEW i \in 1 .. Len(st)
        PROVE  Front(contexts)[i] = st[i].file
    BY <1>2, <1>3, <2>1, <2>2
  <2> QED BY <1>3, <1>5, <2>1, <2>2, <2>3
<1> QED BY <1>4, <1>5

\* A registration is made by the file named in the uppermost context
LEMMA RegisteredByAuthor ==
  ASSUME LoaderInv, stack # <<>>, ~IsLate, ~AtEnd, Statement.do = "register"
  PROVE  /\ Registered(model, Statement) \in ModelType
         /\ Registered(model, Statement).errors = model.errors
         /\ \A n \in Names : Registered(model, Statement).provider[n] # NoFile =>
              Registers(Registered(model, Statement).provider[n], n)
<1>1. /\ Running \in Files /\ script[Running] \in Seq(Statements)
      /\ Last(stack).at \in 1 .. Len(script[Running]) /\ Statement \in Statements
  BY StatementOfRunning DEF LoaderInv
<1>2. contexts # <<>> /\ Len(contexts) = Len(stack)
  BY DEF IsLate, LoaderInv, InContext
<1>3. Last(contexts) = Running
  <2>1. Len(stack) \in 1 .. Len(stack)
    BY DEF LoaderInv, LoaderTypeOK
  <2> QED BY <1>2, <2>1 DEF Last, Running, LoaderInv, InContext
<1>4. Statement.name \in Names
  BY <1>1, StatementFields
<1>5. Registers(Running, Statement.name)
  BY <1>1 DEF Registers, Statement
<1>6. model \in ModelType
  BY DEF LoaderInv, LoaderTypeOK, ModelType
<1>7. CASE IsIgnored(model, Statement)
  BY <1>6, <1>7 DEF Registered, LoaderInv, ProvidersAreAuthors
<1>8. CASE ~IsIgnored(model, Statement)
  <2>1. Registered(model, Statement) = [model EXCEPT !.provider[Statement.name] = Running]
    BY <1>3, <1>8 DEF Registered
  <2>2. Registered(model, Statement) =
          [model EXCEPT !.provider = [model.provider EXCEPT ![Statement.name] = Running]]
    BY <2>1
  <2>3. [model.provider EXCEPT ![Statement.name] = Running] \in [Names -> Files \cup {NoFile}]
    BY <1>1, <1>4, <1>6 DEF ModelType
  <2>4. Registered(model, Statement) \in ModelType
        /\ Registered(model, Statement).errors = model.errors
        /\ Registered(model, Statement).provider =
             [model.provider EXCEPT ![Statement.name] = Running]
    BY <1>6, <2>2, <2>3 DEF ModelType
  <2> QED BY <1>4, <1>5, <1>6, <2>4 DEF LoaderInv, ProvidersAreAuthors, ModelType
<1> QED BY <1>7, <1>8

\* A step of the loader keeps its invariant; it notes every failure, adds
\* errors to the model only while files are loaded, and pushes no context for the
\* code of a task.
LEMMA LoaderStep ==
  ASSUME LoaderInv, LoaderNext
  PROVE  /\ LoaderInv'
         /\ critical => critical'
         /\ model'.errors # model.errors => critical' /\ contexts # <<>>
         /\ contexts' # <<>> => contexts # <<>> \/ stack = <<>>
<1>1. CASE LoadNext
  <2>1. stack = <<>> /\ todo # <<>> /\ todo \in Seq(Files) /\ stack \in Seq(Frame)
    BY <1>1 DEF LoadNext, LoaderInv, LoaderTypeOK
  <2>2. Head(todo) \in Files /\ Tail(todo) \in Seq(Files)
    BY <2>1
  <2>3. Enter(Head(todo), stack)
    BY <1>1, <2>1 DEF LoadNext
  <2>4. /\ node' \in [Files -> {"absent", "loading", "loaded", "late"}]
        /\ stack' \in Seq([file : Files, at : Nat \ {0}])
        /\ contexts' \in Seq(Files)
        /\ InContext'
    BY <2>1, <2>2, <2>3, EnterKeeps
  <2> QED BY <1>1, <2>1, <2>2, <2>4
          DEF LoadNext, LoaderInv, LoaderTypeOK, ProvidersAreAuthors, Registers
<1>2. CASE Register
  <2>1. stack # <<>> /\ ~IsLate /\ ~AtEnd /\ Statement.do = "register"
        /\ stack \in Seq(Frame)
    BY <1>2 DEF Register, Runs, LoaderInv, LoaderTypeOK, Frame
  <2>2. CASE IsRefused(model, Statement)
    BY <1>2, <2>2
       DEF Register, LoaderInv, LoaderTypeOK, InContext, ProvidersAreAuthors, Registers
  <2>3. CASE ~IsRefused(model, Statement)
    <3>1. model' = Registered(model, Statement) /\ stack' = Advanced(stack)
      BY <1>2, <2>3 DEF Register
    <3>2. /\ model' \in ModelType /\ model'.errors = model.errors
          /\ \A n \in Names : model'.provider[n] # NoFile => Registers(model'.provider[n], n)
      BY <2>1, <3>1, RegisteredByAuthor
    <3>3. stack' \in Seq(Frame) /\ Len(stack') = Len(stack)
          /\ \A i \in 1 .. Len(stack) : stack'[i].file = stack[i].file
      BY <2>1, <3>1, AdvancedStack
    <3>4. UNCHANGED <<script, node, contexts, todo, critical, thrown>>
      BY <1>2, <2>3 DEF Register
    <3>5. InContext' /\ ProvidersAreAuthors'
      BY <3>2, <3>3, <3>4 DEF LoaderInv, InContext, ProvidersAreAuthors, Registers
    <3>6. LoaderTypeOK'
      BY <3>2, <3>3, <3>4 DEF LoaderInv, LoaderTypeOK, Frame, ModelType
    <3> QED BY <3>2, <3>4, <3>5, <3>6 DEF LoaderInv
  <2> QED BY <2>2, <2>3
<1>3. CASE RegisterLate
  <2>1. stack \in Seq(Frame)
    BY DEF LoaderInv, LoaderTypeOK, Frame
  <2>2. stack' \in Seq(Frame) /\ Len(stack') = Len(stack)
        /\ \A i \in 1 .. Len(stack) : stack'[i].file = stack[i].file
    BY <1>3, <2>1, AdvancedStack DEF RegisterLate
  <2>3. UNCHANGED <<script, node, contexts, todo, model, critical>> /\ thrown' \in BOOLEAN
    BY <1>3 DEF RegisterLate, LoaderInv, LoaderTypeOK
  <2> QED BY <2>2, <2>3
          DEF LoaderInv, LoaderTypeOK, InContext, ProvidersAreAuthors, Registers, Frame
<1>4. CASE Require
  <2>1. stack # <<>> /\ Statement.do = "require" /\ Enter(Statement.file, stack)
        /\ stack \in Seq(Frame) /\ ~AtEnd
    BY <1>4 DEF Require, Runs, LoaderInv, LoaderTypeOK, Frame
  <2>2. Statement.file \in Files
    BY <2>1, StatementOfRunning, StatementFields DEF LoaderInv
  <2>3. /\ node' \in [Files -> {"absent", "loading", "loaded", "late"}]
        /\ stack' \in Seq([file : Files, at : Nat \ {0}])
        /\ contexts' \in Seq(Files)
        /\ InContext'
        /\ contexts' # <<>> => stack = <<>> \/ contexts # <<>>
    BY <2>1, <2>2, EnterKeeps
  <2> QED BY <1>4, <2>3
          DEF Require, LoaderInv, LoaderTypeOK, ProvidersAreAuthors, Registers
<1>5. CASE Throw
  BY <1>5 DEF Throw, LoaderInv, LoaderTypeOK, InContext, ProvidersAreAuthors, Registers
<1>6. CASE Return
  <2>1. /\ stack # <<>> /\ stack' = Advanced(Front(stack)) /\ contexts' = Front(contexts)
        /\ UNCHANGED <<script, thrown, todo, model, critical>>
        /\ node' = [node EXCEPT ![Running] = IF IsLate THEN "late" ELSE "loaded"]
    BY <1>6 DEF Return
  <2>2. /\ stack' \in Seq(Frame) /\ contexts' \in Seq(Files) /\ InContext'
        /\ contexts = <<>> => contexts' = <<>>
    BY <2>1, PopKeeps DEF InContext
  <2>3. node' \in [Files -> {"absent", "loading", "loaded", "late"}]
    BY <2>1 DEF LoaderInv, LoaderTypeOK
  <2> QED BY <2>1, <2>2, <2>3
          DEF LoaderInv, LoaderTypeOK, ProvidersAreAuthors, Registers, Frame
<1>7. CASE Unwind
  <2>1. /\ stack # <<>> /\ contexts' = Front(contexts)
        /\ stack' = Front(stack) \/ stack' = Advanced(Front(stack))
        /\ UNCHANGED <<script, todo>> /\ critical' = TRUE
        /\ node' = [node EXCEPT ![Running] = "absent"]
    BY <1>7 DEF Unwind
  <2>2. /\ stack' \in Seq(Frame) /\ contexts' \in Seq(Files) /\ InContext'
        /\ contexts = <<>> => contexts' = <<>>
    BY <2>1, PopKeeps DEF InContext
  <2>3. node' \in [Files -> {"absent", "loading", "loaded", "late"}]
    BY <2>1 DEF LoaderInv, LoaderTypeOK
  <2>4. thrown' \in BOOLEAN
    BY <1>7 DEF Unwind
  <2>5. \/ model' = model
        \/ model' = [model EXCEPT !.errors = @ \cup {Running}] /\ ~IsLate
    BY <1>7 DEF Unwind
  <2>6. Running \in Files
    BY <2>1, StatementOfRunning DEF LoaderInv
  <2>7. /\ model' \in ModelType /\ model'.provider = model.provider
        /\ model'.errors # model.errors => contexts # <<>>
    <3>1. model \in ModelType
      BY DEF LoaderInv, LoaderTypeOK, ModelType
    <3>2. CASE model' = model
      BY <3>1, <3>2
    <3>3. CASE model' = [model EXCEPT !.errors = @ \cup {Running}] /\ ~IsLate
      <4>1. contexts # <<>>
        BY <2>1, <3>3 DEF IsLate
      <4>2. model.errors \cup {Running} \in SUBSET Files
        BY <2>6, <3>1 DEF ModelType
      <4> QED BY <3>1, <3>3, <4>1, <4>2 DEF ModelType
    <3> QED BY <2>5, <3>2, <3>3
  <2>8. LoaderTypeOK'
    BY <2>1, <2>2, <2>3, <2>4, <2>7 DEF LoaderInv, LoaderTypeOK, Frame, ModelType
  <2>9. ProvidersAreAuthors'
    BY <2>1, <2>7 DEF LoaderInv, ProvidersAreAuthors, Registers
  <2> QED BY <2>1, <2>2, <2>7, <2>8, <2>9 DEF LoaderInv
<1> QED BY <1>1, <1>2, <1>3, <1>4, <1>5, <1>6, <1>7 DEF LoaderNext

----------------------------------------------------------------------------
(* The executor                                                            *)

\* The task in hand invokes what was deployed
TaskInHand ==
  /\ phase \in {"publishing", "refused"} => task = NoTask
  /\ phase = "started" => task \in Tasks
  /\ task \in Tasks /\ Target[task] \in Names => deployed.provider[Target[task]] # NoFile

Process == LoadsInPhase /\ FailuresAreReported /\ TaskInHand

ExecutorInv == ExecutorTypeOK /\ InContext /\ ProvidersAreAuthors /\ Process

\* What getModelForFile is to load is a sequence of files
LEMMA FilesForTask ==
  ASSUME ExecutorTypeOK, NEW t \in Tasks, Target[t] \in Names,
         deployed.provider[Target[t]] # NoFile, NEW files \in FilesFor(t)
  PROVE  files \in Seq(Files)
<1> DEFINE T == TypesFiles(deployed)
           file == <<deployed.provider[Target[t]]>>
<1>1. deployed.provider \in [Names -> Files \cup {NoFile}]
  BY DEF ExecutorTypeOK
<1>2. file \in Seq(Files)
  BY <1>1
<1>3. T \in SUBSET Files
  BY <1>1 DEF TypesFiles
<1>4. Cardinality(T) \in Nat
  BY <1>3, ScriptAssumption, FS_Subset, FS_CardinalityType
<1>5. \A s \in [1 .. Cardinality(T) -> T] : s \in Seq(Files)
  BY <1>3, <1>4
<1> HIDE DEF T, file
<1>6. \/ files = file
      \/ \E s \in [1 .. Cardinality(T) -> T] : files = s \o file
  BY DEF FilesFor, T, file
<1> QED BY <1>2, <1>5, <1>6, ConcatProperties

LEMMA LoaderUnchanged ==
  ASSUME LoaderInv, UNCHANGED loaderVars
  PROVE  LoaderInv'
BY DEF LoaderInv, LoaderTypeOK, InContext, ProvidersAreAuthors, Registers, loaderVars

\* Steps of the executor that leave the loader alone
LEMMA ExecutorStep ==
  ASSUME ExecutorInv, UNCHANGED loaderVars,
         \/ Refuse \/ \E t \in Tasks : StartTask(t)
         \/ FailSandbox \/ FailDescriptor \/ FailModel \/ MissCode \/ FailInvocation \/ Invoke \/ Shutdown
         \/ Report \/ GoIdle
         \/ Block \/ Resolve \/ Reject \/ Die
  PROVE  ExecutorInv'
<1> USE DEF ExecutorInv, ExecutorTypeOK, Process, LoadsInPhase, FailuresAreReported,
            TaskInHand, Phases, loaderVars
<1>1. LoaderInv'
  BY LoaderUnchanged DEF LoaderInv
<1>2. CASE Refuse
  BY <1>1, <1>2 DEF Refuse, LoaderInv, IsLoaded, InContext
<1>3. ASSUME NEW t \in Tasks, StartTask(t)
      PROVE  ExecutorInv'
  BY <1>1, <1>3, TaskAssumption DEF StartTask, LoaderInv
<1>4. CASE FailSandbox
  BY <1>1, <1>4 DEF FailSandbox, Answered, LoaderInv
<1>5. CASE FailModel
  BY <1>1, <1>5 DEF FailModel, Answered, LoaderInv, InContext, IsLoaded
<1>6. CASE MissCode
  BY <1>1, <1>6 DEF MissCode, Answered, LoaderInv, InContext, IsLoaded
<1>7. CASE Invoke
  <2>1. /\ phase' = "running" /\ sandboxed' \in BOOLEAN
        /\ UNCHANGED <<deployed, isNew, task, answer, reported, abandoned, blocked>>
    BY <1>7 DEF Invoke
  <2>2. contexts = <<>> /\ model.errors = {} /\ abandoned = {}
    BY <1>7 DEF Invoke, HasCode, InContext, IsLoaded
  <2> QED BY <1>1, <2>1, <2>2 DEF LoaderInv
<1>8. CASE Shutdown
  BY <1>1, <1>8 DEF Shutdown, LoaderInv
<1>9. CASE Report
  <2>1. /\ phase' = "reported" /\ reported' = critical /\ phase = "answered"
        /\ UNCHANGED <<deployed, isNew, task, answer, sandboxed, abandoned, blocked>>
    BY <1>9 DEF Report
  <2>2. (model.errors # {} \/ abandoned # {} => critical) /\ critical \in BOOLEAN
    BY DEF LoaderTypeOK
  <2>3. phase' = "reported" /\ (model'.errors # {} \/ abandoned' # {}) => reported'
    BY <2>1, <2>2
  <2> QED BY <1>1, <2>1, <2>2, <2>3 DEF LoaderInv
<1>10. CASE GoIdle
  BY <1>1, <1>10 DEF GoIdle, LoaderInv
<1>11. CASE Block
  BY <1>1, <1>11 DEF Block, LoaderInv
<1>12. CASE Resolve
  BY <1>1, <1>12 DEF Resolve, ResultsOf, Answered, LoaderInv
<1>13. CASE Reject
  BY <1>1, <1>13 DEF Reject, Answered, LoaderInv
<1>14. CASE Die
  BY <1>1, <1>14 DEF Die, LoaderInv
<1>15. CASE FailInvocation
  <2>1. /\ phase' = "answered" /\ answer' = "error" /\ sandboxed' \in BOOLEAN
        /\ UNCHANGED <<deployed, isNew, task, reported, abandoned, blocked>>
    BY <1>15 DEF FailInvocation, Answered
  <2>2. contexts = <<>> /\ abandoned = {}
    BY <1>15 DEF FailInvocation, HasCode, InContext, IsLoaded
  <2> QED BY <1>1, <2>1, <2>2 DEF LoaderInv
<1>16. CASE FailDescriptor
  <2>1. /\ phase' = "answered" /\ answer' = "error" /\ sandboxed' \in BOOLEAN
        /\ UNCHANGED <<deployed, isNew, task, reported, abandoned, blocked>>
    BY <1>16 DEF FailDescriptor, Answered
  <2>2. phase = "started"
    BY <1>16 DEF FailDescriptor
  <2>3. contexts = <<>> /\ abandoned = {}
    BY <2>2 DEF InContext
  <2> QED BY <1>1, <2>1, <2>2, <2>3 DEF LoaderInv
<1> QED BY <1>2, <1>3, <1>4, <1>5, <1>6, <1>7, <1>8, <1>9, <1>10, <1>11, <1>12, <1>13, <1>14,
           <1>15, <1>16

LEMMA ExecutorInitially ==
  ASSUME ExecutorInit
  PROVE  ExecutorInv
<1> USE DEF ExecutorInit, LoaderInit, NewModel
<1>0. model \in ModelType
  BY DEF ModelType
<1>1. LoaderTypeOK /\ InContext /\ ProvidersAreAuthors
  <2>1. LoaderTypeOK
    <3>1. script \in Scripts /\ thrown \in BOOLEAN /\ critical \in BOOLEAN
      OBVIOUS
    <3>2. node \in [Files -> {"absent", "loading", "loaded", "late"}]
      OBVIOUS
    <3>3. stack \in Seq([file : Files, at : Nat \ {0}]) /\ contexts \in Seq(Files)
      OBVIOUS
    <3>4. todo \in Seq(Files)
      BY ScriptAssumption
    <3> QED BY <1>0, <3>1, <3>2, <3>3, <3>4 DEF LoaderTypeOK, ModelType
  <2>2. InContext
    BY DEF InContext
  <2>3. ProvidersAreAuthors
    BY DEF ProvidersAreAuthors
  <2> QED BY <2>1, <2>2, <2>3
<1>2. ExecutorTypeOK
  BY <1>1 DEF ExecutorTypeOK, Phases
<1>3. task \notin Tasks
  BY TaskAssumption
<1>4. Process
  BY <1>3 DEF Process, LoadsInPhase, FailuresAreReported, TaskInHand
<1> QED BY <1>1, <1>2, <1>4 DEF ExecutorInv

LEMMA ExecutorInductive ==
  ASSUME ExecutorInv, [ExecutorNext]_allVars
  PROVE  ExecutorInv'
<1>0. LoaderInv
  BY DEF ExecutorInv, ExecutorTypeOK, LoaderInv
<1>1. CASE Load
  <2>1. /\ LoaderNext /\ UNCHANGED executorVars
        /\ phase \in {"publishing", "loading"} \/ (stack # <<>> /\ phase # "gone")
    BY <1>1 DEF Load
  <2>2. /\ LoaderInv'
        /\ critical => critical'
        /\ model'.errors # model.errors => critical' /\ contexts # <<>>
        /\ contexts' # <<>> => contexts # <<>> \/ stack = <<>>
    BY <1>0, <2>1, LoaderStep
  <2>3. ExecutorTypeOK'
    BY <2>1, <2>2 DEF ExecutorInv, ExecutorTypeOK, LoaderInv, executorVars
  <2>4. LoadsInPhase'
    BY <2>1, <2>2 DEF ExecutorInv, Process, LoadsInPhase, executorVars
  <2>5. FailuresAreReported'
    BY <2>1, <2>2
       DEF ExecutorInv, Process, LoadsInPhase, FailuresAreReported, executorVars
  <2>6. TaskInHand'
    BY <2>1 DEF ExecutorInv, Process, TaskInHand, executorVars
  <2> QED BY <2>2, <2>3, <2>4, <2>5, <2>6 DEF LoaderInv, ExecutorInv, Process
<1>2. CASE Publish
  <2>1. /\ phase = "publishing" /\ phase' = "waiting" /\ deployed' = model
        /\ node' = [f \in Files |-> "absent"] /\ model' = NewModel /\ critical' = FALSE
        /\ UNCHANGED <<script, stack, contexts, thrown, todo, isNew, task, answer, reported,
                       sandboxed, abandoned, blocked>>
        /\ stack = <<>> /\ model \in ModelType
    BY <1>0, <1>2 DEF Publish, IsLoaded, LoaderInv, LoaderTypeOK, ModelType
  <2>2. contexts = <<>> /\ abandoned = {} /\ task = NoTask /\ NoTask \notin Tasks
    BY <2>1, TaskAssumption
       DEF ExecutorInv, InContext, Process, FailuresAreReported, TaskInHand
  <2>3. model' \in ModelType /\ model'.errors = {}
        /\ \A n \in Names : model'.provider[n] = NoFile
    BY <2>1 DEF NewModel, ModelType
  <2>4. LoaderTypeOK'
    BY <1>0, <2>1, <2>3 DEF LoaderInv, LoaderTypeOK, ModelType
  <2>5. ExecutorTypeOK'
    BY <2>1, <2>4 DEF ExecutorInv, ExecutorTypeOK, Phases, ModelType
  <2>6. InContext' /\ ProvidersAreAuthors'
    BY <2>1, <2>2, <2>3 DEF InContext, ProvidersAreAuthors
  <2>7. Process'
    BY <2>1, <2>2, <2>3 DEF Process, LoadsInPhase, FailuresAreReported, TaskInHand
  <2> QED BY <2>5, <2>6, <2>7 DEF ExecutorInv
<1>3. CASE GetModel
  <2>1. /\ phase = "started" /\ Target[task] \in Names /\ todo' \in FilesFor(task)
        /\ phase' = "loading" /\ isNew' = FALSE /\ sandboxed' \in BOOLEAN
        /\ UNCHANGED <<script, node, stack, contexts, thrown, model, critical, deployed, task,
                       answer, reported, abandoned, blocked>>
    BY <1>3 DEF GetModel
  <2>2. todo' \in Seq(Files)
    BY <2>1, FilesForTask DEF ExecutorInv, Process, TaskInHand
  <2>3. LoaderInv'
    BY <1>0, <2>1, <2>2
       DEF LoaderInv, LoaderTypeOK, InContext, ProvidersAreAuthors, Registers
  <2>4. ExecutorTypeOK'
    BY <2>1, <2>3 DEF ExecutorInv, ExecutorTypeOK, LoaderInv, Phases
  <2>5. Process'
    BY <2>1 DEF ExecutorInv, Process, LoadsInPhase, FailuresAreReported, TaskInHand
  <2> QED BY <2>3, <2>4, <2>5 DEF ExecutorInv, LoaderInv
<1>4. CASE TimeOut
  <2>1. /\ phase = "running" /\ phase' = "answered" /\ answer' = "error" /\ critical' = TRUE
        /\ abandoned' = abandoned \cup {task} /\ task \in Tasks
        /\ UNCHANGED <<script, node, stack, contexts, thrown, todo, model, deployed, isNew, task,
                       reported, sandboxed, blocked>>
    BY <1>4, TaskAssumption DEF TimeOut, TimerFires, Answered
  <2>2. LoaderInv'
    BY <1>0, <2>1
       DEF LoaderInv, LoaderTypeOK, InContext, ProvidersAreAuthors, Registers
  <2>3. ExecutorTypeOK'
    BY <2>1, <2>2 DEF ExecutorInv, ExecutorTypeOK, LoaderInv, Phases
  <2>4. Process'
    BY <2>1 DEF ExecutorInv, Process, LoadsInPhase, FailuresAreReported, TaskInHand
  <2> QED BY <2>2, <2>3, <2>4 DEF ExecutorInv, LoaderInv
<1>5. CASE FailLateRequire
  <2>1. /\ critical' = TRUE
        /\ UNCHANGED <<script, node, stack, contexts, thrown, todo, model, executorVars>>
    BY <1>5 DEF FailLateRequire
  <2>2. LoaderInv'
    BY <1>0, <2>1
       DEF LoaderInv, LoaderTypeOK, InContext, ProvidersAreAuthors, Registers
  <2>3. ExecutorTypeOK'
    BY <2>1, <2>2 DEF ExecutorInv, ExecutorTypeOK, LoaderInv, executorVars
  <2>4. Process'
    BY <2>1
       DEF ExecutorInv, Process, LoadsInPhase, FailuresAreReported, TaskInHand, executorVars
  <2> QED BY <2>2, <2>3, <2>4 DEF ExecutorInv, LoaderInv
<1>6. ASSUME NEW f \in Files, LateRequire(f)
      PROVE  ExecutorInv'
  <2>1. /\ stack = <<>> /\ stack' = <<[file |-> f, at |-> 1]>> /\ phase # "started"
        /\ node' = [node EXCEPT ![f] = "loading"]
        /\ UNCHANGED <<script, contexts, thrown, todo, model, critical, executorVars>>
    BY <1>6 DEF LateRequire, CanTurn
  <2>2. contexts = <<>> /\ contexts' = <<>>
    BY <2>1 DEF ExecutorInv, InContext
  <2>3. LoaderTypeOK'
    BY <1>0, <2>1 DEF LoaderInv, LoaderTypeOK
  <2>4. InContext' /\ ProvidersAreAuthors'
    BY <1>0, <2>1, <2>2 DEF LoaderInv, InContext, ProvidersAreAuthors, Registers
  <2>5. ExecutorTypeOK'
    BY <2>1, <2>3 DEF ExecutorInv, ExecutorTypeOK, executorVars
  <2>6. Process'
    BY <2>1, <2>2
       DEF ExecutorInv, Process, LoadsInPhase, FailuresAreReported, TaskInHand, executorVars
  <2> QED BY <2>4, <2>5, <2>6 DEF ExecutorInv
<1>7. CASE \/ Refuse \/ \E t \in Tasks : StartTask(t)
           \/ FailSandbox \/ FailDescriptor \/ FailModel \/ MissCode \/ FailInvocation \/ Invoke \/ Shutdown
           \/ Report \/ GoIdle
           \/ Block \/ Resolve \/ Reject \/ Die
  <2>1. UNCHANGED loaderVars
    BY <1>7 DEF Refuse, StartTask, FailSandbox, FailDescriptor, FailModel, MissCode, FailInvocation, Invoke,
                Shutdown, Report,
                GoIdle, Block, Resolve, Reject, Die
  <2> QED BY <1>7, <2>1, ExecutorStep
<1>8. CASE UNCHANGED allVars
  <2>1. LoaderInv'
    BY <1>0, <1>8, LoaderUnchanged DEF allVars
  <2>2. ExecutorTypeOK'
    BY <1>8, <2>1 DEF ExecutorInv, ExecutorTypeOK, LoaderInv, allVars, executorVars
  <2>3. Process'
    BY <1>8 DEF ExecutorInv, Process, LoadsInPhase, FailuresAreReported, TaskInHand,
                allVars, loaderVars, executorVars
  <2> QED BY <2>1, <2>2, <2>3 DEF ExecutorInv, LoaderInv
<1> QED BY <1>1, <1>2, <1>3, <1>4, <1>5, <1>6, <1>7, <1>8 DEF ExecutorNext, Execute

\* The loader and the executor keep their inductive invariant.
THEOREM ExecutorInvariant ==
  ExecutorSpec => []ExecutorInv
<1>1. ExecutorInit => ExecutorInv
  BY ExecutorInitially
<1>2. ExecutorInv /\ [ExecutorNext]_allVars => ExecutorInv'
  BY ExecutorInductive
<1> QED BY <1>1, <1>2, PTL DEF ExecutorSpec

\* Type correctness: the variables of the loader and of the executor keep their
\* types, for every program, also for programs whose files require each other.
THEOREM ExecutorTypesCorrect ==
  ExecutorSpec => []ExecutorTypeOK
<1>1. ExecutorInv => ExecutorTypeOK
  BY DEF ExecutorInv
<1> QED BY <1>1, ExecutorInvariant, PTL

\* Whatever files require each other, fail or are required by the code of a task:
\* the model names a file that registers the handler, service or type itself.
THEOREM ProvidersAlwaysAuthors ==
  ExecutorSpec => []ProvidersAreAuthors
<1>1. ExecutorInv => ProvidersAreAuthors
  BY DEF ExecutorInv
<1> QED BY <1>1, ExecutorInvariant, PTL

\* A process whose model has an error is never given another task.
THEOREM FailedModelNeverReused ==
  ExecutorSpec => []FailedModelIsNotReused
<1>1. ExecutorInv => FailedModelIsNotReused
  BY DEF ExecutorInv, Process, FailuresAreReported, FailedModelIsNotReused
<1> QED BY <1>1, ExecutorInvariant, PTL

\* The code of a task that was answered by its timeout never runs beside another.
THEOREM AbandonedCodeAlwaysAlone ==
  ExecutorSpec => []AbandonedCodeRunsAlone
<1>1. ExecutorInv => AbandonedCodeRunsAlone
  BY DEF ExecutorInv, Process, FailuresAreReported, AbandonedCodeRunsAlone
<1> QED BY <1>1, ExecutorInvariant, PTL

----------------------------------------------------------------------------
(* What has been read stays read                                           *)

\* Statement i of f has had its effect on model m: what it registers has a
\* provider, which is f when no second registration is accepted.
InEffect(m, f, i) ==
  script[f][i].do = "register" =>
    /\ m.provider[script[f][i].name] # NoFile
    /\ IsExclusive(script[f][i].name) => m.provider[script[f][i].name] = f

\* ... and so have the first k - 1
Performed(f, k) == \A i \in DOMAIN script[f] : i < k => InEffect(model, f, i)

\* A file runs at most once at a time, the bodies below the uppermost wait in a
\* require, and those that run are the files that are being loaded.
StackOrder ==
  /\ \A i, j \in 1 .. Len(stack) : stack[i].file = stack[j].file => i = j
  /\ \A i \in 1 .. Len(stack) : node[stack[i].file] = "loading"
  /\ \A f \in Files : node[f] = "loading" => \E i \in 1 .. Len(stack) : stack[i].file = f
  /\ \A i \in 1 .. Len(stack) - 1 : script[stack[i].file][stack[i].at].do = "require"

\* A loaded file has registered everything, one that is being loaded what it
\* came to; a file that the code of a task required has registered nothing.
RegistrationsStand ==
  /\ \A f \in Files : node[f] = "loaded" => Performed(f, Len(script[f]) + 1)
  /\ contexts # <<>> => \A i \in 1 .. Len(stack) : Performed(stack[i].file, stack[i].at)

ReadInv == StackOrder /\ RegistrationsStand

IsRead(f) == node[f] \in {"loaded", "late"}

\* What a step does to one body: nothing, or it is entered, or it passes a
\* statement that is in effect afterwards
BodyStep(i) ==
  \/ i \in 1 .. Len(stack) /\ stack'[i] = stack[i]
  \/ stack'[i].at = 1
  \/ /\ i \in 1 .. Len(stack) /\ stack'[i].file = stack[i].file
     /\ stack'[i].at = stack[i].at + 1
     /\ script[stack[i].file][stack[i].at].do = "register" =>
          contexts = <<>> \/ InEffect(model', stack[i].file, stack[i].at)

LEMMA AdvancedFrames ==
  ASSUME NEW s \in Seq(Frame), s # <<>>
  PROVE  /\ Len(s) \in 1 .. Len(s)
         /\ \A i \in 1 .. Len(s) - 1 : Advanced(s)[i] = s[i]
         /\ Advanced(s)[Len(s)].at = s[Len(s)].at + 1
         /\ Advanced(s)[Len(s)].file = s[Len(s)].file
<1>1. Len(s) \in 1 .. Len(s) /\ s[Len(s)] \in Frame
  OBVIOUS
<1>2. Advanced(s) = [s EXCEPT ![Len(s)] = [s[Len(s)] EXCEPT !.at = @ + 1]]
  BY DEF Advanced
<1> QED BY <1>1, <1>2 DEF Frame

LEMMA AdvancedFrame ==
  ASSUME NEW s \in Seq(Frame), s # <<>>, NEW i \in 1 .. Len(Advanced(s))
  PROVE  /\ i \in 1 .. Len(s)
         /\ i # Len(s) => Advanced(s)[i] = s[i]
         /\ i = Len(s) => /\ Advanced(s)[i].file = s[i].file
                          /\ Advanced(s)[i].at = s[i].at + 1
<1>1. Len(Advanced(s)) = Len(s) /\ Len(s) \in Nat
  BY AdvancedStack
<1>2. /\ \A j \in 1 .. Len(s) - 1 : Advanced(s)[j] = s[j]
      /\ Advanced(s)[Len(s)].at = s[Len(s)].at + 1
      /\ Advanced(s)[Len(s)].file = s[Len(s)].file
  BY AdvancedFrames
<1> QED BY <1>1, <1>2

\* The uppermost body passes a statement
LEMMA AdvanceOrder ==
  ASSUME LoaderInv, StackOrder, stack # <<>>, stack' = Advanced(stack),
         UNCHANGED <<script, node>>
  PROVE  StackOrder'
<1>1. stack \in Seq(Frame)
  BY DEF LoaderInv, LoaderTypeOK, Frame
<1>2. /\ Len(stack') = Len(stack) /\ Len(stack) \in Nat
      /\ \A i \in 1 .. Len(stack) : stack'[i].file = stack[i].file
      /\ \A i \in 1 .. Len(stack) - 1 : stack'[i] = stack[i]
  BY <1>1, AdvancedStack, AdvancedFrames
<1> QED BY <1>2 DEF StackOrder

\* A body is entered, by the loop of load or by a require
LEMMA PushOrder ==
  ASSUME LoaderInv, StackOrder, NEW f \in Files, node[f] = "absent",
         stack # <<>> => ~AtEnd /\ Statement.do = "require",
         stack' = Append(stack, [file |-> f, at |-> 1]),
         node' = [node EXCEPT ![f] = "loading"], script' = script
  PROVE  StackOrder'
<1>1. stack \in Seq(Frame) /\ node \in [Files -> {"absent", "loading", "loaded", "late"}]
  BY DEF LoaderInv, LoaderTypeOK, Frame
<1> DEFINE frame == [file |-> f, at |-> 1]
<1>2. frame \in Frame /\ frame.file = f
  BY DEF Frame
<1>3. stack' = Append(stack, frame)
  OBVIOUS
<1> HIDE DEF frame
<1>4. /\ Len(stack') = Len(stack) + 1 /\ Len(stack) \in Nat
      /\ \A i \in 1 .. Len(stack) : stack'[i] = stack[i]
      /\ stack'[Len(stack) + 1].file = f
  BY <1>1, <1>2, <1>3
<1>5. ASSUME NEW i \in 1 .. Len(stack)
      PROVE  stack[i].file # f /\ stack[i].file \in Files
  <2>1. stack[i] \in Frame /\ node[stack[i].file] = "loading"
    BY <1>1 DEF StackOrder
  <2> QED BY <2>1 DEF Frame
<1>6. \A i, j \in 1 .. Len(stack') : stack'[i].file = stack'[j].file => i = j
  BY <1>4, <1>5 DEF StackOrder
<1>7. \A i \in 1 .. Len(stack') : node'[stack'[i].file] = "loading"
  BY <1>1, <1>4, <1>5 DEF StackOrder
<1>8. ASSUME NEW g \in Files, node'[g] = "loading"
      PROVE  \E i \in 1 .. Len(stack') : stack'[i].file = g
  <2>1. CASE g = f
    BY <1>4, <2>1
  <2>2. CASE g # f
    <3>1. PICK i \in 1 .. Len(stack) : stack[i].file = g
      BY <1>1, <1>8, <2>2 DEF StackOrder
    <3> QED BY <1>4, <3>1
  <2> QED BY <2>1, <2>2
<1>9. ASSUME NEW i \in 1 .. Len(stack') - 1
      PROVE  script'[stack'[i].file][stack'[i].at].do = "require"
  <2>1. i \in 1 .. Len(stack) /\ stack'[i] = stack[i]
    BY <1>4
  <2>2. CASE i \in 1 .. Len(stack) - 1
    BY <2>1, <2>2 DEF StackOrder
  <2>3. CASE i = Len(stack)
    BY <1>1, <2>1, <2>3 DEF Statement, Running, Last
  <2> QED BY <1>4, <2>1, <2>2, <2>3
<1> QED BY <1>6, <1>7, <1>8, <1>9 DEF StackOrder

\* The uppermost body ends and leaves the file that required it at its require or
\* after it
LEMMA PopOrder ==
  ASSUME LoaderInv, StackOrder, stack # <<>>,
         stack' = Front(stack) \/ stack' = Advanced(Front(stack)),
         NEW x \in {"absent", "loaded", "late"},
         node' = [node EXCEPT ![Running] = x], script' = script
  PROVE  /\ StackOrder'
         /\ \A i \in 1 .. Len(stack') : BodyStep(i)
<1>1. /\ stack \in Seq(Frame) /\ node \in [Files -> {"absent", "loading", "loaded", "late"}]
      /\ Running \in Files
  BY StatementOfRunning DEF LoaderInv, LoaderTypeOK, Frame
<1>2. /\ Front(stack) \in Seq(Frame) /\ Len(Front(stack)) = Len(stack) - 1
      /\ Len(stack) \in Nat \ {0}
      /\ \A i \in 1 .. Len(stack) - 1 : Front(stack)[i] = stack[i]
  BY <1>1, FrontOfSeq
<1>3. /\ Len(stack') = Len(stack) - 1
      /\ \A i \in 1 .. Len(stack) - 1 : stack'[i].file = stack[i].file
      /\ \A i \in 1 .. Len(stack) - 2 : stack'[i] = stack[i]
      /\ \A i \in 1 .. Len(stack) - 1 :
           stack'[i] = stack[i] \/ stack'[i].at = stack[i].at + 1
  <2>1. CASE stack' = Front(stack)
    BY <1>2, <2>1
  <2>2. CASE stack' = Advanced(Front(stack)) /\ Front(stack) # <<>>
    <3>1. /\ Len(stack') = Len(stack) - 1
          /\ \A i \in 1 .. Len(Front(stack)) : stack'[i].file = Front(stack)[i].file
          /\ \A i \in 1 .. Len(Front(stack)) - 1 : stack'[i] = Front(stack)[i]
          /\ stack'[Len(Front(stack))].at = Front(stack)[Len(Front(stack))].at + 1
      BY <1>2, <2>2, AdvancedStack, AdvancedFrames
    <3> QED BY <1>2, <3>1
  <2>3. CASE stack' = Advanced(Front(stack)) /\ Front(stack) = <<>>
    <3>1. stack' = Front(stack)
      BY <2>3 DEF Advanced
    <3> QED BY <1>2, <3>1
  <2> QED BY <2>1, <2>2, <2>3
<1>4. ASSUME NEW i \in 1 .. Len(stack) - 1
      PROVE  stack[i].file # Running /\ stack[i].file \in Files
  <2>1. Running = stack[Len(stack)].file
        /\ Len(stack) \in 1 .. Len(stack) /\ i \in 1 .. Len(stack) /\ i # Len(stack)
    BY <1>2 DEF Running, Last
  <2>2. stack[i].file # stack[Len(stack)].file
    BY <2>1 DEF StackOrder
  <2>3. stack[i] \in Frame
    BY <1>1, <2>1
  <2> QED BY <2>1, <2>2, <2>3 DEF Frame
<1>5. ASSUME NEW i \in 1 .. Len(stack')
      PROVE  node'[stack'[i].file] = "loading"
  <2>1. i \in 1 .. Len(stack) - 1 /\ i \in 1 .. Len(stack)
    BY <1>2, <1>3
  <2>2. stack'[i].file = stack[i].file /\ node[stack[i].file] = "loading"
    BY <1>3, <2>1 DEF StackOrder
  <2> QED BY <1>1, <1>4, <2>1, <2>2
<1>6. ASSUME NEW g \in Files, node'[g] = "loading"
      PROVE  \E i \in 1 .. Len(stack') : stack'[i].file = g
  <2>1. g # Running /\ node[g] = "loading"
    BY <1>1, <1>6
  <2>2. PICK i \in 1 .. Len(stack) : stack[i].file = g
    BY <2>1 DEF StackOrder
  <2>3. i # Len(stack)
    BY <2>1, <2>2 DEF Running, Last
  <2> QED BY <1>2, <1>3, <2>2, <2>3
<1>7. \A i \in 1 .. Len(stack') - 1 : script'[stack'[i].file][stack'[i].at].do = "require"
  BY <1>2, <1>3 DEF StackOrder
<1>8. StackOrder'
  <2>1. ASSUME NEW i \in 1 .. Len(stack'), NEW j \in 1 .. Len(stack'),
               stack'[i].file = stack'[j].file
        PROVE  i = j
    <3>1. i \in 1 .. Len(stack) - 1 /\ j \in 1 .. Len(stack) - 1
          /\ i \in 1 .. Len(stack) /\ j \in 1 .. Len(stack)
      BY <1>2, <1>3
    <3>2. stack[i].file = stack[j].file
      BY <1>3, <2>1, <3>1
    <3> QED BY <3>1, <3>2 DEF StackOrder
  <2> QED BY <1>5, <1>6, <1>7, <2>1 DEF StackOrder
<1>9. ASSUME NEW i \in 1 .. Len(stack')
      PROVE  BodyStep(i)
  <2>1. i \in 1 .. Len(stack) - 1 /\ i \in 1 .. Len(stack)
    BY <1>2, <1>3
  <2>2. script[stack[i].file][stack[i].at].do = "require"
    BY <2>1 DEF StackOrder
  <2> QED BY <1>3, <2>1, <2>2 DEF BodyStep
<1> QED BY <1>8, <1>9

\* A provider stays, and that of an exclusive name stays the same
LEMMA ProvidersStay ==
  ASSUME LoaderInv, LoaderNext, NEW n \in Names, model.provider[n] # NoFile
  PROVE  /\ model'.provider[n] # NoFile
         /\ IsExclusive(n) => model'.provider[n] = model.provider[n]
<1>1. model \in ModelType
  BY DEF LoaderInv, LoaderTypeOK, ModelType
<1>2. CASE Register /\ ~IsRefused(model, Statement) /\ ~IsIgnored(model, Statement)
  <2>1. /\ stack # <<>> /\ ~IsLate /\ ~AtEnd /\ Statement.do = "register"
        /\ model' = Registered(model, Statement)
    BY <1>2 DEF Register, Runs
  <2>2. /\ Running \in Files /\ script[Running] \in Seq(Statements)
        /\ Last(stack).at \in 1 .. Len(script[Running]) /\ Statement \in Statements
        /\ Last(contexts) \in Files /\ NoFile \notin Files
    <3>1. contexts # <<>> /\ contexts \in Seq(Files)
      BY <2>1 DEF IsLate, LoaderInv, LoaderTypeOK
    <3> QED BY <2>1, <3>1, StatementOfRunning, FrontOfSeq, ScriptAssumption DEF LoaderInv
  <2>3. Statement.name \in Names
    BY <2>1, <2>2, StatementFields
  <2>4. model' = [model EXCEPT !.provider = [model.provider EXCEPT ![Statement.name] = Last(contexts)]]
    BY <1>2, <2>1 DEF Registered
  <2>5. model'.provider = [model.provider EXCEPT ![Statement.name] = Last(contexts)]
    BY <1>1, <2>4 DEF ModelType
  <2>6. CASE n # Statement.name
    BY <1>1, <2>5, <2>6 DEF ModelType
  <2>7. CASE n = Statement.name
    <3>1. model'.provider[n] = Last(contexts)
      BY <1>1, <2>3, <2>5, <2>7 DEF ModelType
    <3>2. ~IsExclusive(n)
      <4>1. Statement.dup # "reject"
        BY <1>2, <2>7 DEF IsRefused, IsDuplicate
      <4> QED BY <2>1, <2>2, <2>7, <4>1 DEF IsExclusive, Statement
    <3> QED BY <2>2, <3>1, <3>2
  <2> QED BY <2>6, <2>7
<1>3. CASE Register /\ (IsRefused(model, Statement) \/ IsIgnored(model, Statement))
  <2>1. model' = model
    BY <1>3 DEF Register, Registered
  <2> QED BY <2>1
<1>4. CASE LoadNext \/ RegisterLate \/ Require \/ Throw \/ Return
  <2>1. model' = model
    BY <1>4 DEF LoadNext, RegisterLate, Require, Throw, Return
  <2> QED BY <2>1
<1>5. CASE Unwind
  <2>1. model' = model \/ model' = [model EXCEPT !.errors = @ \cup {Running}]
    BY <1>5 DEF Unwind
  <2>2. model'.provider = model.provider
    BY <1>1, <2>1 DEF ModelType
  <2> QED BY <2>2
<1> QED BY <1>2, <1>3, <1>4, <1>5 DEF LoaderNext

\* What is in effect stays so
LEMMA EffectStays ==
  ASSUME LoaderInv, LoaderNext, NEW f \in Files, NEW i \in DOMAIN script[f],
         InEffect(model, f, i)
  PROVE  InEffect(model', f, i)
<1>1. script[f] \in Seq(Statements)
  BY ScriptAssumption DEF LoaderInv, LoaderTypeOK
<1>2. script[f][i] \in Statements
  BY <1>1
<1>4. CASE script[f][i].do = "register"
  <2>1. script[f][i].name \in Names
    BY <1>2, <1>4, StatementFields
  <2>2. model.provider[script[f][i].name] # NoFile
        /\ (IsExclusive(script[f][i].name) => model.provider[script[f][i].name] = f)
    BY <1>4 DEF InEffect
  <2>3. model'.provider[script[f][i].name] # NoFile
        /\ (IsExclusive(script[f][i].name) =>
              model'.provider[script[f][i].name] = model.provider[script[f][i].name])
    BY <2>1, <2>2, ProvidersStay
  <2> QED BY <2>2, <2>3 DEF InEffect
<1>5. CASE script[f][i].do # "register"
  BY <1>5 DEF InEffect
<1> QED BY <1>4, <1>5

\* A registration that is not refused is in effect
LEMMA RegisterTakesEffect ==
  ASSUME LoaderInv, Register, ~IsRefused(model, Statement)
  PROVE  InEffect(model', Running, Last(stack).at)
<1>1. /\ stack # <<>> /\ ~IsLate /\ ~AtEnd /\ Statement.do = "register"
      /\ model' = Registered(model, Statement) /\ script' = script
  BY DEF Register, Runs
<1>2. /\ Running \in Files /\ script[Running] \in Seq(Statements)
      /\ Last(stack).at \in 1 .. Len(script[Running]) /\ Statement \in Statements
  BY <1>1, StatementOfRunning DEF LoaderInv
<1>3. Statement.name \in Names
  BY <1>1, <1>2, StatementFields
<1>4. Last(contexts) = Running
  <2>1. contexts # <<>> /\ Len(contexts) = Len(stack)
    BY <1>1 DEF IsLate, LoaderInv, InContext
  <2>2. Len(stack) \in 1 .. Len(stack)
    BY <1>1 DEF LoaderInv, LoaderTypeOK
  <2> QED BY <2>1, <2>2 DEF Last, Running, LoaderInv, InContext
<1>5. model \in ModelType /\ NoFile \notin Files
  BY ScriptAssumption DEF LoaderInv, LoaderTypeOK, ModelType
<1>6. CASE IsIgnored(model, Statement)
  <2>1. model' = model /\ model.provider[Statement.name] # NoFile
    BY <1>1, <1>6 DEF Registered, IsIgnored, IsDuplicate
  <2>2. ~IsExclusive(Statement.name)
    <3>1. Statement.dup # "reject"
      BY <2>1 DEF IsRefused, IsDuplicate
    <3> QED BY <1>1, <1>2, <3>1 DEF IsExclusive, Statement
  <2>3. script[Running][Last(stack).at] = Statement
    BY DEF Statement
  <2> QED BY <2>1, <2>2, <2>3 DEF InEffect
<1>7. CASE ~IsIgnored(model, Statement)
  <2>1. model' = [model EXCEPT !.provider = [model.provider EXCEPT ![Statement.name] = Running]]
    BY <1>1, <1>4, <1>7 DEF Registered
  <2>2. model'.provider[Statement.name] = Running
    BY <1>3, <1>5, <2>1 DEF ModelType
  <2>3. script[Running][Last(stack).at] = Statement
    BY DEF Statement
  <2> QED BY <1>2, <1>5, <2>2, <2>3 DEF InEffect
<1> QED BY <1>6, <1>7

\* A step of the loader: the order of the bodies is kept, each of them does a step
\* of its own, and a file counts as read from the end of its body.
LEMMA BodiesStep ==
  ASSUME LoaderInv, StackOrder, LoaderNext
  PROVE  /\ StackOrder'
         /\ script' = script
         /\ \A i \in 1 .. Len(stack') : BodyStep(i)
         /\ \A f \in Files : IsRead(f) => node'[f] = node[f]
         /\ \A f \in Files : node'[f] = "loaded" =>
              \/ node[f] = "loaded"
              \/ /\ contexts # <<>> /\ stack # <<>>
                 /\ f = Running /\ Last(stack).at > Len(script[f])
<1>0. /\ stack \in Seq(Frame) /\ node \in [Files -> {"absent", "loading", "loaded", "late"}]
      /\ todo \in Seq(Files)
  BY DEF LoaderInv, LoaderTypeOK, Frame
<1>1. ASSUME NEW f \in Files, Enter(f, stack), script' = script,
             stack # <<>> => ~AtEnd /\ Statement.do = "require"
      PROVE  /\ StackOrder'
             /\ \A i \in 1 .. Len(stack') : BodyStep(i)
             /\ \A g \in Files : IsRead(g) => node'[g] = node[g]
             /\ \A g \in Files : node'[g] = "loaded" => node[g] = "loaded"
  <2>1. CASE node[f] = "absent"
    <3>1. node' = [node EXCEPT ![f] = "loading"]
          /\ stack' = Append(stack, [file |-> f, at |-> 1])
      BY <1>1, <2>1 DEF Enter
    <3>2. StackOrder'
      BY <1>1, <2>1, <3>1, PushOrder
    <3>3. ASSUME NEW i \in 1 .. Len(stack')
          PROVE  BodyStep(i)
      BY <1>0, <3>1 DEF BodyStep
    <3> QED BY <1>0, <2>1, <3>1, <3>2, <3>3 DEF IsRead
  <2>2. CASE node[f] # "absent" /\ stack # <<>>
    <3>1. node' = node /\ stack' = Advanced(stack)
      BY <1>1, <2>2 DEF Enter
    <3>2. StackOrder'
      BY <1>1, <2>2, <3>1, AdvanceOrder
    <3>3. ASSUME NEW i \in 1 .. Len(stack')
          PROVE  BodyStep(i)
      <4>1. /\ i \in 1 .. Len(stack)
            /\ i # Len(stack) => stack'[i] = stack[i]
            /\ i = Len(stack) => stack'[i].file = stack[i].file
                                 /\ stack'[i].at = stack[i].at + 1
        BY <1>0, <2>2, <3>1, AdvancedFrame
      <4>2. i = Len(stack) => script[stack[i].file][stack[i].at].do = "require"
        BY <1>1, <2>2 DEF Statement, Running, Last
      <4> QED BY <4>1, <4>2 DEF BodyStep
    <3> QED BY <3>1, <3>2, <3>3
  <2>3. CASE node[f] # "absent" /\ stack = <<>>
    <3>1. node' = node /\ stack' = stack
      BY <1>1, <2>3 DEF Enter, Advanced
    <3>2. StackOrder'
      BY <1>1, <3>1 DEF StackOrder
    <3> QED BY <3>1, <3>2 DEF BodyStep
  <2> QED BY <2>1, <2>2, <2>3
<1>2. ASSUME UNCHANGED <<stack, node, script>>
      PROVE  /\ StackOrder' /\ script' = script
             /\ \A i \in 1 .. Len(stack') : BodyStep(i)
             /\ \A f \in Files : IsRead(f) => node'[f] = node[f]
             /\ \A f \in Files : node'[f] = "loaded" => node[f] = "loaded"
  BY <1>2 DEF StackOrder, BodyStep
<1>3. ASSUME stack # <<>>, stack' = Advanced(stack), UNCHANGED <<node, script>>,
             script[Running][Last(stack).at].do = "register" =>
               contexts = <<>> \/ InEffect(model', Running, Last(stack).at)
      PROVE  /\ StackOrder' /\ script' = script
             /\ \A i \in 1 .. Len(stack') : BodyStep(i)
             /\ \A f \in Files : IsRead(f) => node'[f] = node[f]
             /\ \A f \in Files : node'[f] = "loaded" => node[f] = "loaded"
  <2>1. StackOrder'
    BY <1>3, AdvanceOrder
  <2>2. ASSUME NEW i \in 1 .. Len(stack')
        PROVE  BodyStep(i)
    <3>1. /\ i \in 1 .. Len(stack)
          /\ i # Len(stack) => stack'[i] = stack[i]
          /\ i = Len(stack) => stack'[i].file = stack[i].file
                               /\ stack'[i].at = stack[i].at + 1
      BY <1>0, <1>3, AdvancedFrame
    <3>2. i = Len(stack) =>
            (script[stack[i].file][stack[i].at].do = "register" =>
               contexts = <<>> \/ InEffect(model', stack[i].file, stack[i].at))
      BY <1>3 DEF Running, Last
    <3> QED BY <3>1, <3>2 DEF BodyStep
  <2> QED BY <1>3, <2>1, <2>2
<1>4. CASE LoadNext
  <2>1. stack = <<>> /\ todo # <<>> /\ Enter(Head(todo), stack) /\ script' = script
    BY <1>4 DEF LoadNext
  <2>2. Head(todo) \in Files
    BY <1>0, <2>1
  <2> QED BY <1>1, <2>1, <2>2
<1>5. CASE Require
  <2>1. stack # <<>> /\ ~AtEnd /\ Statement.do = "require" /\ Enter(Statement.file, stack)
        /\ script' = script
    BY <1>5 DEF Require, Runs
  <2>2. Statement.file \in Files
    BY <2>1, StatementOfRunning, StatementFields DEF LoaderInv
  <2> QED BY <1>1, <2>1, <2>2
<1>6. CASE Register
  <2>1. CASE IsRefused(model, Statement)
    BY <1>2, <1>6, <2>1 DEF Register
  <2>2. CASE ~IsRefused(model, Statement)
    <3>1. InEffect(model', Running, Last(stack).at)
      BY <1>6, <2>2, RegisterTakesEffect
    <3>2. stack # <<>> /\ stack' = Advanced(stack) /\ UNCHANGED <<node, script>>
      BY <1>6, <2>2 DEF Register, Runs
    <3> QED BY <1>3, <3>1, <3>2
  <2> QED BY <2>1, <2>2
<1>7. CASE RegisterLate
  <2>1. stack # <<>> /\ contexts = <<>> /\ UNCHANGED <<node, script>>
        /\ (stack' = stack \/ stack' = Advanced(stack))
    BY <1>7 DEF RegisterLate, Runs, IsLate
  <2>2. CASE stack' = stack
    BY <1>2, <2>1, <2>2
  <2>3. CASE stack' = Advanced(stack)
    BY <1>3, <2>1, <2>3
  <2> QED BY <2>1, <2>2, <2>3
<1>8. CASE Throw
  BY <1>2, <1>8 DEF Throw
<1>9. ASSUME NEW x \in {"absent", "loaded", "late"}, stack # <<>>, script' = script,
             stack' = Front(stack) \/ stack' = Advanced(Front(stack)),
             node' = [node EXCEPT ![Running] = x],
             x = "loaded" => contexts # <<>> /\ AtEnd
      PROVE  /\ StackOrder' /\ script' = script
             /\ \A i \in 1 .. Len(stack') : BodyStep(i)
             /\ \A f \in Files : IsRead(f) => node'[f] = node[f]
             /\ \A f \in Files : node'[f] = "loaded" =>
                  \/ node[f] = "loaded"
                  \/ /\ contexts # <<>> /\ stack # <<>>
                     /\ f = Running /\ Last(stack).at > Len(script[f])
  <2>1. StackOrder' /\ \A i \in 1 .. Len(stack') : BodyStep(i)
    BY <1>9, PopOrder
  <2>2. Running \in Files /\ node[Running] = "loading"
    <3>1. Len(stack) \in 1 .. Len(stack) /\ stack[Len(stack)] \in Frame
      BY <1>0, <1>9
    <3> QED BY <3>1 DEF StackOrder, Running, Last, Frame
  <2>3. ASSUME NEW f \in Files, IsRead(f)
        PROVE  node'[f] = node[f]
    BY <1>0, <1>9, <2>2, <2>3 DEF IsRead
  <2>4. ASSUME NEW f \in Files, node'[f] = "loaded", node[f] # "loaded"
        PROVE  contexts # <<>> /\ stack # <<>> /\ f = Running /\ Last(stack).at > Len(script[f])
    <3>1. f = Running /\ x = "loaded"
      BY <1>0, <1>9, <2>4
    <3> QED BY <1>9, <3>1 DEF AtEnd
  <2> QED BY <1>9, <2>1, <2>3, <2>4
<1>10. CASE Return
  <2>1. stack # <<>> /\ AtEnd /\ script' = script /\ stack' = Advanced(Front(stack))
        /\ node' = [node EXCEPT ![Running] = IF IsLate THEN "late" ELSE "loaded"]
    BY <1>10 DEF Return
  <2>2. CASE IsLate
    BY <1>9, <2>1, <2>2
  <2>3. CASE ~IsLate
    <3>1. contexts # <<>>
      BY <2>1, <2>3 DEF IsLate
    <3> QED BY <1>9, <2>1, <2>3, <3>1
  <2> QED BY <2>2, <2>3
<1>11. CASE Unwind
  <2>1. stack # <<>> /\ script' = script /\ node' = [node EXCEPT ![Running] = "absent"]
        /\ (stack' = Front(stack) \/ stack' = Advanced(Front(stack)))
    BY <1>11 DEF Unwind
  <2> QED BY <1>9, <2>1
<1> QED BY <1>4, <1>5, <1>6, <1>7, <1>8, <1>10, <1>11 DEF LoaderNext

LEMMA PerformedStays ==
  ASSUME LoaderInv, LoaderNext, script' = script,
         NEW f \in Files, NEW k, Performed(f, k)
  PROVE  Performed(f, k)'
<1>1. \A n : IsExclusive(n)' <=> IsExclusive(n)
  BY DEF IsExclusive
<1>2. ASSUME NEW i \in DOMAIN script[f], i < k
      PROVE  InEffect(model, f, i)'
  <2>1. InEffect(model', f, i)
    BY <1>2, EffectStays DEF Performed
  <2> QED BY <1>1, <2>1 DEF InEffect
<1> QED BY <1>2 DEF Performed

\* A step of the loader keeps what is known of the files it has read
LEMMA ReadStep ==
  ASSUME LoaderInv, ReadInv, LoaderNext
  PROVE  ReadInv'
<1>1. /\ LoaderInv'
      /\ contexts' # <<>> => contexts # <<>> \/ stack = <<>>
  BY LoaderStep
<1>2. /\ StackOrder'
      /\ script' = script
      /\ \A i \in 1 .. Len(stack') : BodyStep(i)
      /\ \A f \in Files : node'[f] = "loaded" =>
           \/ node[f] = "loaded"
           \/ /\ contexts # <<>> /\ stack # <<>>
              /\ f = Running /\ Last(stack).at > Len(script[f])
  BY BodiesStep DEF ReadInv
<1>3. stack \in Seq(Frame) /\ stack' \in Seq(Frame) /\ \A f \in Files : script[f] \in Seq(Statements)
  BY <1>1, ScriptAssumption DEF LoaderInv, LoaderTypeOK, Frame
<1>4. ASSUME NEW f \in Files, node'[f] = "loaded"
      PROVE  Performed(f, Len(script[f]) + 1)'
  <2>1. Performed(f, Len(script[f]) + 1)
    <3>1. CASE node[f] = "loaded"
      BY <3>1 DEF ReadInv, RegistrationsStand
    <3>2. CASE node[f] # "loaded"
      <4>1. contexts # <<>> /\ stack # <<>> /\ f = Running /\ Last(stack).at > Len(script[f])
        BY <1>2, <1>4, <3>2
      <4>2. Len(stack) \in 1 .. Len(stack) /\ stack[Len(stack)] \in Frame
        BY <1>3, <4>1
      <4>3. Performed(f, Last(stack).at) /\ Last(stack).at \in Nat
        BY <4>1, <4>2 DEF ReadInv, RegistrationsStand, Running, Last, Frame
      <4>4. \A i \in DOMAIN script[f] : i < Last(stack).at
        BY <1>3, <4>1, <4>3
      <4> QED BY <4>3, <4>4 DEF Performed
    <3> QED BY <3>1, <3>2
  <2>2. \A k : k = Len(script[f]) + 1 => Performed(f, k)'
    BY <1>2, <2>1, PerformedStays
  <2> QED BY <1>2, <2>2
<1>5. ASSUME contexts' # <<>>, NEW i \in 1 .. Len(stack')
      PROVE  Performed(stack[i].file, stack[i].at)'
  <2>1. PICK f \in Files, k \in Nat : f = stack'[i].file /\ k = stack'[i].at
    <3>1. stack'[i] \in Frame
      BY <1>3
    <3> QED BY <3>1 DEF Frame
  <2>2. CASE k = 1
    <3>1. \A j \in DOMAIN script[f] : ~(j < k)
      BY <1>3, <2>2
    <3>2. Performed(f, k)'
      BY <1>2, <3>1 DEF Performed
    <3> QED BY <2>1, <3>2
  <2>3. CASE k # 1
    <3>1. i \in 1 .. Len(stack)
      BY <1>2, <2>1, <2>3 DEF BodyStep
    <3>2. contexts # <<>>
      BY <1>1, <1>3, <1>5, <3>1
    <3>3. stack[i] \in Frame /\ Performed(stack[i].file, stack[i].at)
      BY <1>3, <3>1, <3>2 DEF ReadInv, RegistrationsStand
    <3>4. CASE stack'[i] = stack[i]
      <4>1. Performed(f, k)
        BY <2>1, <3>3, <3>4
      <4>2. Performed(f, k)'
        BY <1>2, <4>1, PerformedStays
      <4> QED BY <2>1, <4>2
    <3>5. CASE stack'[i] # stack[i]
      <4>1. /\ f = stack[i].file /\ k = stack[i].at + 1
            /\ script[f][stack[i].at].do = "register" => InEffect(model', f, stack[i].at)
        BY <1>2, <2>1, <2>3, <3>2, <3>5 DEF BodyStep
      <4>2. InEffect(model', f, stack[i].at)
        BY <4>1 DEF InEffect
      <4>3. stack[i].at \in Nat
        BY <3>3 DEF Frame
      <4>4. ASSUME NEW j \in DOMAIN script[f], j < k
            PROVE  InEffect(model', f, j)
        <5>1. j = stack[i].at \/ j < stack[i].at
          BY <1>3, <4>1, <4>3, <4>4
        <5>2. CASE j < stack[i].at
          <6>1. InEffect(model, f, j)
            BY <3>3, <4>1, <5>2 DEF Performed
          <6> QED BY <6>1, EffectStays
        <5> QED BY <4>2, <5>1, <5>2
      <4>5. \A n : IsExclusive(n)' <=> IsExclusive(n)
        BY <1>2 DEF IsExclusive
      <4>6. ASSUME NEW j \in DOMAIN script[f], j < k
            PROVE  InEffect(model, f, j)'
        <5>1. InEffect(model', f, j)
          BY <4>4, <4>6
        <5> QED BY <1>2, <4>5, <5>1 DEF InEffect
      <4>7. Performed(f, k)'
        BY <1>2, <4>6 DEF Performed
      <4> QED BY <2>1, <4>7
    <3> QED BY <3>4, <3>5
  <2> QED BY <2>2, <2>3
<1>6. RegistrationsStand'
  BY <1>4, <1>5 DEF RegistrationsStand
<1> QED BY <1>2, <1>6 DEF ReadInv

LEMMA ReadUnchanged ==
  ASSUME ReadInv, UNCHANGED <<script, node, stack, contexts, model>>
  PROVE  ReadInv'
<1>1. StackOrder'
  BY DEF ReadInv, StackOrder
<1>2. \A n : IsExclusive(n)' <=> IsExclusive(n)
  BY DEF IsExclusive
<1>3. \A f, i : InEffect(model, f, i)' <=> InEffect(model, f, i)
  BY <1>2 DEF InEffect
<1>4. \A f, k : Performed(f, k)' <=> Performed(f, k)
  BY <1>3 DEF Performed
<1>5. RegistrationsStand'
  BY <1>4 DEF ReadInv, RegistrationsStand
<1> QED BY <1>1, <1>5 DEF ReadInv

\* The file the deployment found the code of the task in hand in
File == deployed.provider[Target[task]]

\* What the process was given: a deployment that names the authors, and, while
\* files are read, a task that has one of them
Deployment ==
  /\ phase \notin {"publishing", "refused"} =>
       \A n \in Names : deployed.provider[n] # NoFile => Registers(deployed.provider[n], n)
  /\ phase \in {"publishing", "loading"} /\ stack # <<>> => contexts # <<>>
  /\ phase \in {"loading", "running"} => task \in Tasks
  /\ phase = "loading" => Target[task] \in Names
  /\ answer = "missing" =>
       phase \notin {"publishing", "refused"} /\ task \in Tasks /\ Target[task] \in Names

\* The file of the task in hand is read before its code is looked up, and if the
\* code is not found the file had been read too late.
FileIsRead ==
  /\ phase = "loading" /\ model.errors = {} =>
       \/ \E i \in 1 .. Len(todo) : todo[i] = File
       \/ stack # <<>> /\ stack[1].file = File
       \/ IsRead(File)
  /\ phase = "running" /\ Target[task] \in Names => IsRead(File)
  /\ answer = "missing" => node[File] = "late"

DeploymentInv == ExecutorInv /\ ReadInv /\ Deployment /\ FileIsRead

LEMMA FileOfTask ==
  ASSUME ExecutorInv, task \in Tasks, Target[task] \in Names
  PROVE  File \in Files
BY DEF ExecutorInv, ExecutorTypeOK, Process, TaskInHand, File

\* A file that was read in time has registered what the deployment found in it
LEMMA ReadFileProvides ==
  ASSUME ExecutorInv, ReadInv, Deployment, task \in Tasks, Target[task] \in Names,
         phase \notin {"publishing", "refused"}, node[File] = "loaded"
  PROVE  /\ model.provider[Target[task]] # NoFile
         /\ IsExclusive(Target[task]) => model.provider[Target[task]] = File
<1>1. File \in Files /\ File # NoFile /\ script[File] \in Seq(Statements)
  BY FileOfTask, ScriptAssumption DEF ExecutorInv, ExecutorTypeOK, LoaderTypeOK
<1>2. Registers(File, Target[task])
  BY <1>1 DEF Deployment, File
<1>3. PICK i \in DOMAIN script[File] :
        script[File][i].do = "register" /\ script[File][i].name = Target[task]
  BY <1>2 DEF Registers
<1>4. InEffect(model, File, i)
  <2>1. Performed(File, Len(script[File]) + 1)
    BY <1>1 DEF ReadInv, RegistrationsStand
  <2>2. i < Len(script[File]) + 1
    BY <1>1
  <2> QED BY <2>1, <2>2 DEF Performed
<1> QED BY <1>3, <1>4 DEF InEffect

LEMMA LastOfConcat ==
  ASSUME NEW S, NEW s \in Seq(S), NEW r \in Seq(S), Len(r) = 1
  PROVE  Len(s \o r) = Len(s) + 1 /\ (s \o r)[Len(s) + 1] = r[1]
<1>1. Len(s) \in Nat
  OBVIOUS
<1>2. Len(s \o r) = Len(s) + Len(r)
  BY ConcatProperties
<1>3. (s \o r)[Len(s) + 1] = IF Len(s) + 1 <= Len(s) THEN s[Len(s) + 1] ELSE r[Len(s) + 1 - Len(s)]
  BY <1>1, ConcatProperties
<1> QED BY <1>1, <1>2, <1>3

\* The last of the files that getModelForFile reads is that of the task
LEMMA FileIsTodo ==
  ASSUME ExecutorTypeOK, NEW t \in Tasks, Target[t] \in Names,
         deployed.provider[Target[t]] # NoFile, NEW files \in FilesFor(t)
  PROVE  \E i \in 1 .. Len(files) : files[i] = deployed.provider[Target[t]]
<1> DEFINE T == TypesFiles(deployed)
           file == <<deployed.provider[Target[t]]>>
<1>1. deployed.provider \in [Names -> Files \cup {NoFile}]
  BY DEF ExecutorTypeOK
<1>2. file \in Seq(Files) /\ Len(file) = 1 /\ file[1] = deployed.provider[Target[t]]
  BY <1>1
<1>3. T \in SUBSET Files
  BY <1>1 DEF TypesFiles
<1>4. Cardinality(T) \in Nat
  BY <1>3, ScriptAssumption, FS_Subset, FS_CardinalityType
<1>5. \A s \in [1 .. Cardinality(T) -> T] : s \in Seq(Files)
  BY <1>3, <1>4
<1> HIDE DEF T, file
<1>6. \/ files = file
      \/ \E s \in [1 .. Cardinality(T) -> T] : files = s \o file
  BY DEF FilesFor, T, file
<1>7. CASE files = file
  <2>1. 1 \in 1 .. Len(files) /\ files[1] = deployed.provider[Target[t]]
    BY <1>2, <1>7
  <2> QED BY <2>1
<1>8. ASSUME NEW s \in [1 .. Cardinality(T) -> T], files = s \o file
      PROVE  \E i \in 1 .. Len(files) : files[i] = deployed.provider[Target[t]]
  <2>1. s \in Seq(Files) /\ Len(s) \in Nat
    BY <1>5
  <2>2. Len(s \o file) = Len(s) + 1 /\ (s \o file)[Len(s) + 1] = file[1]
    BY <1>2, <2>1, LastOfConcat
  <2>3. Len(s) + 1 \in 1 .. Len(files)
    BY <1>8, <2>1, <2>2
  <2> QED BY <1>2, <1>8, <2>2, <2>3
<1> QED BY <1>6, <1>7, <1>8

\* While files are loaded each body has its context
LEMMA ContextsOfBodies ==
  ASSUME LoaderInv, LoaderNext, stack # <<>> => contexts # <<>>
  PROVE  stack' # <<>> => contexts' # <<>>
<1>0. /\ stack \in Seq(Frame) /\ todo \in Seq(Files) /\ contexts \in Seq(Files)
      /\ contexts # <<>> => Len(contexts) = Len(stack)
  BY DEF LoaderInv, LoaderTypeOK, Frame, InContext
<1>1. ASSUME NEW f \in Files, Enter(f, stack)
      PROVE  stack' # <<>> => contexts' # <<>>
  <2>1. CASE node[f] = "absent"
    <3>1. contexts' = Append(contexts, f)
      BY <1>1, <2>1 DEF Enter, IsLate
    <3> QED BY <1>0, <3>1
  <2>2. CASE node[f] # "absent"
    <3>1. stack' = Advanced(stack) /\ contexts' = contexts
      BY <1>1, <2>2 DEF Enter
    <3>2. Len(stack') = Len(stack) /\ stack' \in Seq(Frame)
      BY <1>0, <3>1, AdvancedStack
    <3> QED BY <1>0, <3>1, <3>2
  <2> QED BY <2>1, <2>2
<1>2. CASE LoadNext
  <2>1. stack = <<>> /\ todo # <<>> /\ Enter(Head(todo), stack)
    BY <1>2 DEF LoadNext
  <2> QED BY <1>0, <1>1, <2>1
<1>3. CASE Require
  <2>1. stack # <<>> /\ ~AtEnd /\ Statement.do = "require" /\ Enter(Statement.file, stack)
    BY <1>3 DEF Require, Runs
  <2>2. Statement.file \in Files
    BY <2>1, StatementOfRunning, StatementFields DEF LoaderInv
  <2> QED BY <1>1, <2>1, <2>2
<1>4. CASE Register \/ RegisterLate \/ Throw
  BY <1>4 DEF Register, RegisterLate, Throw, Runs
<1>5. CASE Return \/ Unwind
  <2>1. stack # <<>> /\ contexts' = Front(contexts)
        /\ (stack' = Front(stack) \/ stack' = Advanced(Front(stack)))
    BY <1>5 DEF Return, Unwind
  <2>2. Front(stack) \in Seq(Frame) /\ Len(Front(stack)) = Len(stack) - 1
    BY <1>0, <2>1, FrontOfSeq
  <2>3. stack' \in Seq(Frame) /\ Len(stack') = Len(stack) - 1
    BY <2>1, <2>2, AdvancedStack
  <2>4. contexts' \in Seq(Files) /\ Len(contexts') = Len(stack) - 1
    BY <1>0, <2>1, FrontOfSeq
  <2> QED BY <2>3, <2>4
<1> QED BY <1>2, <1>3, <1>4, <1>5 DEF LoaderNext

LEMMA ErrorsStay ==
  ASSUME LoaderInv, LoaderNext
  PROVE  model.errors \subseteq model'.errors
<1>1. model \in ModelType
  BY DEF LoaderInv, LoaderTypeOK, ModelType
<1>2. CASE Register
  <2>1. \/ model' = model
        \/ model' = Registered(model, Statement)
    BY <1>2 DEF Register
  <2>2. Registered(model, Statement).errors = model.errors
    BY <1>2, RegisteredByAuthor DEF Register, Runs
  <2> QED BY <2>1, <2>2
<1>3. CASE LoadNext \/ RegisterLate \/ Require \/ Throw \/ Return
  <2>1. model' = model
    BY <1>3 DEF LoadNext, RegisterLate, Require, Throw, Return
  <2> QED BY <2>1
<1>4. CASE Unwind
  <2>1. model' = model \/ model' = [model EXCEPT !.errors = @ \cup {Running}]
    BY <1>4 DEF Unwind
  <2> QED BY <1>1, <2>1 DEF ModelType
<1> QED BY <1>2, <1>3, <1>4 DEF LoaderNext

\* The loop of load takes the files one by one; a body at the bottom of the stack
\* ends read, or its file is an error of the model.
LEMMA LoopReads ==
  ASSUME LoaderInv, StackOrder, LoaderNext, NEW f \in Files,
         stack # <<>> => contexts # <<>>, model'.errors = {},
         \/ \E i \in 1 .. Len(todo) : todo[i] = f
         \/ stack # <<>> /\ stack[1].file = f
         \/ IsRead(f)
  PROVE  \/ \E i \in 1 .. Len(todo') : todo'[i] = f
         \/ stack' # <<>> /\ stack'[1].file = f
         \/ IsRead(f)'
<1>0. /\ stack \in Seq(Frame) /\ node \in [Files -> {"absent", "loading", "loaded", "late"}]
      /\ todo \in Seq(Files) /\ contexts \in Seq(Files)
      /\ model \in ModelType
  BY DEF LoaderInv, LoaderTypeOK, Frame, ModelType
<1>1. /\ LoaderInv' /\ \A g \in Files : IsRead(g) => node'[g] = node[g]
  BY LoaderStep, BodiesStep
<1>2. IsRead(f) => IsRead(f)'
  BY <1>1 DEF IsRead
<1>4. ASSUME NEW g \in Files, Enter(g, stack)
      PROVE  /\ stack # <<>> => stack' # <<>> /\ stack'[1].file = stack[1].file
             /\ stack = <<>> => IsRead(g) \/ (stack' # <<>> /\ stack'[1].file = g)
  <2>1. CASE node[g] = "absent"
    <3> DEFINE frame == [file |-> g, at |-> 1]
    <3>1. stack' = Append(stack, frame)
      BY <1>4, <2>1 DEF Enter
    <3>2. frame \in Frame /\ frame.file = g
      BY DEF Frame
    <3> HIDE DEF frame
    <3>3. stack' # <<>> /\ (stack # <<>> => stack'[1] = stack[1])
          /\ (stack = <<>> => stack'[1] = frame)
      BY <1>0, <3>1, <3>2
    <3> QED BY <3>2, <3>3
  <2>2. CASE node[g] # "absent"
    <3>1. stack' = Advanced(stack)
      BY <1>4, <2>2 DEF Enter
    <3>2. Len(stack') = Len(stack) /\ stack' \in Seq(Frame)
          /\ \A i \in 1 .. Len(stack) : stack'[i].file = stack[i].file
      BY <1>0, <3>1, AdvancedStack
    <3>3. stack # <<>> => stack' # <<>> /\ stack'[1].file = stack[1].file
      BY <1>0, <3>2
    <3>4. stack = <<>> => IsRead(g)
      <4>1. ASSUME stack = <<>>
            PROVE  node[g] # "loading"
        BY <4>1 DEF StackOrder
      <4> QED BY <1>0, <2>2, <4>1 DEF IsRead
    <3> QED BY <3>3, <3>4
  <2> QED BY <2>1, <2>2
<1>5. CASE LoadNext
  <2>1. stack = <<>> /\ todo # <<>> /\ Enter(Head(todo), stack) /\ todo' = Tail(todo)
    BY <1>5 DEF LoadNext
  <2>2. Head(todo) \in Files
    BY <1>0, <2>1
  <2>3. IsRead(Head(todo)) \/ (stack' # <<>> /\ stack'[1].file = Head(todo))
    BY <1>4, <2>1, <2>2
  <2>4. CASE IsRead(f) \/ Head(todo) = f
    BY <1>2, <2>3, <2>4
  <2>5. CASE Head(todo) # f /\ ~IsRead(f)
    <3>1. PICK i \in 1 .. Len(todo) : todo[i] = f
      BY <2>1, <2>5
    <3>2. i # 1 /\ i - 1 \in 1 .. Len(Tail(todo)) /\ Tail(todo)[i - 1] = f
      BY <1>0, <2>1, <2>5, <3>1
    <3> QED BY <2>1, <2>3, <3>2
  <2> QED BY <2>3, <2>4, <2>5
<1>6. CASE Require
  <2>1. stack # <<>> /\ ~AtEnd /\ Statement.do = "require" /\ Enter(Statement.file, stack)
        /\ todo' = todo
    BY <1>6 DEF Require, Runs
  <2>2. Statement.file \in Files
    BY <2>1, StatementOfRunning, StatementFields DEF LoaderInv
  <2>3. stack' # <<>> /\ stack'[1].file = stack[1].file
    BY <1>4, <2>1, <2>2
  <2> QED BY <1>2, <2>1, <2>3
<1>7. CASE Register \/ RegisterLate \/ Throw
  <2>1. stack # <<>> /\ todo' = todo /\ (stack' = stack \/ stack' = Advanced(stack))
    BY <1>7 DEF Register, RegisterLate, Throw, Runs
  <2>2. Len(stack') = Len(stack) /\ stack' \in Seq(Frame)
        /\ \A i \in 1 .. Len(stack) : stack'[i].file = stack[i].file
    BY <1>0, <2>1, AdvancedStack
  <2>3. stack' # <<>> /\ stack'[1].file = stack[1].file
    BY <1>0, <2>1, <2>2
  <2> QED BY <1>2, <2>1, <2>3
<1>8. CASE Return \/ Unwind
  <2>1. stack # <<>> /\ todo' = todo
        /\ (stack' = Front(stack) \/ stack' = Advanced(Front(stack)))
    BY <1>8 DEF Return, Unwind
  <2>2. /\ Front(stack) \in Seq(Frame) /\ Len(Front(stack)) = Len(stack) - 1
        /\ Len(stack) \in Nat \ {0}
        /\ \A i \in 1 .. Len(stack) - 1 : Front(stack)[i] = stack[i]
    BY <1>0, <2>1, FrontOfSeq
  <2>3. /\ stack' \in Seq(Frame) /\ Len(stack') = Len(stack) - 1
        /\ \A i \in 1 .. Len(stack) - 1 : stack'[i].file = stack[i].file
    BY <2>1, <2>2, AdvancedStack
  <2>6. CASE Len(stack) > 1
    <3>1. stack' # <<>> /\ stack'[1].file = stack[1].file
      BY <2>2, <2>3, <2>6
    <3> QED BY <1>2, <2>1, <3>1
  <2>7. CASE Len(stack) = 1
    <3>1. Running = stack[1].file /\ Running \in Files
      BY <2>1, <2>7, StatementOfRunning DEF Running, Last, LoaderInv
    <3>2. CASE Return
      <4>1. node'[Running] \in {"loaded", "late"}
        BY <1>0, <3>1, <3>2 DEF Return
      <4> QED BY <1>2, <2>1, <3>1, <4>1 DEF IsRead
    <3>3. CASE Unwind
      <4>1. Front(stack) = <<>> /\ ~IsLate
        BY <2>1, <2>2, <2>7 DEF IsLate
      <4>2. model' = [model EXCEPT !.errors = @ \cup {Running}]
        BY <3>3, <4>1 DEF Unwind
      <4>3. Running \in model'.errors
        BY <1>0, <4>2 DEF ModelType
      <4> QED BY <4>3
    <3> QED BY <1>8, <3>2, <3>3
  <2> QED BY <2>2, <2>6, <2>7
<1> QED BY <1>5, <1>6, <1>7, <1>8 DEF LoaderNext

\* A step of the loader keeps what is known of the file of the task in hand
LEMMA LoadKeepsDeployment ==
  ASSUME DeploymentInv, Load
  PROVE  ReadInv' /\ Deployment' /\ FileIsRead'
<1>0. LoaderInv /\ ReadInv /\ StackOrder /\ Deployment /\ FileIsRead /\ ExecutorInv
  BY DEF DeploymentInv, ExecutorInv, ExecutorTypeOK, LoaderInv, ReadInv
<1>1. /\ LoaderNext
      /\ UNCHANGED <<phase, deployed, task, answer>>
      /\ phase \in {"publishing", "loading"} \/ (stack # <<>> /\ phase # "gone")
  BY DEF DeploymentInv, Load, executorVars
<1>2. ReadInv'
  BY <1>0, <1>1, ReadStep
<1>3. /\ script' = script /\ LoaderInv'
      /\ \A f \in Files : IsRead(f) => node'[f] = node[f]
      /\ model.errors \subseteq model'.errors
  BY <1>0, <1>1, BodiesStep, LoaderStep, ErrorsStay
<1>4. Deployment'
  <2>1. phase' \in {"publishing", "loading"} /\ stack' # <<>> => contexts' # <<>>
    BY <1>0, <1>1, ContextsOfBodies DEF Deployment
  <2> QED BY <1>0, <1>1, <1>3, <2>1 DEF Deployment, Registers
<1>5. task \in Tasks /\ Target[task] \in Names => File \in Files /\ File' = File
  BY <1>0, <1>1, FileOfTask DEF File
<1>6. ASSUME phase' = "loading", model'.errors = {}
      PROVE  \/ \E i \in 1 .. Len(todo') : todo'[i] = File'
             \/ stack' # <<>> /\ stack'[1].file = File'
             \/ IsRead(File)'
  <2>1. phase = "loading" /\ model.errors = {} /\ task \in Tasks /\ Target[task] \in Names
        /\ (stack # <<>> => contexts # <<>>)
    BY <1>0, <1>1, <1>3, <1>6 DEF Deployment
  <2>2. PICK f \in Files : f = File /\ f = File'
    BY <1>5, <2>1
  <2>3. \/ \E i \in 1 .. Len(todo) : todo[i] = f
        \/ stack # <<>> /\ stack[1].file = f
        \/ IsRead(f)
    BY <1>0, <2>1, <2>2 DEF FileIsRead
  <2>4. \/ \E i \in 1 .. Len(todo') : todo'[i] = f
        \/ stack' # <<>> /\ stack'[1].file = f
        \/ IsRead(f)'
    BY <1>0, <1>1, <1>6, <2>1, <2>3, LoopReads
  <2> QED BY <2>2, <2>4 DEF IsRead
<1>7. ASSUME phase' = "running", Target[task'] \in Names
      PROVE  IsRead(File)'
  <2>1. task \in Tasks /\ IsRead(File) /\ Target[task] \in Names
    BY <1>0, <1>1, <1>7 DEF Deployment, FileIsRead
  <2> QED BY <1>3, <1>5, <2>1 DEF IsRead
<1>8. ASSUME answer' = "missing"
      PROVE  node'[File'] = "late"
  <2>1. task \in Tasks /\ Target[task] \in Names /\ node[File] = "late"
    BY <1>0, <1>1, <1>8 DEF Deployment, FileIsRead
  <2> QED BY <1>3, <1>5, <2>1 DEF IsRead
<1>9. FileIsRead'
  BY <1>6, <1>7, <1>8 DEF FileIsRead
<1> QED BY <1>2, <1>4, <1>9

\* The steps that leave the loader alone
LEMMA StepKeepsDeployment ==
  ASSUME DeploymentInv, UNCHANGED loaderVars,
         \/ Refuse \/ \E t \in Tasks : StartTask(t)
         \/ FailSandbox \/ FailDescriptor \/ FailModel \/ MissCode \/ FailInvocation \/ Invoke \/ Shutdown
         \/ Report \/ GoIdle
         \/ Block \/ Resolve \/ Reject \/ Die
  PROVE  ReadInv' /\ Deployment' /\ FileIsRead'
<1>0. UNCHANGED <<script, node, stack, contexts, thrown, todo, model, critical>>
  BY DEF loaderVars
<1>1. ReadInv'
  BY <1>0, ReadUnchanged DEF DeploymentInv
<1>2. deployed' = deployed
  BY DEF Refuse, StartTask, FailSandbox, FailDescriptor, FailModel, MissCode, FailInvocation, Invoke, Shutdown,
         Report, GoIdle, Block, Resolve, Reject, Die
<1>3. \A f, n : Registers(f, n)' <=> Registers(f, n)
  BY <1>0 DEF Registers
<1> USE DEF DeploymentInv, Deployment, FileIsRead, File, IsRead
<1>4. CASE Refuse
  BY <1>0, <1>1, <1>2, <1>3, <1>4 DEF Refuse
<1>5. ASSUME NEW t \in Tasks, StartTask(t)
      PROVE  Deployment' /\ FileIsRead'
  BY <1>0, <1>2, <1>3, <1>5 DEF StartTask
<1>6. CASE MissCode
  <2>1. /\ phase = "loading" /\ IsLoaded /\ model.errors = {} /\ task' = task
        /\ model.provider[Target[task]] = NoFile /\ phase' = "answered" /\ answer' = "missing"
    BY <1>6 DEF MissCode, Answered
  <2>2. task \in Tasks /\ Target[task] \in Names
    BY <2>1
  <2>3. IsRead(File)
    BY <2>1 DEF IsLoaded
  <2>4. node[File] # "loaded"
    BY <2>1, <2>2, ReadFileProvides
  <2>5. node'[File'] = "late"
    BY <1>0, <1>2, <2>1, <2>3, <2>4
  <2> QED BY <1>0, <1>1, <1>2, <1>3, <2>1, <2>2, <2>5
<1>7. CASE Invoke
  <2>1. phase' = "running" /\ task' = task /\ answer' = answer
    BY <1>7 DEF Invoke
  <2>2. task \in Tasks
    BY <1>7 DEF Invoke, HasCode, ExecutorInv, Process, TaskInHand
  <2>3. Target[task] \in Names => IsRead(File)
    <3>1. CASE phase = "loading"
      <4>1. IsLoaded /\ model.errors = {}
        BY <1>7, <3>1 DEF Invoke, HasCode
      <4> QED BY <3>1, <4>1 DEF IsLoaded
    <3>2. CASE phase = "started"
      BY <1>7, <3>2, TaskAssumption DEF Invoke, HasCode
    <3> QED BY <1>7, <3>1, <3>2 DEF Invoke, HasCode
  <2>4. phase \notin {"publishing", "refused"}
    BY <1>7 DEF Invoke, HasCode
  <2> QED BY <1>0, <1>1, <1>2, <1>3, <2>1, <2>2, <2>3, <2>4
<1>8. ASSUME \/ FailSandbox \/ FailDescriptor \/ FailModel \/ FailInvocation \/ Resolve \/ Reject
      PROVE  Deployment' /\ FileIsRead'
  <2>1. /\ phase' = "answered" /\ answer' # "missing"
        /\ phase \notin {"publishing", "refused"}
    BY <1>8 DEF FailSandbox, FailDescriptor, FailModel, FailInvocation, HasCode, Resolve, Reject, ResultsOf,
                Answered
  <2> QED BY <1>0, <1>2, <1>3, <2>1
<1>9. ASSUME Shutdown \/ Report \/ GoIdle \/ Die
      PROVE  Deployment' /\ FileIsRead'
  <2>1. /\ phase' \in {"reported", "waiting", "gone"} /\ answer' = answer /\ task' = task
        /\ phase \notin {"publishing", "refused"}
    BY <1>9 DEF Shutdown, Report, GoIdle, Die
  <2> QED BY <1>0, <1>2, <1>3, <2>1
<1>10. CASE Block
  <2>1. phase' = phase /\ answer' = answer /\ task' = task
    BY <1>10 DEF Block
  <2> QED BY <1>0, <1>1, <1>2, <1>3, <2>1
<1> QED BY <1>1, <1>4, <1>5, <1>6, <1>7, <1>8, <1>9, <1>10

LEMMA DeploymentInitially ==
  ASSUME ExecutorInit
  PROVE  DeploymentInv
<1>1. ExecutorInv
  BY ExecutorInitially
<1>2. /\ stack = <<>> /\ contexts = <<>> /\ node = [f \in Files |-> "absent"]
      /\ phase = "publishing" /\ answer = "none"
  BY DEF ExecutorInit, LoaderInit
<1>3. ReadInv
  BY <1>2 DEF ReadInv, StackOrder, RegistrationsStand
<1> QED BY <1>1, <1>2, <1>3 DEF DeploymentInv, Deployment, FileIsRead

LEMMA DeploymentInductive ==
  ASSUME DeploymentInv, [ExecutorNext]_allVars
  PROVE  DeploymentInv'
<1>0. LoaderInv /\ ReadInv /\ StackOrder /\ Deployment /\ FileIsRead /\ ExecutorInv
  BY DEF DeploymentInv, ExecutorInv, ExecutorTypeOK, LoaderInv, ReadInv
<1>1. ExecutorInv'
  BY <1>0, ExecutorInductive
<1>2. CASE Load
  BY <1>1, <1>2, LoadKeepsDeployment DEF DeploymentInv
<1>3. CASE \/ Refuse \/ \E t \in Tasks : StartTask(t)
           \/ FailSandbox \/ FailDescriptor \/ FailModel \/ MissCode \/ FailInvocation \/ Invoke \/ Shutdown
           \/ Report \/ GoIdle
           \/ Block \/ Resolve \/ Reject \/ Die
  <2>1. UNCHANGED loaderVars
    BY <1>3 DEF Refuse, StartTask, FailSandbox, FailDescriptor, FailModel, MissCode, FailInvocation, Invoke,
                Shutdown, Report, GoIdle, Block, Resolve, Reject, Die
  <2> QED BY <1>1, <1>3, <2>1, StepKeepsDeployment DEF DeploymentInv
<1>4. CASE Publish
  <2>1. /\ phase = "publishing" /\ phase' = "waiting" /\ deployed' = model /\ stack = <<>>
        /\ node' = [f \in Files |-> "absent"]
        /\ UNCHANGED <<script, stack, contexts, answer>>
    BY <1>4 DEF Publish, IsLoaded
  <2>2. contexts = <<>>
    BY <1>0, <2>1 DEF LoaderInv, InContext
  <2>3. ReadInv'
    BY <2>1, <2>2 DEF ReadInv, StackOrder, RegistrationsStand
  <2>4. \A n \in Names : deployed'.provider[n] # NoFile => Registers(deployed'.provider[n], n)
    BY <1>0, <2>1 DEF LoaderInv, ProvidersAreAuthors
  <2>5. \A f, n : Registers(f, n)' <=> Registers(f, n)
    BY <2>1 DEF Registers
  <2>6. answer' # "missing"
    BY <1>0, <2>1 DEF Deployment
  <2>7. Deployment' /\ FileIsRead'
    BY <2>1, <2>4, <2>5, <2>6 DEF Deployment, FileIsRead
  <2> QED BY <1>1, <2>3, <2>7 DEF DeploymentInv
<1>5. CASE GetModel
  <2>1. /\ phase = "started" /\ Target[task] \in Names /\ phase' = "loading"
        /\ todo' \in FilesFor(task)
        /\ UNCHANGED <<script, node, stack, contexts, model, deployed, task, answer>>
    BY <1>5 DEF GetModel
  <2>2. task \in Tasks /\ deployed.provider[Target[task]] # NoFile /\ stack = <<>>
    BY <1>0, <2>1 DEF ExecutorInv, Process, LoadsInPhase, TaskInHand
  <2>3. \E i \in 1 .. Len(todo') : todo'[i] = File'
    BY <1>0, <2>1, <2>2, FileIsTodo DEF ExecutorInv, File
  <2>4. \A f, n : Registers(f, n)' <=> Registers(f, n)
    BY <2>1 DEF Registers
  <2>5. Deployment'
    BY <1>0, <2>1, <2>2, <2>4 DEF Deployment
  <2>6. FileIsRead'
    BY <1>0, <2>1, <2>3 DEF FileIsRead, File
  <2>7. ReadInv'
    BY <1>0, <2>1, ReadUnchanged
  <2> QED BY <1>1, <2>5, <2>6, <2>7 DEF DeploymentInv
<1>6. CASE TimeOut \/ FailLateRequire
  <2>1. /\ UNCHANGED <<script, node, stack, contexts, todo, model, deployed, task>>
        /\ \/ phase' = phase /\ answer' = answer
           \/ phase' = "answered" /\ answer' = "error" /\ phase = "running"
    BY <1>6 DEF TimeOut, TimerFires, Answered, FailLateRequire, executorVars
  <2>2. \A f, n : Registers(f, n)' <=> Registers(f, n)
    BY <2>1 DEF Registers
  <2>3. Deployment'
    BY <1>0, <2>1, <2>2 DEF Deployment
  <2>4. FileIsRead'
    BY <1>0, <2>1 DEF FileIsRead, File, IsRead
  <2>5. ReadInv'
    BY <1>0, <2>1, ReadUnchanged
  <2> QED BY <1>1, <2>3, <2>4, <2>5 DEF DeploymentInv
<1>7. ASSUME NEW f \in Files, LateRequire(f)
      PROVE  DeploymentInv'
  <2>1. /\ stack = <<>> /\ node[f] = "absent" /\ phase \notin {"publishing", "loading"}
        /\ node' = [node EXCEPT ![f] = "loading"]
        /\ stack' = <<[file |-> f, at |-> 1]>>
        /\ UNCHANGED <<script, contexts, todo, model, phase, deployed, task, answer>>
    BY <1>7 DEF LateRequire, CanTurn, executorVars
  <2>2. contexts' = <<>> /\ node \in [Files -> {"absent", "loading", "loaded", "late"}]
    BY <1>0, <2>1 DEF LoaderInv, LoaderTypeOK, InContext
  <2>3. \A g \in Files : node[g] # "absent" => node'[g] = node[g]
    BY <2>1, <2>2
  <2>4. ReadInv'
    <3>1. StackOrder'
      <4>1. stack' = Append(stack, [file |-> f, at |-> 1])
        BY <2>1
      <4> QED BY <1>0, <2>1, <4>1, PushOrder
    <3>2. \A n : IsExclusive(n)' <=> IsExclusive(n)
      BY <2>1 DEF IsExclusive
    <3>3. \A g, i : InEffect(model, g, i)' <=> InEffect(model, g, i)
      BY <2>1, <3>2 DEF InEffect
    <3>4. \A g, k : Performed(g, k)' <=> Performed(g, k)
      BY <2>1, <3>3 DEF Performed
    <3>5. \A g \in Files : node'[g] = "loaded" => node[g] = "loaded"
      BY <2>1, <2>2
    <3>6. RegistrationsStand'
      BY <1>0, <2>1, <2>2, <3>4, <3>5 DEF ReadInv, RegistrationsStand
    <3> QED BY <3>1, <3>6 DEF ReadInv
  <2>5. \A g, n : Registers(g, n)' <=> Registers(g, n)
    BY <2>1 DEF Registers
  <2>6. Deployment'
    BY <1>0, <2>1, <2>5 DEF Deployment
  <2>7. task \in Tasks /\ Target[task] \in Names => File \in Files /\ File' = File
    BY <1>0, <2>1, FileOfTask DEF File
  <2>8. FileIsRead'
    BY <1>0, <2>1, <2>3, <2>7 DEF Deployment, FileIsRead, IsRead
  <2> QED BY <1>1, <2>4, <2>6, <2>8 DEF DeploymentInv
<1>8. CASE UNCHANGED allVars
  <2>1. /\ UNCHANGED <<script, node, stack, contexts, todo, model, deployed, task, phase, answer>>
    BY <1>8 DEF allVars, loaderVars, executorVars
  <2>2. \A f, n : Registers(f, n)' <=> Registers(f, n)
    BY <2>1 DEF Registers
  <2>3. Deployment' /\ FileIsRead'
    BY <1>0, <2>1, <2>2 DEF Deployment, FileIsRead, File, IsRead
  <2>4. ReadInv'
    BY <1>0, <2>1, ReadUnchanged
  <2> QED BY <1>1, <2>3, <2>4 DEF DeploymentInv
<1> QED BY <1>2, <1>3, <1>4, <1>5, <1>6, <1>7, <1>8 DEF ExecutorNext, Execute

\* The deployment, the files read and the task in hand agree in every state.
THEOREM DeploymentInvariant ==
  ExecutorSpec => []DeploymentInv
<1>1. ExecutorInit => DeploymentInv
  BY DeploymentInitially
<1>2. DeploymentInv /\ [ExecutorNext]_allVars => DeploymentInv'
  BY DeploymentInductive
<1> QED BY <1>1, <1>2, PTL DEF ExecutorSpec

\* The code that runs for a task is what the deployment found, in whatever order
\* the process has read its files, unless the code of a task has required the
\* file itself.  A file that was read in time has made all its registrations, and
\* no other file can have taken an exclusive one from it.
THEOREM CodeAlwaysRunsAsDeployed ==
  ExecutorSpec => []RunsAsDeployed
<1>1. ASSUME DeploymentInv
      PROVE  RunsAsDeployed
  <2> SUFFICES ASSUME phase = "running", Target[task] \in Names, IsExclusive(Target[task]),
                      node[deployed.provider[Target[task]]] # "late"
               PROVE  model.provider[Target[task]] = deployed.provider[Target[task]]
    BY DEF RunsAsDeployed
  <2>1. task \in Tasks /\ node[File] = "loaded"
    BY <1>1 DEF DeploymentInv, Deployment, FileIsRead, IsRead, File
  <2> QED BY <1>1, <2>1, ReadFileProvides DEF DeploymentInv, File
<1> QED BY <1>1, DeploymentInvariant, PTL

\* A deployed handler or service is reported as missing only by a process in which
\* the code of a task has required its file.
THEOREM DeployedCodeAlwaysFound ==
  ExecutorSpec => []DeployedCodeIsFound
<1>1. DeploymentInv => DeployedCodeIsFound
  BY DEF DeploymentInv, FileIsRead, File, DeployedCodeIsFound
<1> QED BY <1>1, DeploymentInvariant, PTL

=============================================================================
