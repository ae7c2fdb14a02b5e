---------------------------- MODULE TaskExecutor ----------------------------
(***************************************************************************)
(* The tasks of one worker process: lib/server-code/runners/tasks/         *)
(* executor.js with the executors of handlers, services and actions, under *)
(* processTask of cloud-worker.js, over the model that the process loads   *)
(* from the descriptor written at deployment (publisher.js, descriptor.js).*)
(*                                                                         *)
(* The behaviour begins in the publisher, which reads all files and writes *)
(* the descriptor; then a worker process starts from nothing and is given  *)
(* tasks of the deployed code, one after the other, as long as the master  *)
(* would reuse it.                                                         *)
(***************************************************************************)
EXTENDS ServerCodeModel

CONSTANTS
  Tasks,
  Target,        \* Target[t]: handler or service the task invokes; NoName: an action
  NoName,
  Async,         \* event handler tasks with the async flag
  Limited,       \* tasks with a timeout (task.timeout >= 0)
  ShutdownTasks, \* handler tasks of the event SHUTDOWN, rewritten to an action
  SandboxedTasks,\* opts.sandbox, and the task's mode is not MARKETPLACE
  ResponseLimit, \* opts.responseSizeLimit > 0
  NoTask

ASSUME TaskAssumption ==
  /\ Target \in [Tasks -> {n \in Names : KindOf[n] # "type"} \cup {NoName}]
  /\ NoName \notin Names /\ NoTask \notin Tasks
  /\ Async \subseteq {t \in Tasks : Target[t] \in Names /\ KindOf[Target[t]] \in {"handler", "timer"}}
  /\ Limited \subseteq Tasks /\ SandboxedTasks \subseteq Tasks
  /\ ShutdownTasks \subseteq {t \in Tasks : Target[t] = NoName}
  /\ ResponseLimit \in BOOLEAN

VARIABLES
  phase,      \* where the process is
  deployed,   \* the descriptor: the model the publisher built
  isNew,      \* the descriptor has no model yet (this.model)
  task,       \* the task in hand
  answer,     \* its result: value, void (undefined), error, missing
  reported,   \* a critical error was sent to the master
  sandboxed,  \* sandbox.apply has succeeded
  abandoned,  \* tasks whose code goes on after the timeout answered them
  blocked     \* the code of the task holds the event loop

executorVars == <<phase, deployed, isNew, task, answer, reported, sandboxed, abandoned, blocked>>
allVars == <<loaderVars, executorVars>>

Phases == {"publishing", "refused", "waiting", "started", "loading", "running",
           "answered", "reported", "gone"}

\* Mutant of TypesFiles: entries without a provider are not left out
TypesFilesOfAll(m) == {m.provider[n] : n \in {n \in Names : KindOf[n] = "type"}}

TypesFiles(m) == {m.provider[n] : n \in {n \in Names : KindOf[n] = "type"}} \ {NoFile}

\* isTaskCacheable, asked by the master before SHUTDOWN is rewritten
IsTaskCacheable(t) == Target[t] # NoName \/ t \in ShutdownTasks

ExecutorInit ==
  /\ LoaderInit
  /\ phase = "publishing" /\ deployed = NewModel
  /\ isNew = TRUE /\ task = NoTask /\ answer = "none" /\ reported = FALSE
  /\ sandboxed = FALSE /\ abandoned = {} /\ blocked = FALSE

----------------------------------------------------------------------------
(* publisher.js                                                            *)

\* A step of the loader, in the publisher, for the task in hand or by its code
Load ==
  /\ phase \in {"publishing", "loading"} \/ (stack # <<>> /\ phase # "gone")
  /\ LoaderNext
  /\ UNCHANGED executorVars

IsEmpty(m) == \A n \in Names : KindOf[n] # "type" => m.provider[n] = NoFile

\* buildModel: a model that is empty or has errors is not published
Refuse ==
  /\ phase = "publishing" /\ IsLoaded
  /\ model.errors # {} \/ IsEmpty(model)
  /\ phase' = "refused"
  /\ UNCHANGED <<loaderVars, deployed, isNew, task, answer, reported, sandboxed, abandoned,
                 blocked>>

\* The descriptor is written, and a worker process starts on it
Publish ==
  /\ phase = "publishing" /\ IsLoaded
  /\ model.errors = {} /\ ~IsEmpty(model)
  /\ phase' = "waiting"
  /\ deployed' = model
  /\ node' = [f \in Files |-> "absent"]
  /\ model' = NewModel
  /\ critical' = FALSE
  /\ UNCHANGED <<script, stack, contexts, thrown, todo, isNew, task, answer, reported,
                 sandboxed, abandoned, blocked>>

----------------------------------------------------------------------------
(* processTask and executor.execute                                        *)

\* The server invokes what is deployed; a task that is not cacheable is only
\* given to a new process
StartTask(t) ==
  /\ phase = "waiting" /\ stack = <<>>
  /\ task = NoTask \/ IsTaskCacheable(t)
  /\ Target[t] \in Names => deployed.provider[Target[t]] # NoFile
  /\ phase' = "started"
  /\ task' = t /\ answer' = "none"
  /\ UNCHANGED <<loaderVars, deployed, isNew, reported, sandboxed, abandoned, blocked>>

Answered(a) == phase' = "answered" /\ answer' = a

\* setuid fails
FailSandbox ==
  /\ phase = "started" /\ task \in SandboxedTasks /\ ~sandboxed
  /\ Answered("error")
  /\ UNCHANGED <<loaderVars, deployed, isNew, task, reported, sandboxed, abandoned, blocked>>

\* The descriptor is missing or cannot be read; the next task looks for it again
FailDescriptor ==
  /\ phase = "started" /\ Target[task] \in Names /\ isNew
  /\ Answered("error")
  /\ sandboxed' = (sandboxed \/ task \in SandboxedTasks)
  /\ UNCHANGED <<loaderVars, deployed, isNew, task, reported, abandoned, blocked>>

\* The files getModelForFile reads, types first (in some order) for a new model
FilesFor(t) ==
  LET file == <<deployed.provider[Target[t]]>>
  IN  IF isNew
      THEN {s \o file : s \in {s \in [1 .. Cardinality(TypesFiles(deployed)) -> TypesFiles(deployed)] :
                                 TypesFiles(deployed) = {s[i] : i \in DOMAIN s}}}
      ELSE {file}

\* Mutant of GetModel: files are only read for a new model
GetModelOnce ==
  /\ phase = "started" /\ Target[task] \in Names
  /\ sandboxed' = (sandboxed \/ task \in SandboxedTasks)
  /\ phase' = "loading"
  /\ todo' \in (IF isNew THEN FilesFor(task) ELSE {<<>>})
  /\ isNew' = FALSE
  /\ UNCHANGED <<script, node, stack, contexts, thrown, model, critical, deployed, task, answer,
                 reported, abandoned, blocked>>

\* A handler or service task loads its file into the model of the process
GetModel ==
  /\ phase = "started" /\ Target[task] \in Names
  /\ sandboxed' = (sandboxed \/ task \in SandboxedTasks)
  /\ phase' = "loading"
  /\ todo' \in FilesFor(task)
  /\ isNew' = FALSE
  /\ UNCHANGED <<script, node, stack, contexts, thrown, model, critical, deployed, task, answer,
                 reported, abandoned, blocked>>

\* getModelForFile throws the first error the model ever had
FailModel ==
  /\ phase = "loading" /\ IsLoaded
  /\ model.errors # {}
  /\ Answered("error")
  /\ UNCHANGED <<loaderVars, deployed, isNew, task, reported, sandboxed, abandoned, blocked>>

\* getHandler or getService finds nothing
MissCode ==
  /\ phase = "loading" /\ IsLoaded /\ model.errors = {}
  /\ model.provider[Target[task]] = NoFile
  /\ Answered("missing")
  /\ UNCHANGED <<loaderVars, deployed, isNew, task, reported, sandboxed, abandoned, blocked>>

\* The model has the code of the task, or the task is an action
HasCode ==
  \/ /\ phase = "loading" /\ IsLoaded /\ model.errors = {}
     /\ model.provider[Target[task]] # NoFile
  \/ phase = "started" /\ Target[task] = NoName /\ task \notin ShutdownTasks

\* The invocation fails before the code of the task runs: the arguments cannot be
\* decoded, the service has no such method or cannot be constructed, the action is
\* unknown
FailInvocation ==
  /\ HasCode
  /\ Answered("error")
  /\ sandboxed' = (sandboxed \/ task \in SandboxedTasks)
  /\ UNCHANGED <<loaderVars, deployed, isNew, task, reported, abandoned, blocked>>

\* The timer is armed and the code is called, in one turn
Invoke ==
  /\ HasCode
  /\ phase' = "running"
  /\ sandboxed' = (sandboxed \/ task \in SandboxedTasks)
  /\ UNCHANGED <<loaderVars, deployed, isNew, task, answer, reported, abandoned, blocked>>

\* The rewritten action exits the process
Shutdown ==
  /\ phase = "started" /\ task \in ShutdownTasks
  /\ phase' = "gone"
  /\ sandboxed' = (sandboxed \/ task \in SandboxedTasks)
  /\ UNCHANGED <<loaderVars, deployed, isNew, task, answer, reported, abandoned, blocked>>

\* The event loop is free
CanTurn == ~blocked /\ stack = <<>>

\* The code of the task computes without end: no timer of this process fires
Block ==
  /\ phase = "running" /\ CanTurn
  /\ blocked' = TRUE
  /\ UNCHANGED <<loaderVars, phase, deployed, isNew, task, answer, reported, sandboxed, abandoned>>

\* What the server gets for code that succeeds.  An async handler resolves to
\* undefined, which has no length to compare with the limit.
ResultsOf(t) ==
  IF t \in Async
  THEN {IF ResponseLimit THEN "error" ELSE "void"}
  ELSE {"value"} \cup (IF ResponseLimit THEN {"error"} ELSE {})

Resolve ==
  /\ phase = "running" /\ CanTurn
  /\ \E a \in ResultsOf(task) : Answered(a)
  /\ UNCHANGED <<loaderVars, deployed, isNew, task, reported, sandboxed, abandoned, blocked>>

\* The code throws, rejects, or fails in a callback its domain sees
Reject ==
  /\ phase = "running" /\ CanTurn
  /\ Answered("error")
  /\ UNCHANGED <<loaderVars, deployed, isNew, task, reported, sandboxed, abandoned, blocked>>

\* The timer that was armed with the invocation fires
TimerFires == phase = "running" /\ task \in Limited /\ CanTurn

\* Mutant of TimeOut: task.criticalError is not set
TimeOutUnmarked ==
  /\ TimerFires
  /\ Answered("error")
  /\ abandoned' = abandoned \cup {task}
  /\ UNCHANGED <<loaderVars, deployed, isNew, task, reported, sandboxed, blocked>>

\* Mutant of TimeOut: async tasks are awaited without the race
TimeOutOfSync ==
  /\ TimerFires /\ task \notin Async
  /\ Answered("error")
  /\ abandoned' = abandoned \cup {task}
  /\ critical' = TRUE
  /\ UNCHANGED <<script, node, stack, contexts, thrown, todo, model, deployed, isNew, task,
                 reported, sandboxed, blocked>>

\* The race is lost; the code goes on
TimeOut ==
  /\ TimerFires
  /\ Answered("error")
  /\ abandoned' = abandoned \cup {task}
  /\ critical' = TRUE
  /\ UNCHANGED <<script, node, stack, contexts, thrown, todo, model, deployed, isNew, task,
                 reported, sandboxed, blocked>>

\* Code of this task or of an earlier one fails in a require
FailLateRequire ==
  /\ phase \in {"running", "answered", "reported", "waiting"} /\ task # NoTask /\ CanTurn
  /\ critical' = TRUE
  /\ UNCHANGED <<script, node, stack, contexts, thrown, todo, model, executorVars>>

\* Code of this task or of an earlier one requires a file of server code
LateRequire(f) ==
  /\ phase \in {"running", "answered", "reported", "waiting"} /\ task # NoTask /\ CanTurn
  /\ node[f] = "absent"
  /\ node' = [node EXCEPT ![f] = "loading"]
  /\ stack' = <<[file |-> f, at |-> 1]>>
  /\ UNCHANGED <<script, contexts, thrown, todo, model, critical, executorVars>>

\* The result is sent, and a critical error if there is one by then
Report ==
  /\ phase = "answered" /\ stack = <<>>
  /\ phase' = "reported"
  /\ reported' = critical
  /\ UNCHANGED <<loaderVars, deployed, isNew, task, answer, sandboxed, abandoned, blocked>>

\* Logs are flushed and 'idling' is sent: the master kills the process or keeps it
GoIdle ==
  /\ phase = "reported" /\ stack = <<>>
  /\ phase' = IF IsTaskCacheable(task) /\ ~reported THEN "waiting" ELSE "gone"
  /\ UNCHANGED <<loaderVars, deployed, isNew, task, answer, reported, sandboxed, abandoned,
                 blocked>>

\* The timer of the broker kills the process, or the code exits it
Die ==
  /\ phase \in {"waiting", "started", "loading", "running", "answered", "reported"}
  /\ phase' = "gone"
  /\ UNCHANGED <<loaderVars, deployed, isNew, task, answer, reported, sandboxed, abandoned,
                 blocked>>

Execute ==
  \/ FailSandbox \/ FailDescriptor \/ GetModel \/ FailModel \/ MissCode \/ FailInvocation \/ Invoke
  \/ Shutdown \/ Report \/ GoIdle

ExecutorNext ==
  \/ Load \/ Refuse \/ Publish
  \/ \E t \in Tasks : StartTask(t)
  \/ \E f \in Files : LateRequire(f)
  \/ Execute
  \/ Block \/ Resolve \/ Reject \/ TimeOut \/ FailLateRequire \/ Die

ExecutorSpec == ExecutorInit /\ [][ExecutorNext]_allVars

\* The process runs, and a timer that is due fires when the event loop is free
\* again and again; the code of a task owes nothing
FairExecutorSpec ==
  ExecutorSpec /\ WF_allVars(Load) /\ WF_allVars(Execute) /\ SF_allVars(TimeOut)

----------------------------------------------------------------------------
(* Properties                                                              *)

\* The executor's variables keep their types.
ExecutorTypeOK ==
  /\ LoaderTypeOK
  /\ phase \in Phases
  /\ deployed \in [provider : [Names -> Files \cup {NoFile}], errors : SUBSET Files]
  /\ task \in Tasks \cup {NoTask}
  /\ answer \in {"none", "value", "void", "error", "missing"}
  /\ isNew \in BOOLEAN /\ reported \in BOOLEAN /\ sandboxed \in BOOLEAN
  /\ abandoned \subseteq Tasks /\ blocked \in BOOLEAN

\* A process that failed to read a file is not given another task: its model
\* keeps the error for good and would fail every task of the application.
FailedModelIsNotReused == phase \in {"waiting", "started"} => model.errors = {}

\* Code that went on after its timeout never runs beside another task.
AbandonedCodeRunsAlone == phase \in {"waiting", "started", "loading", "running"} => abandoned = {}

\* A second registration of n is refused, whichever file makes it; always so for
\* handlers and timers
IsExclusive(n) ==
  \A f \in Files : \A i \in DOMAIN script[f] :
    script[f][i].do = "register" /\ script[f][i].name = n => script[f][i].dup = "reject"

\* The code that runs for a task is the code the deployment found, whatever the
\* process has loaded for other tasks before and in whatever order: unless the
\* code of a task has required the deployed file itself, when its registration
\* was ignored and one of another file that the deployment refused may stand in
\* its place.  Of a name with duplicates that are not refused nothing is claimed.
RunsAsDeployed ==
  phase = "running" /\ Target[task] \in Names /\ IsExclusive(Target[task]) =>
    LET file == deployed.provider[Target[task]]
    IN  node[file] = "late" \/ model.provider[Target[task]] = file

\* What was deployed is found: a process answers that the handler or service
\* does not exist only if the code of a task has required its file before, when
\* nothing can be registered any more.
DeployedCodeIsFound ==
  answer = "missing" => node[deployed.provider[Target[task]]] = "late"

\* A task with a timeout is answered, unless its code holds the event loop: then
\* only the broker's timer can end it.
LimitedTaskEnds ==
  \A t \in Limited : phase = "running" /\ task = t ~> phase # "running" \/ blocked

=============================================================================
