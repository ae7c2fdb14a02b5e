# Verification of the Backendless JS Code Runner

The code runner takes *tasks* (event handlers, service methods and actions of
Backendless applications) from Redis and runs each one in a worker process that
belongs to the application of the task.  This directory holds TLA+ models of it,
the TLC instances that check them, and proofs for TLAPS.

Contents: [system](#1-the-system) · [modules](#2-modules-and-their-correspondence-to-the-code) ·
[runs](#3-runs) · [proofs](#4-proofs) · [findings](#5-disagreements-between-code-and-documentation) ·
[not modelled](#6-what-is-not-modelled) · [plan](#7-plan)

## 1. The system

```
 server --RPUSH--> Redis lists --BLPOP--> CloudMaster --getWorkerForTask--> WorkersBroker
 server <-PUBLISH- Redis       <--------- onTaskProcessed <--- events ---  |  fork, IPC, SIGKILL
                                                                         worker processes
                                                              cloud-worker.js -> executor.js -> model
```

| Component | Source (`src/lib/`) | State it keeps | Operations |
|---|---|---|---|
| Workers broker | `server-code/runners/cloud-workers-broker.js`, `util/long-waiter.js` | pools *busy*, *idle*, *cached*; per worker its place, task, application, timers, marks; running tasks per application; count of starting workers; the stop in progress | fork, hand out, relocate, kill; handlers for messages, exits, timers, heartbeats, deployments, stop |
| Cloud master | `server-code/runners/cloud-master.js` | one request slot per channel, `stopped` | ask for a task, rate limit, drop an outdated task, pass a result on, stop |
| Messages broker | `server-code/services/messages-broker.js` | Redis connections: getters, setters, subscriber | BLPOP, RPUSH, PUBLISH, reconnect, two-stage stop |
| Worker process | `server-code/runners/cloud-worker.js` | the job, `criticalError`, outgoing messages | start, execute, answer, report a critical error, report idling |
| Task executor | `server-code/runners/tasks/*`, `util/promise.js` | the race with the timeout, the model cache, the sandbox | execute a task, wrap its result |
| Server code model | `server-code/model/*`, `server-code/api/*`, `server-code/events.js` | handlers, timers, services, types, errors; the stack of files being loaded | register, load files, look up |
| Debug runner | `server-code/runners/debug.js` | session id, renewal timer, and what it inherits from the master | start, renew, stop |
| Publisher | `server-code/publisher.js`, `services/api-server.js`, `services/status-progress.js`, `util/file.js` | the packages found, the list of files, count of status messages read, `failed` | collect dependencies, expand patterns, confirm, upload, poll |
| JSON with references | `util/json.js` | per call: objects seen, chains, references | encode and decode object graphs |
| Command line | `cli/clirunner.js`, `cli/utils.js`, `cli/options.js`, ... | options | read options, alert, termination hook, start a runner |
| Logger, JSDoc, printing, management server | `util/logger.js`, `util/jsdoc.js`, ... | – | – |

```
 coderunner debug   --> startRunner --> DebugCodeRunner (a CloudMaster) --register--> API server
                            |  hook         \---- expire every 45 s ----> Redis (session, 60 s)
 coderunner deploy  --> startRunner --> publish: model, zip, confirm --POST--> API server
                                                        StatusProgress <--GET-- log of the deployment
```

**Interaction.** The master, the pools and all timers share one event loop: a handler
runs to its end before the next one starts, with one exception that is visible: a
deployment and a heartbeat walk an array that the calls inside the loop change.  Worker
processes run in parallel; each has a FIFO channel to the master, and its exit and
the closing of its channel are two further events that may come in either order and
before or after the last messages are read.  Redis answers in its own time.

**What is hard.**  A message of a worker that a timer has killed meanwhile; an answer
that arrives when `worker.task` may have been replaced; the availability of workers
that is read when the request is made and used when the task arrives; counters per
application that are adjusted at every move while `appId` changes in between; chains
of promises each of which must wake the next request; a stop while tasks are in
flight; replies of BLPOP lost with their connection; a signal at any await of the debug runner's
start, and a renewal that is under way when the stop clears its timer; a log that grows while it is
read page by page; references that are numbered in one order and read in another.  The list with line numbers is
`hazards` in PROJECT.json.

**What makes it correct.**  Pools and places agree; the rate limit's counters are the
truth; no process runs the code of two applications; a worker marked with old code
does not serve a new task; an answer is published under the task it belongs to, and
under no other; the intake never sleeps while a worker and a task wait; no task is
lost or run twice except by the failures that the abstract service names; every task
is answered under fair scheduling.  A debug session is held while it is needed, given up when it is
not, and its loss is noticed; a deployment sends what the project needs and nothing else, after the
user agreed, and reports what the server's log says; what is decoded is what was encoded.

## 2. Modules and their correspondence to the code

| Module | Models | EXTENDS / INSTANCE |
|---|---|---|
| `WorkersBroker` | pools, timers, kills, deployments and stop of `cloud-workers-broker.js`, with the process side of `cloud-worker.js` and the channels between them | – |
| `CloudMaster` | `cloud-master.js` over `messages-broker.js` and Redis | EXTENDS `WorkersBroker` |
| `ServerCodeModel` | the loader of `api/index.js` and the registry of `model/index.js` | – |
| `TaskExecutor` | one process and its tasks: `executor.js`, the executors, `processTask`, `descriptor.js`, and the decision of the publisher | EXTENDS `ServerCodeModel` |
| `TaskService` | abstract: the life of a task as the server sees it | – |
| `DebugSession` | `debug.js` with the setter of `messages-broker.js`, the requests of `api-server.js`, the session on the server and a clock | – |
| `Publisher` | `publisher.js`, `processPatterns` of `file.js`, the upload of `api-server.js`, `status-progress.js` and the server's log | – |
| `CommandLine` | `startRunner` of `clirunner.js` with the commands `debug` and `deploy`: composes the two modules above | EXTENDS `DebugSession`, `Publisher` |
| `JsonRefs` | `stringify` and `parse` of `json.js`, one call of the replacer or of a reviver at a time, used as `args.js` does | – |
| `MCWorkersBroker`, `MCCloudMaster`, `MCTaskExecutor`, `MCCommandLine`, `MCJsonRefs` | values of the constants and bounds for TLC | |
| `WorkersBrokerProofs` | type correctness, pools and counters; no process runs the code of two applications | EXTENDS `WorkersBroker`, TLAPS |
| `AnswerProofs` | answers and timers belong to the task of their worker; marked workers stay out of the cache; who is given a task; failed processes are not reused | EXTENDS `WorkersBrokerProofs` |
| `CloudMasterProofs` | the master implements the broker and the task service; slots of the intake; tasks are kept and answered at most twice | EXTENDS `CloudMaster`, `AnswerProofs` |
| `ServerCodeProofs` | loader and executor | EXTENDS `TaskExecutor`, TLAPS |
| `PublisherProofs`, `DebugSessionProofs` | the zip and the report; the lease and the stop of the session | EXTEND the module and TLAPS |
| `JsonProofs` | decoding gives back what was encoded; the text is stable | EXTENDS `JsonRefs`, TLAPS |
| `CommandLineProofs` | the commands implement the two runners and keep what is proved of them | EXTENDS `CommandLine` and both proof modules |

`CloudMaster` maps to `TaskService` by `TaskStatus` (`ImplementsTaskService`): a task
is *absent, queued, taken, running, answered, discarded* or *lost*.

**WorkersBroker.**  Everything the broker object and its worker records hold is the
record `broker`: `pool`, `place` (`worker.currentPlace`), `task`, `appId`, `appsLoad`,
`killed`, `toBeRemoved`, `expireTimer`, `idlingTimer`, `cluster` (`cluster.workers`),
`starting`, `ready` (an emitted READY event that has not been handled), `stopper`.
The methods are functions from one such record to the next (`RelocateWorker`,
`KillWorker`, `ProcessTask`, `Dispatch`, ...), composed the way the calls nest, so one
action is one whole handler.  `waiter[w]` is the continuation of a `getWorkerForTask`
that awaits the start of worker `w`.  `loop` holds the position of the two loops that
walk an array the loop body changes (`killAllAppWorkers`, the heartbeat); while one
is under way no other handler runs (`Idle`).  `proc`, `job`, `failed`, `pipe` are the
process side: its phase, its task, whether it has a critical error, its messages to the
master.  `exited` and `closed` are the two events of the cluster module.  `served[w]` is a
history variable: applications whose code the process has run.

A worker record and its process are one element of `Workers == 1 .. MaxForks`; the model
never reuses an id, as the cluster module does not.

Data that is abstracted: a task is a model value with its application (`AppOf`) and the
facts the code asks of it (`Cacheable`, `Timed`); time is not counted, a timer that is
armed may fire.  The heartbeat has no clock either: a worker may be found silent at any
check.

**CloudMaster.**  `request[c]` is the chain of promises in `taskRequests[c]`: it is
getting a task, pushing one back, has pushed it, or keeps the slot while its worker
starts.  A chain whose slot was given back early (`resetRequestBefore`) lives on in
`broker.waiter` only.  `reply[c]` is a task that BLPOP has removed from the list and
whose reply is on its way or, with compression, in `decompress()` (`OnCompressedReply`); `compressing`/`published`
count the results in `compress()` and those published.  The stop follows the code's order: getters are closed with the
replies on them, the broker waits for an empty busy pool, the setters quit after the
commands sent before.  A reply that was read before the stop does not depend on the getter any more: its task goes on to a
worker, as in the code (`StopMaster`).  A result that comes after the setters have quit is refused (`Publish`),
whether it was compressed or not.

Two simplifications go beyond data.  Sends to a process that is dead but whose channel is
open are lost without a trace, as in node; a send on a channel node has seen closing ends in
an `error` event nobody listens to, which would end the master, so the modelled behaviours
extend the real ones by what would have come after.  And the server sends each task once.

**ServerCodeModel.**  Server code is a program: for each file the statements that matter to
the loader (register something, require a file, under a `try` or not, throw).  `stack` is the call
stack of module bodies, `contexts` the array of the same name in `api/index.js`, `node` the cache of
`require`: a file that throws leaves it, a file that is being loaded is returned as it is.  `Unwind` is the
whole way of an exception out of one `require`: `finally` pops the context, the `require` of
`cloud-worker.js` calls `setCriticalError`, and at the bottom `load` adds the error to the model.  A body
that runs while there is no context (`IsLate`) was required by the code of a task after `load` had ended:
`contextGuarded` ignores what it registers, and the registrars of handlers, which are not guarded, throw.

**TaskExecutor.**  The behaviour starts in the publisher, which loads every file and either refuses or
writes the descriptor (`deployed`); then a fresh process is given tasks.  `phase` is where
`processTask` is; `GetModel`, the steps of the loader and `Invoke` are one turn of the event loop in the
code and nothing else interleaves with them in the model (`stack`, `phase`).  A descriptor that is missing or cannot be
read fails the task and is looked for again by the next one (`FailDescriptor`).  `FilesFor` is `getModelForFile`:
the files of the types for a new model, in any order, then the task's file.  The race of `executeTask` is
`Resolve`, `Reject` and `TimeOut` competing; the code of a task that lost goes on (`abandoned`), and code of any
task may require a file (`LateRequire`) or fail to (`FailLateRequire`) as long as the process lives.
`GoIdle` is the decision of the master, which `WorkersBroker` models on its side.  `allowEmpty`, debug mode and
the decoding of arguments are left out.

How the modules fit: `FinishTask`, `FailTask` and `ReportCriticalError` of `WorkersBroker` allow every result
and every critical error; `TaskExecutor` says which of them a task can have.

**DebugSession.**  `step` is the await `start()` is at and `stopper` the one `stop()` is at; `closer` is who called it
first, since a second caller does nothing (`stopped`).  `Signal` may come at every await, as the hook allows.
`StopBroker` is the rest of `super.stop()` once no worker is busy, in its three cases: no connection has been
made yet, the setter is not connected (a client that has sent nothing answers `quit()` at once), or QUIT is sent.
`wire` is the FIFO of the setter connection and `replies` its answers, in the order of the commands; a command behind
QUIT, or on a closed connection, is rejected.  `OnReply` arms the timer again whether the runner is stopped or not: that is
what the code does, and why `NoRenewalLeft` is worth stating.  `connecting` holds the Redis clients that are not ready;
`init` waits for all three, and `stopGetters` disconnects the getter for good, so a start that is stopped there never
goes on.  `session`, `age`, `renewed` are the key on the server; `Tick` is a clock that both the server's time to live and
the runner's timer follow.  `prompt` marks behaviours in which Redis and the event loop answer within a tick; the
lease can only be promised of them.  A renewal is answered, answered that the key is missing, or refused: when Redis answers with an
error or the connection is lost (`ServeExpire`, not in prompt behaviours), and behind QUIT (`ServeQuit`).  A QUIT that is
itself refused by a lost connection, which would make `stop()` reject, is not modelled.  `workers` says whether `initWorkersBroker` forked processes at once, which keep a
failed runner alive (`RunOut`).  A refused `unregisterRunner` makes `stop()` reject, which ends the process for both
callers.  `FinishTask` stands for the whole busy pool, and there is one task at a time: what `stop()` waits for is whether
there is any.

**Publisher.**  A directory is the path of packages that leads to it, so a nested copy of `q` in `p` is `<<p, q>>`.
`AddDependency` visits one name: the recursion of `addDependency` inside the `reduce` is depth first, so what is left is
one sequence, `todo`.  `ExpandPattern` is one turn of `processPatterns`: a pattern adds its matches or, with `!`,
takes them out.  Both run in one turn of the event loop; a signal is only seen in the phases of `Awaiting`, where the
runner has no `stop()` and the hook exits at once.  The status is polled by `LoadNextStatus` (the offset), `OnStatus` (the
page), `OnCheckInterval` (the wait); nobody waits for the promise of `loadNextStatus`, so a failed request
(`OnStatusLost`) leaves nothing pending and the process ends in silence.  The server writes its log at any time
until the message that says it has finished.  That this message is the last of the log is assumed of the server: the
client would poll for ever if it were not.

**CommandLine.**  `RunDebug` and `RunDeploy` are the steps of the two modules while their command runs; `agreed`
is a history variable, the prompts that were answered with yes.  Before the runner exists there is no hook and a signal
kills (`Kill`).

**JsonRefs.**  A heap is a function from objects to their properties in order.  JSON.stringify and JSON.parse are
walks, and each call of the functions given to them is a step: `Replace` is the replacer called with an object
(`WriteRoot`, `WriteObject`), which it sees before its properties; `Revive` begins the visit of the revivers to an object, which
they see after its properties, and the turns of the loop of `objectRefsReviver` are steps of their own (`MergeChain`,
`KeepReference`, `PushChain`), as are those of the second stage (`ResolveRef`).  What the library keeps between the calls are stacks: `writing` and
`reading`, the objects the walk is inside.  A text is a sequence of tokens, a date is known by its milliseconds, and an
object of the receiver by the place in the text where it begins.  The list of the dates of an object is a set: JSON
keeps the order in which `stringify` found them, and no reader looks at it, so texts that differ in it are one text here.
The revivers for dates and for references are only used when the text has their field; without it they change
nothing, so the model always applies them.  After decoding, `EncodeAgain` encodes once more, either the decoded objects or those of the sender,
whose dates the first encoding has turned into strings.  `trace` is a history variable for the proofs: for each token what `stringify` was
inside of and had seen.  `RoundTrip` excepts what cannot work in this encoding (`IsEncodable`): dates that are elements of an array,
whose list of dates JSON does not write, and a string that spells the milliseconds of a date of the same object; `KeyAssumption`
excepts properties with the names of the encoding and the empty name, which is taken for the root (section 5).

## 3. Runs

The instances of broker and master use at most two applications, three tasks and three processes.  That is enough
for every interaction of the code, which is between two workers (limit, eviction), two
tasks of one application (cache hit, rate limit), and two applications (isolation); the third
process exists to be forked after a kill.  A full cache evicts a worker in `master_faults`, where only one of the two tasks
leaves its process in the cache, and in `broker_cache`, where the idle worker that is started ahead takes up the forks, so
that it happens only to the tasks handed out after the stop.  `OneCrash` and `OneDeath` bound the deaths (one
suffices to lose a task and refill), `NoStop` takes the stop out of instances it would only enlarge,
`DeployBeforeDeath` keeps a deployment and a death from multiplying: these are constraints in the MC modules.  Bounds in the specification itself:
`MaxForks` (processes ever forked).  Deadlock is not checked since the system may stop (and
the instance ends when its forks are used up).

| Run | Instance | What it shows |
|---|---|---|
| `broker_cache` | 2 applications, 3 tasks, limit 2, cache of 1, timers, heartbeats, deployments, one death, the stop | pools and counters exact, one application per process, answers and timers belong to the task they name, marked workers stay out of the cache, a process that has failed gets no other task; all of it with processes that die with messages on the way |
| `master_intake` | two channels, a limit of three workers (so that a slot may be given back early) of which two are ever forked; outdated and unreadable tasks, compressed tasks and results, stop | the chain of a channel holds the task its state calls for and is freed by nobody else; the intake stays armed, slots match the chains, no readable task is lost, `idling` follows the answer |
| `master_faults` | crashes, kills, silent workers, a deployment, failing getters, rate limit, a cache of one that one task fills and the other evicts | at most two answers; the master implements `TaskService` |
| `master_liveness` | two channels, rate limit 1 per application, nothing fails | every task is answered; the intake stays armed, slots match the chains, pushed back tasks are kept |
| `executor` | 121 programs over two listed files and a required module (nested, cyclic, optional, late and failing requires; duplicates that are refused, caught, ignored, replaced), a handler, a service, an action and a `SHUTDOWN`, any sequence of them | the code that runs is what was deployed; registrations name the right file; failed models and timed-out code are not carried to the next task; a task with a timeout ends |
| `commands` | a debug session of 4 ticks renewed after 3; trees of four packages (flat, nested, hoisted; shared, cyclic and excluded dependencies) with and without `exclude`, and every combination of the other options; a log of 3 messages in pages of 2 | session, stop, zip, prompts and report as in section 1 |
| `json` | every graph of two objects or arrays with two properties, families of three and four | round trip; the text is stable, although encoding changes its argument; both sides encode again |
| `deploy`, `zombie`, `shutdown`, `rate_limit`, `dependencies` | smallest instances, the last one that of `commands` | see section 5 |

**Fairness** (`FairMasterSpec`).  Weak fairness of every reply of Redis, of every handler of
the event loop and of every worker process: libuv serves each ready event, and the executor's
own timeout ends a task whose code does not end.  No fairness is given to deployments, the stop,
crashes, kills or timers of the broker.  With fairness for these the property would hold for
the wrong reason.

`FairExecutorSpec`: weak fairness of the loader and of the executor's own steps, strong fairness of `TimeOut`,
since node serves a timer that is due whenever the event loop turns, and server code may take the loop away and
give it back for ever.  The code of a task owes nothing: `LimitedTaskEnds` excepts only code that holds the
loop (`blocked`), for which the broker has its own timer.

`CommandFairness`: weak fairness of the handlers of the debug runner, of the API server, of Redis, of tasks that end and of
time; of the steps of the deployment and of the server's answers.  Nothing makes a user start a command, answer or press
Ctrl-C, makes the server write its log, or prevents the failure of a request.  Deployments take no part in
`master_liveness`: when every process is killed again before it answers, nothing is ever answered, and only strong
fairness, which nothing in the code gives, would rule that out.

**Bounds of `commands`.**  4 and 3 ticks keep what matters of 60 and 45 seconds: one renewal in each life, with less than
an interval left behind it.  One page of two and one of one are enough for an error on an earlier page and for
a log that grows between pages; the theorems of section 4 hold for all of these numbers.

**Bounds of `json`.**  A merge of chains looks at a parent, one child and the siblings behind it; a reference at its
target, which may be above, beside or below.  Three objects give all of these, four a chain that is merged twice.

**Bounds of `executor`.**  Loading looks at one file, the one that required it and the process before it: two
listed files give every order of tasks, and a module that is not listed gives the failing, optional and late
requires.  Four tasks may come again and again, so their sequence is not bounded.

**Why `AtMostTwoAnswers` says two.**  `processTask` sends the result in its `try` block and
once more after it, so each success is published twice; the property is that nothing else adds
to that.

## 4. Proofs

`TypeCorrect` (`Spec => []TypeOK`), `PoolsAlwaysMatchPlaces` (`Spec => []PoolsMatchPlaces`) and
`AppsLoadAlwaysExact` (`Spec => []AppsLoadIsExact`) hold for all values of the constants that
satisfy the assumptions of `WorkersBroker`.

*Argument.*  `PoolsMatchPlaces` is not inductive by itself: a handler changes pools and
places in several steps, and `relocateWorker` removes a worker only from the pool its
`currentPlace` names.  The invariant is `Sound(b)`: the record is well typed, each worker is in
the pool of its place, once, and in no other (`Placed`), and each counter is the number of busy
workers of that application (`Counted`).  Lemmas show that each method keeps it
(`Moved...`, `Relocate...`, `Kill...`, `Process...`, `Dispatch...`).  The middle of methods needs
`PlacedExcept(b, w)`: `getWorkerForTask` pops a worker and moves it later; the lemma for
`RelocateWorker` starts from there.  `NextSound` has one step per action of `Next`.

Its second part proves `ProcessesStayIsolated` (`Spec => []OneAppPerProcess`) and `TasksGetFreshOrOwnCache`
(`Spec => FreshOrOwnCache`).  `OneAppPerProcess` says nothing of the workers that are about to be handed out, so the
invariant is `IInv`: *Isolated* is what each pool promises (an idle worker has run nothing, a cached one only its
`appId`'s code, a worker with a task only that of the task's application), and *Unspoilt* is why a worker that enters the
idle pool keeps the promise: until the master has read its one `started` message, nobody has placed it or given it a
task, although it may have been killed or died meanwhile, and a new process has a number no process had.  The
lemmas `...Keeps` show that each method and handler keeps `IInv`; `SoundInvariant` is what relates a pool to
the places of its workers.  TLC found no violation of `IInv` on the instance of `broker_cache` before it was proved.

`AnswerProofs` proves `AnswersAlwaysMatchTask` (`Spec => []AnswersMatchTask`), `TimersAlwaysBelongToTask` and `MarkedStayUncached`
(`Spec => MarkedNeverRecached`).  `AnswersMatchTask` is about messages and says nothing of the process that will send the next
one.  The invariant `Answering` adds that a process at work works on the task the broker has for it, and that `'idling'`
is the last message in the pipe of a process that has stopped working: so when the handler of `'idling'`, or the push-back of a task, clears
`worker.task`, no answer is behind it.  `Timely` is `TimerBelongsToTask` for each record a method passes through.
`OnlyGives` is what all methods but these two share: they give tasks and take none away, and they add nothing to the cache.

Its last part proves `ReuseAlwaysKept` (`Spec => ReusedOnlyIfKept`).  A process sends `'idling'` whether its task failed or
not, so it is the order of two messages that keeps a failed one from being reused.  The invariant `ReuseInv` says that a
process that has reported its error is marked or the error is still in its pipe (`Confessing`), and that a process that
waits without a task, unless it is new, has ended a cacheable one without an error (`Reusable`).  `Considerate` is
what each handler does to one worker: it clears no mark, reads an error only to mark the worker, and forgets a task only
with `'idling'` at the head of the pipe of an unmarked one; there `Answering` says that nothing else is in
the pipe (`ErrorFree`), so no error can be behind.  TLC found no violation of `ReuseInv` on the instance of `broker_cache` before it
was proved.

`CloudMasterProofs` proves `MasterImplementsBroker` (`MasterSpec => Spec`): each turn of the master is a step of `Next` or
leaves the broker and the processes alone, so every theorem about `Spec` holds of `MasterSpec`; `MasterKeepsIsolation` is
`OneAppPerProcess` there.  It also proves `MasterTypeCorrect`: beside the types, `MasterTypeOK` says that a chain holds a
reply only while it gets or decompresses one and a task to push back exactly while it pushes, which would be false if
the start of a worker freed a slot that had been given back and taken again.

`MasterImplementsService` (`MasterSpec => ImplementsTaskService`) is the refinement of `TaskService` under `TaskStatus`.
The status of a task is read from where it is, so a step serves only if no task is in two places: the invariant
`MasterAll` says that a task is in one stage of the intake (*OnePlace*: queue, reply, push-back, start or worker, in
no channel but its own, and a task with a result, or not yet arrived, in none), that the chain of a channel has one thing in hand and its slot is
taken by one starting worker exactly while it waits (*ChannelInv*), and what the broker and the processes keep
(`BrokerInvariant` of `AnswerProofs`: nothing is known of a process not yet forked, and a process that is gone is not
heard of again).  `GivenTo` and `Takes` say that one call of the broker gives one task to one free worker or to one new
process.  Most steps move one task and leave the others where they are or take them out of a stage (`Untouched`, `Shrinks`); the
lemmas `...Serves` show for each action that each status moves as `TaskService` allows.  `SlotsAlwaysMatchWaiters` follows from `ChannelInv`.

`AnswersNeverExceedTwo`, `IdleIsAlwaysAnswered` and `TasksAreAlwaysKept` add what is said of a task.  `Spoken` counts, for the
one worker a task is on, the answers published or in `compress`, those unread in the pipe and those the process may still send: at most two,
and at least one of the first two kinds before `'idling'`.  It is inductive because a worker is given a task with an empty pipe (`GivenSpeaks`),
by `IInv`, the task has no answer by `OnePlace`, and an answer is not taken back but by a stop, which is final
(`RunsKeepStop`).  A worker enters the cache only by the `'idling'` at the head of its pipe (`CachesIdling`), so its task was answered.
`TasksAreAlwaysKept` assumes `Faultless` (no failing getter; not compression together with the rate limit, see section 5): for
each action the task it is about is found in its next place, the others are untouched, and `'idling'`, which makes the
broker forget a task, finds it answered.  "On a worker" includes a worker that crashed with the task: what the master cannot answer is not dropped by its intake.

`IntakeIsAlwaysArmed` assumes no crashes and no heartbeat, and its proof shows what the wake-up of the intake rests on:
no process that boots is killed (`BootingSafe`: timers and marks are for workers that have been in a pool, see `Touches`), so
a task or a channel that waits for a start waits for one that comes (`Starting`); and whatever makes a worker free announces it
or gives the task to a new worker (`Arms`, `Settles`: the evicted, the killed and the reused alike), so a master that
has a free worker asks, is about to be told, or waits for a start (`Armed`).  With crashes the property is false: a process that
dies before `'started'` leaves `startNewWorker`, and the channel whose chain awaits it, waiting for ever.

`ServerCodeProofs` proves `ExecutorTypesCorrect`, `ProvidersAlwaysAuthors`, `FailedModelNeverReused`,
`AbandonedCodeAlwaysAlone`, `CodeAlwaysRunsAsDeployed` and `DeployedCodeAlwaysFound` of `ExecutorSpec`, for every program
(finitely many files) and every set of tasks.  None is inductive.  `InContext` says that while files are loaded the contexts are the files of the stack, and
`RegisteredByAuthor` that a registration is therefore made by the file named uppermost; `LoaderStep` keeps it through
each step of the loader and shows that errors are added only while there are contexts and never without
`setCriticalError`.  `FailuresAreReported` carries that to the end of the task: a failure is critical when it happens, in
the answer when it is sent, and so the process is not given another task.

The last two are about files that were read for other tasks, in another order than the deployment's.  `ReadInv` holds of every model while files are
loaded: a file that is loaded has made all its registrations, unless an error is left or the code of a task required it
(`RegistrationsStand`), each body under the uppermost waits in a require for the one above it (`StackOrder`), and what
a body has passed is in effect.  Nothing takes a registration back, and what makes no change is refused or
replaces the registration by another of its name: an exclusive name therefore keeps the first file that registered it
(`ProvidersStay`).  `Deployment` says this of the deployed model, which was loaded without error; `FileIsRead`, that when
the code of a task is about to run, the file the deployment named for it was read, unless it failed.  So the process has
the name, and from that file when the name is exclusive: another file that had registered it first would have made
that file fail.  A late require is the only way around.

`PublisherProofs` proves `ZipAlwaysExact` (`PublishSpec => []ZipIsExact`) and `ReportAlwaysTrue`.  `ZipIsExact` says what is
needed by node's own rule, which looks a package up from the directory that asks for it (`Lookup`, `NeededDirs`); the code
only reads `package.json` files at the root of `node_modules`.  What the code finds is the least set `Reached` of
the proofs: the invariant says that everything in `out` and
`todo` is in it or excluded, and that whatever a package in `out` needs is in `out`, in `todo` or excluded; when `todo` is
empty, `out` is closed, and so it is the least set.  When no package has a `node_modules` of its own, both least sets are the
same (`FlatReachedIsNeeded`, `FlatNeededIsReached`); for nested trees they differ, the theorem says nothing of which packages
are in the zip, and the run `dependencies` shows one that is missing (section 5).  While the patterns are expanded, `archive` is what
the patterns so far make of the files: the base patterns, then the packages, then the exclusions.  For the report: what is shown is the log up to
`loaded`, a page continues it, `failed` says whether an error was shown, and nothing is read behind the end.

`DebugSessionProofs` proves `LeaseAlwaysHeld`, `NeverRenewalLeft` and `KnownSessionAlwaysUnregistered` of `DebugSpec`, for every time
to live and every shorter renewal interval, and `OneRenewalAlways`: there is one chain of renewals, never a timer beside a
renewal under way, which is what `CommandTypeOK` says beyond the types.  The invariant `DebugInv` has six parts: what `start()` and `stop()` can have
reached together (`Shape`), that nothing renews before all clients are ready (`Quiet`), what a stop that has returned
has left behind (`Settled`), that only refusals follow the reply to QUIT (`Closing`), that until the connection closes at most
one renewal is in the timer, on the wire or answered (`OneRenewal`), and that in a prompt system the age of the session and
what is left of the interval stay within that interval (`Lease`).

`CommandLineProofs` proves `CommandsImplementRunners` (`CommandSpec => DebugSpec /\ PublishSpec`): each turn of the command
line is a step of one of the two or leaves it alone.  So all the theorems above hold of the commands
(`CommandsKeepGuarantees`), and `UploadAlwaysAgreed` adds what only the composition can say.

`JsonProofs` proves `AlwaysRoundTrip` (`Spec => []RoundTrip`) and `AlwaysStableText` (`Spec => []StableText`) of `JsonRefs`, for every set of
graphs, of any size and shape.  `stringify` and `parse` recurse over their data, and induction over data is out of the prover's
reach; as steps of a machine they need an invariant instead.  It is `Inv`, one part for each `step`:

* *What was written* (`Written`): each token is one that may follow the stack and the objects seen before it (`Continues`), and
  leads to those behind it.  All that is said of a text follows from this by looking at neighbouring places; the lemmas `JCounts`, `JMoves`, `JToken`
  say that what is seen only grows, that a stack only changes at its top, and which token belongs to which property.
* *What was read* (`ReadingOK`): at each place of the text, `parse` is inside the objects `stringify` was inside of there
  (`Path`); each object has the properties that were written up to there, and its dates are strings until it is closed
  (`ObjectOK`); each chain begins with the child it was begun for and goes on with the objects in the order in which they
  were seen, up to where the next chain begins (`ChainsOK`); and each property that holds a reference is in `refs` once its object was visited.
  That a child's chain goes behind the head, before the siblings after it, is what the merge lemmas rest on
  (`JMerge`): with the last chain first, its objects come next in the order of `stringify`.
* *What is resolved* (`ResolvingOK`): one chain is left and lists all objects as they were seen (`JOneChain`), so entry *n* of it
  is what `stringify` called *n* (`JTarget`), and a property without its reference is the object it had (`JFilled`).
* *What is decoded*: when no reference is left, taking each object of the sender to the place where it was first written is one to one, and
  what it does to the properties is `RoundTrip` (`JBack`).
* *What is written again* (`RewritingOK`): the second text is the first one up to where it has come, and the second walk is the
  image of the first under a renaming of the objects (`JReceiver` and `JSender` give it, `JAgain` keeps it), since an object
  that is resolved twice is encoded as it was once (`JAlikeTwice`).

*From TLC only.*  The temporal properties that need fairness, which the prover cannot unfold (ENABLED): `EveryTaskIsAnswered`,
`LimitedTaskEnds`, `SessionLossIsNoticed`, `SignalEndsRunner` and `EndIsReported`.

## 5. Disagreements between code and documentation

Each has a run that finds a counterexample.

* `deploy`: `killAllAppWorkers` walks `cachedWorkers` with `forEach` while `killWorker` splices it:
  every second cached worker of the application survives a deployment with old code.
* `zombie`: the timer kills a worker whose `'idling'` is on its way; the handler puts the dead worker
  into the cache.
* `shutdown`: the stop waits for the busy pool; a worker that is starting is in no pool, so the process exits while a task it has
  taken waits for that worker, although the CHANGELOG says that it waits for all the taken tasks.
* `rate_limit`: an action has no `worker.appId`, so it is counted under `undefined`.
* `dependencies`: `addDependency` reads `package.json` files at the root level of `node_modules` only; a package that
  only a nested copy needs is left out of the zip, though CHANGELOG and Troubleshooting say that all
  non-dev dependencies are included.

Seen while modelling, and kept out of the runs: the cached pool may exceed `cache.limit`, since
`onWorkerIdling` adds without a check and only a fork makes room; after the only process was killed, no
idle worker is started, because the killed one still counts and its exit does not call
`keepMinIdleWorkersCount`; the busy pool may exceed `concurrent` by the task of the second channel, whose
request was made when more workers were free, and from a limit of three on by every task that waits for a starting worker
whose slot was given back early, since all of them become busy when their workers report; with compression on, `pushTaskBack` hands an object to `compress`,
which rejects, and the rate limited task is neither queued nor run (`TasksAreKept` has the instances without that
combination).

A worker that dies before it has sent `'started'` leaves its task, `startingWorkersCount` and the slot of its channel taken for
ever; no property states otherwise.  A result that is in `compress()` when the setters quit is lost.

In the commands: a signal while `registerRunner` is under way leaves the session registered on the server, since `stop()`
does not know it yet; a start that fails after `initWorkersBroker` forked processes leaves them running, and as the runner is
stopped the hook ignores Ctrl-C, so only a stronger signal ends it (the comment at `cloud-worker.js:142` expects the master
to end its workers); `MessagesBroker` never emits the `error` on which `exitOnErrorInMessageBroker` would stop the
session; `stopSetters` quits the setter and leaves the subscriber connected; a file of the project named
`model.json` takes the place of the descriptor in the zip, which is written first.
In `json.js`, a property with an empty name is taken for the root, and references are then resolved too early.

In the executor: an async handler that succeeds is answered with an error when `responseSizeLimit` is set, because
its result `undefined` has no `length` (`executor.js:275`); services with `duplicateStrategy` *ignore* or *replace* run
the code of whichever file the process read first or last, which depends on its tasks (`RunsAsDeployed` claims nothing of
their names, `IsExclusive`); a file that the code of a task requires has its registrations ignored, and when another file
has registered the same name, was refused by the deployment and caught the refusal, that registration now succeeds and
the process runs its code instead; a service whose file the code of a task required is reported as not existing
for the life of the process (`DeployedCodeIsFound` says this is the only way); a project with an optional require of a
module that fails is published, because only errors that reach `load` count, but its worker is killed after every task
that reads the file, because `setCriticalError` was called.

## 6. What is not modelled

Wording, logs, statistics and the management server have no state the properties depend on.  How options are read and
completed (`options.js`, `env.js`, `program.js`, `app.js`) is left out: the commands see an error or the options.  JSDoc and XML
generation are text processing.  The facade of `persistence-item.js` maps calls of application code to requests;
`events.js` is a table.  To the executor, the decoding of arguments, the wrapping of results, the definitions of
classes (JSDoc) and configuration items are data.  Of `json.js`, the mapping of classes is left out; of the publisher, directories as entries, `keepZip`,
and the text of patterns.

## 7. Plan

1. `WorkersBroker`, `CloudMaster`, `TaskService` with their runs (done).
2. Type correctness, pools and counters proved (done).
3. `ServerCodeModel` and `TaskExecutor`: loading, registration, the race with the timeout, with the proofs of
   `ServerCodeProofs` (done).
4. Proofs of isolation (`OneAppPerProcess`, `FreshOrOwnCache`) over the invariant of the pools, and
   `MasterSpec => Spec` (done).
5. `DebugSession`, `Publisher`, `CommandLine` with their proofs, `JsonRefs` (done).
6. `AnswersMatchTask`, `TimerBelongsToTask`, `MarkedNeverRecached` and `ReusedOnlyIfKept` as theorems of `AnswerProofs` (done).  
   `ImplementsTaskService` and `SlotsMatchWaiters` as theorems of `CloudMasterProofs` (done), and
   `AtMostTwoAnswers`, `IdleMeansAnswered`, `TasksAreKept`, `IntakeIsArmed` (done); `RunsAsDeployed` and
   `DeployedCodeIsFound` as theorems of `ServerCodeProofs`, `RoundTrip` and `StableText` as theorems of `JsonProofs` (done).
7. The mapping of classes in `json.js`, and `service-descriptor.js` as the source of what `Kinds` registers.
