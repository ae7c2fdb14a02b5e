--------------------------- MODULE WorkersBroker ---------------------------
(***************************************************************************)
(* The pools of worker processes of the cloud code runner:                 *)
(* lib/server-code/runners/cloud-workers-broker.js and the message         *)
(* protocol that lib/server-code/runners/cloud-worker.js speaks with it.   *)
(*                                                                         *)
(* The master is one event loop.  A method of the class WorkersBroker is   *)
(* an operator from the broker's state to its next state, so that a call   *)
(* nested in a handler is a nested operator; a handler (one turn of the    *)
(* event loop with its microtasks) is an action.  The workers run in       *)
(* parallel with the master and write to one FIFO pipe each.               *)
(*                                                                         *)
(* Who asks for workers is left open: any task may arrive at any time, so  *)
(* what holds here holds under every intake policy.  CloudMaster adds the  *)
(* policy of the code.                                                     *)
(***************************************************************************)
EXTENDS Integers, Sequences, FiniteSets

CONSTANTS
  Apps,             \* applications
  NoApp,            \* worker.appId === undefined
  Tasks,            \* tasks the server may hand over
  NoTask,           \* worker.task === undefined
  AppOf,            \* task.applicationId
  Cacheable,        \* tasks that run an event handler (RMI) or a service (RSI)
  Timed,            \* tasks with a truthy task.timeout
  ConcurrentLimit,  \* options.concurrent
  MinIdleOption,    \* options.minIdle, as configured
  CacheLimit,       \* options.cache.limit; 0: no cache
  CachedIdleTTL,    \* is options.cachedIdleTTL set?
  Heartbeat,        \* options.heartbeat.enabled
  Crashes,          \* may worker processes die on their own?
  Deployed,         \* applications whose code is deployed while the master runs
  MaxForks          \* bound: processes forked in a behaviour

ASSUME SentinelAssumption == NoApp \notin Apps /\ NoTask \notin Tasks
ASSUME TaskAssumption ==
  /\ AppOf \in [Tasks -> Apps] /\ Cacheable \subseteq Tasks /\ Timed \subseteq Tasks
  /\ Deployed \subseteq Apps
ASSUME OptionsAssumption ==
  /\ ConcurrentLimit \in Nat \ {0} /\ MinIdleOption \in Int
  /\ CacheLimit \in Nat /\ MaxForks \in Nat
  /\ CachedIdleTTL \in BOOLEAN /\ Heartbeat \in BOOLEAN /\ Crashes \in BOOLEAN

VARIABLES
  broker,   \* the fields of the WorkersBroker and of its worker objects
  loop,     \* the forEach the master is in the middle of, if any
  proc,     \* proc[w]: where process w is in cloud-worker.js
  job,      \* job[w]: the task process w received last
  failed,   \* processes whose module variable criticalError was set at the end of a task
  pipe,     \* pipe[w]: messages from process w that the master has not read
  exited,   \* processes whose 'exit' event the master has handled
  closed,   \* processes whose IPC channel the master has seen close
  served    \* history, served[w]: applications whose code process w has run

processes == <<proc, job, failed, pipe, exited, closed, served>>
vars == <<broker, loop, processes>>

Workers == 1 .. MaxForks          \* node numbers cluster workers from 1
Pools == {"idle", "cached", "busy"}
Places == Pools \cup {"none"}     \* worker.currentPlace

MinOf(a, b) == IF a <= b THEN a ELSE b
MaxOf(a, b) == IF a >= b THEN a ELSE b

MinIdleWorkersCount == MinOf(MaxOf(MinIdleOption, 0), ConcurrentLimit)
IsCacheEnabled == CacheLimit > 0
\* Mutant of IsKept: actions are cached too
IsKeptAlways(t) == IsCacheEnabled
\* processTask clears task.cacheable when there is no cache
IsKept(t) == IsCacheEnabled /\ t \in Cacheable

----------------------------------------------------------------------------
(* Methods that start workers                                              *)

\* cluster.fork, count times; the processes boot on their own
Fork(b, count) ==
  [b EXCEPT !.forks = @ + count,
            !.starting = @ + count,
            !.cluster = @ \cup ((b.forks + 1) .. (b.forks + count))]

\* startNewWorker awaited by getWorkerForTask(t)
StartWorkerFor(b, t) ==
  [Fork(b, 1) EXCEPT !.waiter = [w \in Workers |-> IF w = b.forks + 1 THEN t ELSE @[w]]]

KeepMinIdleWorkersCount(b) ==
  LET wanting  == MinIdleWorkersCount - Len(b.pool["idle"])
      allowed  == ConcurrentLimit - Cardinality(b.cluster)
      required == MinOf(wanting, allowed) - b.starting
  IN  IF required > 0 THEN Fork(b, required) ELSE b

----------------------------------------------------------------------------
(* relocateWorker and killWorker                                           *)

IsAvailableForTask(b) == b.stopper = "none" /\ Len(b.pool["busy"]) < ConcurrentLimit

\* splice(indexOf(w), 1)
Without(s, w) ==
  IF \E i \in DOMAIN s : s[i] = w
  THEN LET i == CHOOSE i \in DOMAIN s : s[i] = w
       IN  SubSeq(s, 1, i - 1) \o SubSeq(s, i + 1, Len(s))
  ELSE s

\* Mutant of MovedWorker: the pool the worker comes from is forgotten
MovedWorkerCopied(b, w, to) ==
  [b EXCEPT !.place[w] = to,
            !.pool = [p \in Pools |-> IF p = to THEN <<w>> \o @[p] ELSE @[p]]]

\* The splice and the unshift, with the idling timer of a cached worker
MovedWorker(b, w, to) ==
  LET from == b.place[w]
      left == [p \in Pools |-> IF p = from THEN Without(b.pool[p], w) ELSE b.pool[p]]
  IN  [b EXCEPT !.place[w] = to,
                !.pool = [p \in Pools |-> IF p = to THEN <<w>> \o left[p] ELSE left[p]],
                !.idlingTimer = IF to = "cached"
                                THEN IF CachedIdleTTL THEN @ \cup {w} ELSE @
                                ELSE IF from = "cached" THEN @ \ {w} ELSE @]

\* The part under `if (fromBusyWorkers || toBusyWorkers)`, after the move
CountedWorker(b, w, to) ==
  [b EXCEPT !.appsLoad[b.appId[w]] = @ + (IF to = "busy" THEN 1 ELSE -1),
            !.stopper = IF @ = "waiting" /\ b.pool["busy"] = <<>> THEN "done" ELSE @,
            !.ready = @ \/ IsAvailableForTask(b)]

RelocateWorker(b, w, to) ==
  LET from    == b.place[w]
      busy    == "busy" \in {from, to}
      moved   == MovedWorker(b, w, to)
      counted == IF busy THEN CountedWorker(moved, w, to) ELSE moved
  IN  IF b.stopper = "none" /\ (from = "idle" \/ busy)
      THEN KeepMinIdleWorkersCount(counted)
      ELSE counted

KillWorker(b, w) == [RelocateWorker(b, w, "none") EXCEPT !.killed = @ \cup {w}]

----------------------------------------------------------------------------
(* getWorkerForTask and processTask                                        *)

\* Mutant of ProcessTask: the worker gets its appId after it was counted
ProcessTaskNamingLate(b, t, w) ==
  [RelocateWorker([b EXCEPT !.task[w] = t], w, "busy") EXCEPT !.appId[w] = AppOf[t]]

ProcessTask(b, t, w) ==
  RelocateWorker([b EXCEPT !.expireTimer = IF t \in Timed THEN @ \cup {w} ELSE @,
                           !.task[w] = t], w, "busy")

\* Mutant of CachedFor: a cached worker of any application will do
CachedForAnyApp(b, t) == IF IsKept(t) THEN DOMAIN b.pool["cached"] ELSE {}

CachedFor(b, t) ==
  IF IsKept(t)
  THEN {i \in DOMAIN b.pool["cached"] : b.appId[b.pool["cached"][i]] = AppOf[t]}
  ELSE {}

\* idleWorkers.pop()
PopIdle(b, t) ==
  LET idle == b.pool["idle"]
      w    == idle[Len(idle)]
  IN  [b EXCEPT !.pool["idle"] = SubSeq(idle, 1, Len(idle) - 1),
                !.appId[w] = IF t \in Cacheable THEN AppOf[t] ELSE @]

\* cachedWorkers.pop() and killWorker, when the cached pool is full
EvictLeastActive(b) ==
  LET cached == b.pool["cached"]
  IN  IF IsCacheEnabled /\ CacheLimit <= Len(cached)
      THEN KillWorker([b EXCEPT !.pool["cached"] = SubSeq(cached, 1, Len(cached) - 1)],
                      cached[Len(cached)])
      ELSE b

\* getWorkerForTask(t), and processTask at once when it finds a worker: there
\* is nothing between the two but microtasks
Dispatch(b, t) ==
  LET cached == b.pool["cached"]
      idle   == b.pool["idle"]
      hits   == CachedFor(b, t)
  IN  IF hits # {} THEN
        ProcessTask(b, t, cached[CHOOSE i \in hits : \A j \in hits : i <= j])
      ELSE IF idle # <<>> THEN
        ProcessTask(PopIdle(b, t), t, idle[Len(idle)])
      ELSE StartWorkerFor(EvictLeastActive(b), t)

----------------------------------------------------------------------------
(* Initial state: the constructor has run                                  *)

NoLoop == [of |-> "none"]

NewBroker ==
  [forks |-> 0, starting |-> 0, cluster |-> {},
   pool |-> [p \in Pools |-> <<>>],
   place |-> [w \in Workers |-> "none"],
   appId |-> [w \in Workers |-> NoApp],
   task |-> [w \in Workers |-> NoTask],
   waiter |-> [w \in Workers |-> NoTask],
   killed |-> {}, toBeRemoved |-> {}, expireTimer |-> {}, idlingTimer |-> {},
   appsLoad |-> [a \in Apps \cup {NoApp} |-> 0],
   stopper |-> "none", ready |-> FALSE]

Init ==
  /\ broker = KeepMinIdleWorkersCount(NewBroker)
  /\ broker.forks <= MaxForks
  /\ loop = NoLoop
  /\ proc = [w \in Workers |-> IF w \in broker.cluster THEN "booting" ELSE "none"]
  /\ job = [w \in Workers |-> NoTask]
  /\ failed = {}
  /\ pipe = [w \in Workers |-> <<>>]
  /\ exited = {} /\ closed = {}
  /\ served = [w \in Workers |-> {}]

----------------------------------------------------------------------------
(* The master's handlers                                                   *)

\* The processes a handler hands a task to; a message to a dead one is lost
Delivered(b) ==
  {w \in Workers : proc[w] = "waiting" /\ broker.task[w] = NoTask /\ b.task[w] # NoTask}

\* What the calls of a handler do outside the master: fork, SIGKILL, send
Handled(b) ==
  /\ b.forks <= MaxForks
  /\ broker' = b
  /\ proc' = [w \in Workers |->
                CASE w \in b.killed -> "dead"
                  [] w \in b.cluster \ broker.cluster -> "booting"
                  [] w \in Delivered(b) -> "running"
                  [] OTHER -> proc[w]]
  /\ job' = [w \in Workers |-> IF w \in Delivered(b) THEN b.task[w] ELSE job[w]]
  /\ served' = [w \in Workers |-> IF w \in Delivered(b)
                                  THEN served[w] \cup {AppOf[b.task[w]]}
                                  ELSE served[w]]

\* The event loop takes the next event only when no forEach is under way
Idle == loop = NoLoop

GetWorkerForTask(t) ==
  /\ Idle
  /\ Handled(Dispatch(broker, t))
  /\ UNCHANGED <<loop, failed, pipe, exited, closed>>

Read(w, type) == pipe[w] # <<>> /\ Head(pipe[w]).type = type

OnMessage(w, type, b) ==
  /\ Idle
  /\ Read(w, type)
  /\ pipe' = [pipe EXCEPT ![w] = Tail(@)]
  /\ Handled(b)
  /\ UNCHANGED <<loop, failed, exited, closed>>

\* startNewWorker resumes, and after it the getWorkerForTask that awaits it
OnWorkerStarted(w) ==
  LET idle    == RelocateWorker(broker, w, "idle")
      started == [idle EXCEPT !.starting = @ - 1, !.waiter[w] = NoTask]
      t       == broker.waiter[w]
  IN  OnMessage(w, "started", IF t = NoTask THEN started ELSE Dispatch(started, t))

\* Mutant of OnWorkerTaskProcessed: the first answer forgets the task
OnWorkerTaskProcessedForgetting(w) ==
  OnMessage(w, "processed", [broker EXCEPT !.task[w] = NoTask])

\* TASK_PROCESSED is emitted: CloudMaster.onTaskProcessed publishes the result
OnWorkerTaskProcessed(w) == OnMessage(w, "processed", broker)

\* Mutant of OnWorkerCriticalError: the error is logged
OnWorkerCriticalErrorLogged(w) == OnMessage(w, "criticalError", broker)

OnWorkerCriticalError(w) ==
  OnMessage(w, "criticalError", [broker EXCEPT !.toBeRemoved = @ \cup {w}])

\* Mutants of OnWorkerIdling: marks are ignored; the timer goes on
OnWorkerIdlingMarked(w) ==
  OnMessage(w, "idling",
    RelocateWorker([broker EXCEPT !.task[w] = NoTask, !.expireTimer = @ \ {w}], w, "cached"))
OnWorkerIdlingArmed(w) ==
  OnMessage(w, "idling",
    IF IsKept(broker.task[w])
    THEN RelocateWorker([broker EXCEPT !.task[w] = NoTask], w, "cached")
    ELSE KillWorker(broker, w))

OnWorkerIdling(w) ==
  LET t    == broker.task[w]
      kept == t # NoTask /\ IsKept(t) /\ w \notin broker.toBeRemoved
  IN  OnMessage(w, "idling",
        IF kept
        THEN RelocateWorker([broker EXCEPT !.task[w] = NoTask,
                                           !.expireTimer = @ \ {w}], w, "cached")
        ELSE KillWorker(broker, w))

\* cluster 'exit'; node drops the worker from cluster.workers once it has both
\* exited and disconnected
OnWorkerExit(w) ==
  LET left == [broker EXCEPT !.cluster = IF w \in closed THEN @ \ {w} ELSE @,
                             !.expireTimer = @ \ {w}]
  IN  /\ Idle
      /\ proc[w] = "dead" /\ w \notin exited
      /\ exited' = exited \cup {w}
      /\ Handled(IF w \in broker.killed THEN left ELSE RelocateWorker(left, w, "none"))
      /\ UNCHANGED <<loop, failed, pipe, closed>>

OnDisconnect(w) ==
  /\ Idle
  /\ proc[w] = "dead" /\ pipe[w] = <<>> /\ w \notin closed
  /\ closed' = closed \cup {w}
  /\ Handled([broker EXCEPT !.cluster = IF w \in exited THEN @ \ {w} ELSE @])
  /\ UNCHANGED <<loop, failed, pipe, exited>>

OnExpirationTimer(w) ==
  /\ Idle
  /\ w \in broker.expireTimer
  /\ Handled(KillWorker([broker EXCEPT !.expireTimer = @ \ {w}], w))
  /\ UNCHANGED <<loop, failed, pipe, exited, closed>>

OnIdlingTimer(w) ==
  /\ Idle
  /\ w \in broker.idlingTimer
  /\ Len(broker.pool["cached"]) > MinIdleWorkersCount
  /\ Handled(KillWorker(broker, w))
  /\ UNCHANGED <<loop, failed, pipe, exited, closed>>

----------------------------------------------------------------------------
(* Two handlers loop over workers and change the pools under the loop.     *)
(* Each turn of the loop is a step, and no other handler runs before the   *)
(* last one; the worker processes do.                                      *)

Loop(b, l) ==
  /\ Handled(b)
  /\ loop' = l
  /\ UNCHANGED <<failed, pipe, exited, closed>>

\* The interval of startWorkersHeartbeatTimer
OnHeartbeatTimer ==
  /\ Idle /\ Heartbeat
  /\ Loop(broker, [of |-> "heartbeat", rest |-> broker.cluster])

\* The next worker whose last ping is too old; those before it are on time
KillExpiredWorker(w) ==
  /\ loop.of = "heartbeat" /\ w \in loop.rest
  /\ Loop(KillWorker(broker, w),
          [loop EXCEPT !.rest = {v \in loop.rest : v > w}])

EndHeartbeat == loop.of = "heartbeat" /\ Loop(broker, NoLoop)

\* Mutant of KillAllAppWorkers: the loop starts at index -1
KillAllAppWorkersEarly(a) ==
  /\ Idle /\ a \in Deployed
  /\ Loop(broker, [of |-> "deploy", app |-> a, at |-> 0, len |-> Len(broker.pool["cached"])])

\* killAllAppWorkers marks the workers, then walks the array it splices
KillAllAppWorkers(a) ==
  /\ Idle /\ a \in Deployed
  /\ Loop([broker EXCEPT !.toBeRemoved = @ \cup {w \in broker.cluster : broker.appId[w] = a}],
          [of |-> "deploy", app |-> a, at |-> 1, len |-> Len(broker.pool["cached"])])

VisitCachedWorker ==
  LET cached == broker.pool["cached"]
      next   == [loop EXCEPT !.at = @ + 1]
  IN  /\ loop.of = "deploy" /\ loop.at <= loop.len
      /\ IF loop.at <= Len(cached) /\ broker.appId[cached[loop.at]] = loop.app
         THEN Loop(KillWorker(broker, cached[loop.at]), next)
         ELSE Loop(broker, next)

EndDeploy == loop.of = "deploy" /\ loop.at > loop.len /\ Loop(broker, NoLoop)

----------------------------------------------------------------------------
(* stop, and the READY_FOR_NEXT_TASK of the check phase                    *)

Stop ==
  /\ Idle /\ broker.stopper = "none"
  /\ Handled([broker EXCEPT !.stopper = IF broker.pool["busy"] = <<>> THEN "done"
                                        ELSE "waiting"])
  /\ UNCHANGED <<loop, failed, pipe, exited, closed>>

EmitReady ==
  /\ Idle /\ broker.ready
  /\ Handled([broker EXCEPT !.ready = FALSE])
  /\ UNCHANGED <<loop, failed, pipe, exited, closed>>

----------------------------------------------------------------------------
(* The worker processes: cloud-worker.js                                   *)

Send(w, type, next) ==
  /\ pipe' = [pipe EXCEPT ![w] = Append(@, [type |-> type, task |-> job[w]])]
  /\ proc' = [proc EXCEPT ![w] = next]
  /\ UNCHANGED <<broker, loop, job, exited, closed, served>>

Boot(w) == proc[w] = "booting" /\ Send(w, "started", "waiting") /\ UNCHANGED failed

\* The task ends with a result; a task that timed out, or a module that could
\* not be loaded, leaves a critical error behind, and so may code of an earlier
\* task, which went on while the process waited
FinishTask(w) ==
  /\ proc[w] = "running"
  /\ Send(w, "processed", "processed")
  /\ failed' \in {failed, failed \cup {w}}

\* processTask itself throws: the only answer is the one sent after the catch
FailTask(w) ==
  /\ proc[w] = "running"
  /\ Send(w, "processed", "answered")
  /\ failed' = failed \cup {w}

\* Mutant of RepeatResult: the result is sent again and again
RepeatResultForever(w) ==
  /\ proc[w] = "processed"
  /\ \E next \in {"processed", "answered"} : Send(w, "processed", next)
  /\ UNCHANGED failed

\* The result is sent once more after the try
RepeatResult(w) ==
  /\ proc[w] = "processed"
  /\ Send(w, "processed", "answered")
  /\ UNCHANGED failed

ReportCriticalError(w) ==
  /\ proc[w] = "answered" /\ w \in failed
  /\ Send(w, "criticalError", "flushing")
  /\ UNCHANGED failed

\* Mutant of ReportIdling: the process idles before it answers
ReportIdlingEarly(w) ==
  /\ proc[w] \in {"running", "answered", "flushing"}
  /\ Send(w, "idling", "waiting")
  /\ UNCHANGED failed

ReportIdling(w) ==
  /\ \/ proc[w] = "flushing"
     \/ proc[w] = "answered" /\ w \notin failed
  /\ Send(w, "idling", "waiting")
  /\ UNCHANGED failed

\* A process dies on its own: out of memory, process.exit in the code of an
\* application, a SHUTDOWN task
Crash(w) ==
  /\ Crashes
  /\ proc[w] \notin {"none", "dead"}
  /\ proc' = [proc EXCEPT ![w] = "dead"]
  /\ UNCHANGED <<broker, loop, job, failed, pipe, exited, closed, served>>

RunWorker(w) ==
  \/ Boot(w) \/ FinishTask(w) \/ FailTask(w) \/ RepeatResult(w)
  \/ ReportCriticalError(w) \/ ReportIdling(w)

----------------------------------------------------------------------------

\* Every handler of the master whose worker is w
OnWorkerEvent(w) ==
  \/ OnWorkerStarted(w) \/ OnWorkerTaskProcessed(w) \/ OnWorkerCriticalError(w)
  \/ OnWorkerIdling(w) \/ OnWorkerExit(w) \/ OnDisconnect(w)

Next ==
  \/ \E t \in Tasks : GetWorkerForTask(t)
  \/ \E w \in Workers : \/ OnWorkerEvent(w) \/ RunWorker(w) \/ Crash(w)
                        \/ OnExpirationTimer(w) \/ OnIdlingTimer(w)
                        \/ KillExpiredWorker(w)
  \/ OnHeartbeatTimer \/ EndHeartbeat
  \/ \E a \in Apps : KillAllAppWorkers(a)
  \/ VisitCachedWorker \/ EndDeploy
  \/ Stop \/ EmitReady

Spec == Init /\ [][Next]_vars

----------------------------------------------------------------------------
(* Properties                                                              *)

MessageTypes == {"started", "processed", "criticalError", "idling"}
ProcStates ==
  {"none", "booting", "waiting", "running", "processed", "answered", "flushing", "dead"}

BrokerType ==
  [forks : Nat, starting : Int, cluster : SUBSET Nat,
   pool : [Pools -> Seq(Workers)],
   place : [Workers -> Places],
   appId : [Workers -> Apps \cup {NoApp}],
   task : [Workers -> Tasks \cup {NoTask}],
   waiter : [Workers -> Tasks \cup {NoTask}],
   killed : SUBSET Workers, toBeRemoved : SUBSET Workers,
   expireTimer : SUBSET Workers, idlingTimer : SUBSET Workers,
   appsLoad : [Apps \cup {NoApp} -> Int],
   stopper : {"none", "waiting", "done"}, ready : BOOLEAN]

LoopType ==
  {NoLoop} \cup [of : {"heartbeat"}, rest : SUBSET Workers]
           \cup [of : {"deploy"}, app : Apps, at : Nat \ {0}, len : Nat]

\* Every variable keeps its type: the sets of cluster ids, the three pools and
\* the per-worker fields the class WorkersBroker attaches to its workers.
TypeOK ==
  /\ broker \in BrokerType
  /\ broker.forks <= MaxForks /\ broker.cluster \subseteq 1 .. broker.forks
  /\ loop \in LoopType
  /\ proc \in [Workers -> ProcStates]
  /\ job \in [Workers -> Tasks \cup {NoTask}]
  /\ pipe \in [Workers -> Seq([type : MessageTypes, task : Tasks \cup {NoTask}])]
  /\ failed \in SUBSET Workers /\ exited \in SUBSET Workers /\ closed \in SUBSET Workers
  /\ served \in [Workers -> SUBSET Apps]

\* A worker is in the pool its currentPlace names, in no other one and once:
\* idleWorkers.pop and cachedWorkers.pop take it out without updating
\* currentPlace, and killWorker may relocate a worker that is already gone.
PoolsMatchPlaces ==
  /\ \A p \in Pools, w \in Workers :
       broker.place[w] = p <=> \E i \in DOMAIN broker.pool[p] : broker.pool[p][i] = w
  /\ \A p \in Pools : \A i, j \in DOMAIN broker.pool[p] :
       broker.pool[p][i] = broker.pool[p][j] => i = j

\* appsLoad, which isAppRateLimitReached compares with the limit, is for every
\* application the number of its workers in the busy pool, whatever order
\* answers, kills, exits and reuses come in.
AppsLoadIsExact ==
  \A a \in Apps \cup {NoApp} :
    broker.appsLoad[a] =
      Cardinality({w \in Workers : broker.place[w] = "busy" /\ broker.appId[w] = a})

\* A process runs the code of one application in its whole life, also when it
\* is kept in the cache and handed out again by getWorkerForTask.
OneAppPerProcess == \A w \in Workers : Cardinality(served[w]) <= 1

\* A result on its way is the result of the task the master holds for that
\* worker: onWorkerTaskProcessed answers worker.task, not a task it reads from
\* the message, and 'idling' dereferences worker.task.
AnswersMatchTask ==
  \A w \in Workers : \A i \in DOMAIN pipe[w] :
    pipe[w][i].type # "started" =>
      /\ pipe[w][i].task = broker.task[w]
      /\ broker.task[w] # NoTask

\* The timer of processTask expires the task it was armed for: a worker that is
\* not killed has one only while it is busy with a task that has a timeout.
TimerBelongsToTask ==
  \A w \in broker.expireTimer \ broker.killed :
    broker.place[w] = "busy" /\ broker.task[w] \in Timed

\* A worker marked by killAllAppWorkers or by a critical error finishes at most
\* the task it has: it never goes back to the cache.
MarkedNeverRecached ==
  [][\A w \in broker.toBeRemoved :
       broker.place'[w] = "cached" => broker.place[w] = "cached"]_vars

\* getWorkerForTask never hands out a cached worker of another application, and
\* a task that is not cacheable only gets a process that has run nothing.
FreshOrOwnCache ==
  [][\A w \in Workers :
       broker.task[w] = NoTask /\ broker.task'[w] # NoTask =>
         \/ served[w] = {}
         \/ /\ broker.task'[w] \in Cacheable
            /\ served[w] = {AppOf[broker.task'[w]]}]_vars

\* A process that has run a task is only given another one when both may share
\* it and no critical error showed at the end of the first: what the code of a
\* failed or timed out task has left behind, its model and what still runs of it,
\* meets no other task. cloud-worker.js reports the error and then idles whatever
\* it was; that the process is kept or killed is decided by the order of the two
\* messages on their way to onWorkerMessage.
ReusedOnlyIfKept ==
  [][\A w \in Workers :
       served[w] # {} /\ proc[w] = "waiting" /\ proc'[w] = "running" =>
         w \notin failed /\ {job[w], job'[w]} \subseteq Cacheable]_vars

----------------------------------------------------------------------------
(* Claims of the repository that the code does not keep: each is checked   *)
(* by a run of its own that finds a counterexample.                        *)

\* When the deployment of an application has been handled, no cached worker
\* that was marked with its old code is left.  The forEach of killAllAppWorkers
\* walks the array that relocateWorker splices.
DeployLeavesNoOldWorker ==
  Idle => \A i \in DOMAIN broker.pool["cached"] :
            broker.pool["cached"][i] \notin broker.toBeRemoved

\* A worker killed by its timer or by the heartbeat stays out of the pools.
\* onWorkerMessage does not ask whether the sender was killed.
KilledWorkersStayOut == \A w \in broker.killed : broker.place[w] = "none"

=============================================================================
