---------------------------- MODULE CloudMaster ----------------------------
(***************************************************************************)
(* The master process of the cloud code runner: the task intake of         *)
(* lib/server-code/runners/cloud-master.js over the Redis client of        *)
(* lib/server-code/services/messages-broker.js, composed with the worker   *)
(* pools of WorkersBroker.                                                 *)
(*                                                                         *)
(* taskRequests[channel] holds the promise chain of the one request a      *)
(* channel may have.  A chain that gave its slot back before it had a      *)
(* worker (resetRequestBefore) lives on in broker.waiter only.             *)
(***************************************************************************)
EXTENDS WorkersBroker

CONSTANTS
  LowPriority,       \* tasks the server puts in the low priority queue
  Malformed,         \* tasks JSON.parse rejects
  Expirable,         \* tasks with invocationOverheadTimeoutInMillis
  LowPriorityThreshold, \* workers.lowPriorityThreshold, in percent; 0: no such queue
  RateLimited,       \* rateLimit.enabled
  AppRateLimit,      \* rateLimit.overrides[app] or rateLimit.default
  Compression,       \* compression.prod
  GetterFailures     \* may a getter connection fail?

ASSUME QueueAssumption ==
  /\ LowPriority \subseteq Tasks /\ Malformed \subseteq Tasks /\ Expirable \subseteq Tasks
  /\ LowPriorityThreshold \in 0 .. 100
ASSUME IntakeAssumption ==
  /\ AppRateLimit \in [Apps -> Nat \ {0}]
  /\ RateLimited \in BOOLEAN /\ Compression \in BOOLEAN /\ GetterFailures \in BOOLEAN

VARIABLES
  queue,       \* queue[c]: the Redis list of channel c
  arrived,     \* tasks the server has sent
  reply,       \* reply[c]: task popped by BLPOP, on its way or in decompress()
  request,     \* request[c]: how far the chain in taskRequests[c] is
  pushing,     \* pushing[c]: task that chain is putting back
  slot,        \* slot[w]: channel whose chain waits for worker w to start
  compressing, \* compressing[t]: results of t in compress()
  published,   \* published[t]: results of t sent to its response channel
  outdated,    \* tasks dropped as outdated
  stopped,     \* this.stopped
  down         \* the master process has exited

intake == <<queue, arrived, reply, request, pushing, slot, outdated>>
results == <<compressing, published>>
masterVars == <<vars, intake, results, stopped, down>>

Channels == {"main", "lp"}
NoChannel == "none"
ChannelOf(t) == IF t \in LowPriority THEN "lp" ELSE "main"

----------------------------------------------------------------------------
(* onReadyForNextTasks                                                     *)

AvailableWorkersCount(b) == ConcurrentLimit - Len(b.pool["busy"])

IsWanted(c, b) ==
  IF c = "main"
  THEN AvailableWorkersCount(b) > 0
  ELSE /\ LowPriorityThreshold * ConcurrentLimit > 100 * Len(b.pool["busy"])
       /\ AvailableWorkersCount(b) > 1

\* The slots after onReadyForNextTasks, from slots r
Requested(r, b) ==
  [c \in Channels |-> IF ~stopped /\ r[c] = "none" /\ IsWanted(c, b)
                      THEN "getting" ELSE r[c]]

\* The chain of channel c ends and asks for the next task: the happy ends and
\* the catch do the same
NextRequest(c) == Requested([request EXCEPT ![c] = "none"], broker)

\* Process w will still send 'started', or has sent it
IsStarting(w) ==
  proc[w] = "booting" \/ \E i \in DOMAIN pipe[w] : pipe[w][i].type = "started"

IsAppRateLimitReached(t) ==
  RateLimited /\ broker.appsLoad[AppOf[t]] >= AppRateLimit[AppOf[t]]

----------------------------------------------------------------------------

MasterInit ==
  /\ Init
  /\ queue = [c \in Channels |-> <<>>] /\ arrived = {}
  /\ reply = [c \in Channels |-> NoTask]
  /\ stopped = FALSE /\ down = FALSE
  /\ request = Requested([c \in Channels |-> "none"], broker)
  /\ pushing = [c \in Channels |-> NoTask]
  /\ slot = [w \in Workers |-> NoChannel]
  /\ compressing = [t \in Tasks |-> 0]
  /\ published = [t \in Tasks |-> 0]
  /\ outdated = {}

\* The server sends a task once
Enqueue(t) ==
  /\ t \notin arrived
  /\ arrived' = arrived \cup {t}
  /\ queue' = [queue EXCEPT ![ChannelOf(t)] = Append(@, t)]
  /\ UNCHANGED <<vars, reply, request, pushing, slot, outdated, results, stopped, down>>

\* BLPOP: Redis removes the head and answers
Pop(c) ==
  /\ request[c] = "getting" /\ reply[c] = NoTask /\ ~stopped
  /\ queue[c] # <<>>
  /\ reply' = [reply EXCEPT ![c] = Head(queue[c])]
  /\ queue' = [queue EXCEPT ![c] = Tail(@)]
  /\ UNCHANGED <<vars, arrived, request, pushing, slot, outdated, results, stopped, down>>

----------------------------------------------------------------------------
(* waitAndProcessNextTask, once getTask has a reply                        *)

\* The reply is read: from here on the task does not depend on the connection
OnCompressedReply(c) ==
  /\ Idle /\ Compression
  /\ request[c] = "getting" /\ reply[c] # NoTask
  /\ request' = [request EXCEPT ![c] = "decompressing"]
  /\ UNCHANGED <<vars, queue, arrived, reply, pushing, slot, outdated, results, stopped, down>>

Received(c, t) ==
  /\ Idle
  /\ request[c] = IF Compression THEN "decompressing" ELSE "getting"
  /\ reply[c] = t /\ t # NoTask
  /\ reply' = [reply EXCEPT ![c] = NoTask]
  /\ UNCHANGED <<queue, arrived, results, stopped, down>>

\* Mutant of OnMalformedTask: readable tasks are dropped as well
OnMalformedTaskAny(c, t) ==
  /\ Received(c, t)
  /\ request' = NextRequest(c)
  /\ UNCHANGED <<vars, pushing, slot, outdated>>

\* getTask rejects, and the catch of the chain asks again
OnMalformedTask(c, t) ==
  /\ Received(c, t)
  /\ t \in Malformed
  /\ request' = NextRequest(c)
  /\ UNCHANGED <<vars, pushing, slot, outdated>>

\* Mutant of OnOutdatedTask: the chain ends without asking for the next task
OnOutdatedTaskSilent(c, t) ==
  /\ Received(c, t)
  /\ t \in Expirable \ Malformed
  /\ request' = [request EXCEPT ![c] = "none"]
  /\ outdated' = outdated \cup {t}
  /\ UNCHANGED <<vars, pushing, slot>>

OnOutdatedTask(c, t) ==
  /\ Received(c, t)
  /\ t \in Expirable \ Malformed
  /\ request' = NextRequest(c)
  /\ outdated' = outdated \cup {t}
  /\ UNCHANGED <<vars, pushing, slot>>

\* Mutants of OnRateLimitedTask: the task is dropped; a return is missing and the
\* task that is pushed back is run as well
OnRateLimitedTaskDropped(c, t) ==
  /\ Received(c, t)
  /\ IsAppRateLimitReached(t)
  /\ request' = NextRequest(c)
  /\ UNCHANGED <<vars, pushing, slot, outdated>>
OnRateLimitedTaskTwice(c, t) ==
  /\ Received(c, t)
  /\ IsAppRateLimitReached(t)
  /\ request' = [request EXCEPT ![c] = "pushing"]
  /\ pushing' = [pushing EXCEPT ![c] = t]
  /\ GetWorkerForTask(t)
  /\ UNCHANGED <<slot, outdated>>

\* pushTaskBack sends RPUSH in the same turn.  With compression on, compress()
\* is given the task itself instead of a string: it rejects, the catch asks for
\* the next task, and this one is gone.
OnRateLimitedTask(c, t) ==
  /\ Received(c, t)
  /\ t \notin Malformed
  /\ IsAppRateLimitReached(t)
  /\ IF Compression
     THEN request' = NextRequest(c) /\ UNCHANGED pushing
     ELSE /\ request' = [request EXCEPT ![c] = "pushing"]
          /\ pushing' = [pushing EXCEPT ![c] = t]
  /\ UNCHANGED <<vars, slot, outdated>>

OnTask(c, t) ==
  LET early == AvailableWorkersCount(broker) > 2     \* resetRequestBefore
      b     == Dispatch(broker, t)
      \* the worker whose start the chain awaits with its slot, if any
      awaited == IF early THEN {}
                 ELSE {w \in b.cluster \ broker.cluster : b.waiter[w] = t}
  IN  /\ Received(c, t)
      /\ t \notin Malformed
      /\ ~IsAppRateLimitReached(t)
      /\ GetWorkerForTask(t)
      /\ request' = [request EXCEPT ![c] = IF awaited = {} THEN "none" ELSE "starting"]
      /\ slot' = [w \in Workers |-> IF w \in awaited THEN c ELSE slot[w]]
      /\ UNCHANGED <<pushing, outdated>>

\* BLPOP rejects: the connection broke, or stopGetters closed it.  getTask
\* resolves to undefined, the chain throws, and its catch asks again.
OnGetterFailure(c) ==
  /\ Idle
  /\ request[c] = "getting" /\ (stopped \/ GetterFailures)
  /\ reply' = [reply EXCEPT ![c] = NoTask]
  /\ request' = NextRequest(c)
  /\ UNCHANGED <<vars, queue, arrived, pushing, slot, outdated, results, stopped, down>>

\* Redis executes the RPUSH, and its reply ends the chain
PushTaskBack(c) ==
  /\ request[c] = "pushing"
  /\ queue' = [queue EXCEPT ![c] = Append(@, pushing[c])]
  /\ request' = [request EXCEPT ![c] = "pushed"]
  /\ pushing' = [pushing EXCEPT ![c] = NoTask]
  /\ UNCHANGED <<vars, arrived, reply, slot, outdated, results, stopped, down>>

\* Mutant of OnTaskPushedBack: the chain ends without asking for the next task
OnTaskPushedBackSilent(c) ==
  /\ Idle
  /\ request[c] = "pushed"
  /\ request' = [request EXCEPT ![c] = "none"]
  /\ UNCHANGED <<vars, queue, arrived, reply, pushing, slot, outdated, results, stopped, down>>

OnTaskPushedBack(c) ==
  /\ Idle
  /\ request[c] = "pushed"
  /\ request' = NextRequest(c)
  /\ UNCHANGED <<vars, queue, arrived, reply, pushing, slot, outdated, results, stopped, down>>

----------------------------------------------------------------------------
(* Events of the workers broker the master listens to                      *)

\* READY_FOR_NEXT_TASK
OnReadyForNextTasks ==
  /\ EmitReady
  /\ request' = Requested(request, broker)
  /\ UNCHANGED <<queue, arrived, reply, pushing, slot, outdated, results, stopped, down>>

\* The main getter is connected again
OnReconnect ==
  /\ Idle /\ GetterFailures
  /\ request' = Requested(request, broker)
  /\ UNCHANGED <<vars, queue, arrived, reply, pushing, slot, outdated, results, stopped, down>>

\* setter.publish; the connection refuses what comes after the QUIT of stopSetters
Publish(t) ==
  published' = IF broker.stopper = "done" THEN published
               ELSE [published EXCEPT ![t] = @ + 1]

\* TASK_PROCESSED: setTaskResult sends the result at once, or leaves it to
\* zlib's threads when compression is on and the result is large
OnTaskProcessed(w) ==
  LET t == broker.task[w]
  IN  /\ OnWorkerTaskProcessed(w)
      /\ \/ Publish(t) /\ UNCHANGED compressing
         \/ /\ Compression
            /\ compressing' = [compressing EXCEPT ![t] = @ + 1]
            /\ UNCHANGED published
      /\ UNCHANGED <<intake, stopped, down>>

\* Mutant of OnResultCompressed: it publishes what it goes on compressing
OnResultCompressedKept(t) ==
  /\ Idle
  /\ compressing[t] > 0
  /\ published' = [published EXCEPT ![t] = @ + 1]
  /\ UNCHANGED <<vars, compressing, intake, stopped, down>>

\* compress() is done
OnResultCompressed(t) ==
  /\ Idle
  /\ compressing[t] > 0
  /\ compressing' = [compressing EXCEPT ![t] = @ - 1]
  /\ Publish(t)
  /\ UNCHANGED <<vars, intake, stopped, down>>

\* Mutants of OnStarted: the slot is kept; the main channel is freed for all; the
\* channel of the task is freed again when its slot was given back early
OnStartedHolding(w) ==
  /\ OnWorkerStarted(w)
  /\ slot' = [slot EXCEPT ![w] = NoChannel]
  /\ UNCHANGED <<queue, arrived, reply, request, pushing, outdated, results, stopped, down>>
OnStartedFreeingMain(w) ==
  /\ OnWorkerStarted(w)
  /\ request' = [request EXCEPT !["main"] = "none"]
  /\ slot' = [slot EXCEPT ![w] = NoChannel]
  /\ UNCHANGED <<queue, arrived, reply, pushing, outdated, results, stopped, down>>

OnStartedFreeingAgain(w) ==
  LET t == broker.waiter[w]
  IN  /\ OnWorkerStarted(w)
      /\ request' = [c \in Channels |-> IF t # NoTask /\ c = ChannelOf(t) THEN "none"
                                        ELSE request[c]]
      /\ slot' = [slot EXCEPT ![w] = NoChannel]
      /\ UNCHANGED <<queue, arrived, reply, pushing, outdated, results, stopped, down>>

\* A worker has started: the chain that held its slot for it gives it back
OnStarted(w) ==
  /\ OnWorkerStarted(w)
  /\ request' = [c \in Channels |-> IF slot[w] = c THEN "none" ELSE request[c]]
  /\ slot' = [slot EXCEPT ![w] = NoChannel]
  /\ UNCHANGED <<queue, arrived, reply, pushing, outdated, results, stopped, down>>

\* Events that do not concern the intake: messages, exits, timers
OnBrokerMessage(w) ==
  /\ OnWorkerCriticalError(w) \/ OnWorkerIdling(w)
  /\ UNCHANGED <<intake, results, stopped, down>>

OnBrokerEvent ==
  /\ \/ \E w \in Workers : \/ OnWorkerExit(w) \/ OnDisconnect(w)
                           \/ OnExpirationTimer(w) \/ OnIdlingTimer(w)
                           \/ KillExpiredWorker(w)
     \/ OnHeartbeatTimer \/ EndHeartbeat
     \/ \E a \in Apps : KillAllAppWorkers(a)
     \/ VisitCachedWorker \/ EndDeploy
  /\ UNCHANGED <<intake, results, stopped, down>>

RunProcess(w) == RunWorker(w) /\ UNCHANGED <<intake, results, stopped, down>>

CrashProcess(w) == Crash(w) /\ UNCHANGED <<intake, results, stopped, down>>

----------------------------------------------------------------------------
(* stop                                                                    *)

\* stopGetters drops the connections with the replies on them, not the tasks that
\* are in decompress(), and workersBroker.stop starts to wait: all in one turn of
\* the event loop
StopMaster ==
  /\ ~stopped
  /\ Stop
  /\ stopped' = TRUE
  /\ reply' = [c \in Channels |-> IF request[c] = "decompressing" THEN reply[c] ELSE NoTask]
  /\ UNCHANGED <<queue, arrived, request, pushing, slot, outdated, results, down>>

\* The busy pool was empty once: stopSetters has sent QUIT after every command
\* sent before, and its reply ends the process and the workers with it
Exit ==
  /\ Idle
  /\ stopped /\ broker.stopper = "done"
  /\ \A c \in Channels : request[c] # "pushing"
  /\ down' = TRUE
  /\ UNCHANGED <<vars, intake, results, stopped>>

ReceiveTask(c, t) ==
  \/ OnMalformedTask(c, t) \/ OnOutdatedTask(c, t)
  \/ OnRateLimitedTask(c, t) \/ OnTask(c, t)

MasterNext ==
  /\ ~down
  /\ \/ \E t \in Tasks : Enqueue(t) \/ OnResultCompressed(t)
     \/ \E c \in Channels : \/ Pop(c) \/ OnCompressedReply(c) \/ OnGetterFailure(c)
                            \/ PushTaskBack(c) \/ OnTaskPushedBack(c)
                            \/ \E t \in Tasks : ReceiveTask(c, t)
     \/ \E w \in Workers : \/ OnTaskProcessed(w) \/ OnStarted(w)
                           \/ OnBrokerMessage(w)
                           \/ RunProcess(w) \/ CrashProcess(w)
     \/ OnReadyForNextTasks \/ OnReconnect \/ OnBrokerEvent
     \/ StopMaster \/ Exit

MasterSpec == MasterInit /\ [][MasterNext]_masterVars

----------------------------------------------------------------------------
(* Fairness: the event loop serves every event that is ready, Redis answers, *)
(* and a worker process runs; the executor's own timeout ends a task whose   *)
(* code does not.  Signals, deployments, failures and kills owe nothing.     *)

Fairness ==
  /\ \A c \in Channels : /\ WF_masterVars(~down /\ Pop(c))
                         /\ WF_masterVars(~down /\ OnCompressedReply(c))
                         /\ WF_masterVars(~down /\ PushTaskBack(c))
                         /\ WF_masterVars(~down /\ OnTaskPushedBack(c))
                         /\ WF_masterVars(~down /\ \E t \in Tasks : ReceiveTask(c, t))
  /\ \A w \in Workers : /\ WF_masterVars(~down /\ OnStarted(w))
                        /\ WF_masterVars(~down /\ OnTaskProcessed(w))
                        /\ WF_masterVars(~down /\ OnBrokerMessage(w))
                        /\ WF_masterVars(~down /\ RunProcess(w))
  /\ WF_masterVars(~down /\ OnReadyForNextTasks)

FairMasterSpec == MasterSpec /\ Fairness

----------------------------------------------------------------------------
(* Properties                                                              *)

RequestStates == {"none", "getting", "decompressing", "pushing", "pushed", "starting"}

IntakeTypes ==
  /\ queue \in [Channels -> Seq(Tasks)] /\ arrived \subseteq Tasks
  /\ reply \in [Channels -> Tasks \cup {NoTask}]
  /\ request \in [Channels -> RequestStates]
  /\ pushing \in [Channels -> Tasks \cup {NoTask}]
  /\ slot \in [Workers -> Channels \cup {NoChannel}]
  /\ compressing \in [Tasks -> Nat] /\ published \in [Tasks -> Nat]
  /\ outdated \subseteq Tasks
  /\ stopped \in BOOLEAN /\ down \in BOOLEAN

\* The intake's variables keep their types, and the chain in taskRequests[c] holds
\* the task its state calls for: a slot that another chain has freed, while this
\* one has a reply or pushes a task back, would be asked for twice.
MasterTypeOK ==
  /\ IntakeTypes
  /\ \A c \in Channels :
       /\ reply[c] # NoTask => request[c] \in {"getting", "decompressing"}
       /\ request[c] = "decompressing" => reply[c] # NoTask
       /\ pushing[c] # NoTask <=> request[c] = "pushing"

\* No wake-up is lost: while a worker is available the master is asking Redis
\* for a task, or something that is certain to come will make it ask again.
\* onReadyForNextTasks is only called by some ends of a chain and by the READY
\* event, and a slot given back early calls nothing.
IntakeIsArmed ==
  ~stopped /\ AvailableWorkersCount(broker) > 0 =>
    \/ request["main"] \in {"getting", "decompressing", "pushing", "pushed"}
    \/ broker.ready
    \/ \E w \in Workers : broker.waiter[w] # NoTask /\ IsStarting(w)

\* A channel waits for the start of exactly the worker its task waits for.
SlotsMatchWaiters ==
  \A c \in Channels :
    Cardinality({w \in Workers : slot[w] = c}) = (IF request[c] = "starting" THEN 1 ELSE 0)

\* While nothing fails, the master has every task it took: it waits for a
\* worker, is on one, is on its way back to the queue, or is finished with.
HasWorker(t) == \E w \in Workers : broker.waiter[w] = t \/ broker.task[w] = t
InIntake(t) == \E c \in Channels : t \in {reply[c], pushing[c]}
InQueue(t) == \E c \in Channels : \E i \in DOMAIN queue[c] : queue[c][i] = t
IsFinished(t) == published[t] + compressing[t] > 0 \/ t \in outdated
TasksAreKept ==
  \A t \in arrived \ Malformed :
    InQueue(t) \/ InIntake(t) \/ HasWorker(t) \/ IsFinished(t) \/ stopped

\* The applications' tasks that run at a time stay within the rate limit.
AppTasksWithinLimit ==
  RateLimited =>
    \A a \in Apps :
      Cardinality({w \in Workers : /\ broker.place[w] = "busy"
                                  /\ AppOf[broker.task[w]] = a}) <= AppRateLimit[a]

\* The process exits when the tasks it has taken are complete: none is left with a
\* worker that is busy, nor with one that is still to start.
StopCompletesTasks ==
  down => \A w \in Workers : broker.place[w] # "busy" /\ broker.waiter[w] = NoTask

\* A result goes out at most twice (the worker sends a result once in the try
\* of processTask and once after it), however tasks are retried and pools change.
AtMostTwoAnswers == \A t \in Tasks : published[t] + compressing[t] <= 2

\* A task the master is told to be finished with has been answered: 'idling'
\* comes after the result was handed to setTaskResult.  Once the setters are
\* closed results are refused, and stop has its own property.
IdleMeansAnswered ==
  [][\A w \in Workers :
       broker.place[w] = "busy" /\ broker.place'[w] = "cached" /\ broker.stopper # "done" =>
         published[broker.task[w]] + compressing[broker.task[w]] > 0]_masterVars

\* The life of a task as the server sees it.  A task whose worker is gone, with
\* everything it had sent read, is lost.
TaskStatus(t) ==
  IF t \notin arrived THEN "absent"
  ELSE IF published[t] > 0 THEN "answered"
  ELSE IF t \in outdated THEN "discarded"
  ELSE IF InQueue(t) THEN "queued"
  ELSE IF InIntake(t) \/ \E w \in Workers : broker.waiter[w] = t THEN "taken"
  ELSE IF \/ compressing[t] > 0
          \/ \E w \in Workers \ closed : broker.task[w] = t THEN "running"
  ELSE "lost"

Service == INSTANCE TaskService WITH status <- [t \in Tasks |-> TaskStatus(t)]

\* The master implements the task service: whatever fails, a task runs at most
\* once, goes back to the queue only before it ran, and an answer is final.
ImplementsTaskService == Service!Spec

\* Every task that reaches the queue is answered, dropped as outdated or
\* unreadable, or the master was told to stop.
EveryTaskIsAnswered ==
  \A t \in Tasks :
    t \in arrived ~> published[t] > 0 \/ t \in outdated \cup Malformed \/ stopped

=============================================================================
