------------------------- MODULE CloudMasterProofs -------------------------
(***************************************************************************)
(* The intake of CloudMaster only restricts when the broker is asked for a *)
(* worker: every behaviour of the master is one of WorkersBroker, and what *)
(* is proved there holds in the master.                                    *)
(*                                                                         *)
(* A task is in one stage of the intake only (OnePlace), and a channel's   *)
(* chain has one thing in hand (ChannelInv). With what the broker and its  *)
(* processes keep (BrokerInv) each step serves: the status of every task   *)
(* moves as TaskService allows, or stays.                                  *)
(*                                                                         *)
(* A task is on one worker only, which is given it with an empty pipe: its *)
(* answers published, unread and still to be sent are at most two, and one *)
(* comes before 'idling' (Spoken).  So a worker that is free again has     *)
(* answered, and no step loses a task (Keeps).                             *)
(*                                                                         *)
(* While nothing kills a process that boots (BootingSafe), a worker that   *)
(* becomes free is announced or waits for one that starts (ArmInv).        *)
(***************************************************************************)
EXTENDS CloudMaster, AnswerProofs

\* A turn of the broker that is neither its stop nor its READY event, or leaves it alone
Turns ==
  \/ UNCHANGED vars
  \/ \E t \in Tasks : GetWorkerForTask(t)
  \/ \E w \in Workers : \/ OnWorkerEvent(w) \/ RunWorker(w) \/ Crash(w)
                        \/ OnExpirationTimer(w) \/ OnIdlingTimer(w)
                        \/ KillExpiredWorker(w)
  \/ OnHeartbeatTimer \/ EndHeartbeat \/ \E a \in Apps : KillAllAppWorkers(a)
  \/ VisitCachedWorker \/ EndDeploy
Runs == Turns \/ EmitReady

\* A channel takes a task: Redis has popped it, or its reply is read
Fetches(c) == Pop(c) \/ OnCompressedReply(c)

\* Each turn of the master is its stop, or a turn of the broker, or leaves it alone.
LEMMA MasterRuns == [MasterNext]_masterVars => StopMaster \/ Runs
<1> SUFFICES ASSUME [MasterNext]_masterVars PROVE StopMaster \/ Runs
  OBVIOUS
<1> USE DEF Runs, Turns
<1>1. CASE UNCHANGED masterVars
  BY <1>1 DEF masterVars
<1>2. ASSUME NEW t \in Tasks, Enqueue(t) \/ OnResultCompressed(t) PROVE Runs
  BY <1>2 DEF Enqueue, OnResultCompressed
<1>3. ASSUME NEW c \in Channels,
             Fetches(c) \/ OnGetterFailure(c) \/ PushTaskBack(c) \/ OnTaskPushedBack(c)
      PROVE  Runs
  BY <1>3 DEF Fetches, Pop, OnCompressedReply, OnGetterFailure, PushTaskBack, OnTaskPushedBack
<1>4. ASSUME NEW c \in Channels, NEW t \in Tasks, ReceiveTask(c, t) PROVE Runs
  <2>1. GetWorkerForTask(t) \/ UNCHANGED vars
    BY <1>4 DEF ReceiveTask, OnMalformedTask, OnOutdatedTask, OnRateLimitedTask, OnTask
  <2> QED BY <2>1
<1>5. ASSUME NEW w \in Workers,
             OnTaskProcessed(w) \/ OnStarted(w) \/ OnBrokerMessage(w)
      PROVE  Runs
  <2>1. OnWorkerEvent(w)
    BY <1>5 DEF OnTaskProcessed, OnStarted, OnBrokerMessage, OnWorkerEvent
  <2> QED BY <2>1
<1>6. ASSUME NEW w \in Workers, RunProcess(w) \/ CrashProcess(w) PROVE Runs
  BY <1>6 DEF RunProcess, CrashProcess
<1>7. CASE OnReadyForNextTasks \/ OnReconnect \/ Exit
  BY <1>7 DEF OnReadyForNextTasks, OnReconnect, Exit
<1>8. CASE OnBrokerEvent
  BY <1>8 DEF OnBrokerEvent, OnWorkerEvent
<1> QED BY <1>1, <1>2, <1>3, <1>4, <1>5, <1>6, <1>7, <1>8 DEF MasterNext, Fetches

LEMMA MasterStepsAreSteps == [MasterNext]_masterVars => [Next]_vars
<1>1. Runs => [Next]_vars
  BY DEF Runs, Turns, Next
<1>2. StopMaster => Next
  BY DEF StopMaster, Next
<1> QED BY <1>1, <1>2, MasterRuns

\* The master with its queues, slots and results implements the broker asked
\* by anybody: no policy of cloud-master.js is needed for what the broker keeps.
THEOREM MasterImplementsBroker == MasterSpec => Spec
BY MasterStepsAreSteps, PTL DEF MasterSpec, MasterInit, Spec

\* In the master too the counter that isAppRateLimitReached reads is exact.
THEOREM MasterCountsExactly == MasterSpec => []AppsLoadIsExact
BY MasterImplementsBroker, AppsLoadAlwaysExact

\* In the master too no process runs the code of two applications.
THEOREM MasterKeepsIsolation == MasterSpec => []OneAppPerProcess
BY MasterImplementsBroker, ProcessesStayIsolated

----------------------------------------------------------------------------
(* Types of the intake.  IntakeTypes is not inductive: that RPUSH appends a  *)
(* task rests on a chain that pushes back having kept the task it pushes.     *)

PushesTask == \A c \in Channels : request[c] = "pushing" => pushing[c] \in Tasks

MasterInv == IntakeTypes /\ PushesTask

LEMMA RequestedType ==
  ASSUME NEW r \in [Channels -> RequestStates], NEW b
  PROVE  /\ Requested(r, b) \in [Channels -> RequestStates]
         /\ \A c \in Channels : Requested(r, b)[c] = "pushing" => r[c] = "pushing"
BY DEF Requested, RequestStates

LEMMA NextRequestType ==
  ASSUME IntakeTypes, NEW c \in Channels
  PROVE  /\ NextRequest(c) \in [Channels -> RequestStates]
         /\ \A d \in Channels : NextRequest(c)[d] = "pushing" => d # c /\ request[d] = "pushing"
<1> DEFINE r == [request EXCEPT ![c] = "none"]
<1>1. /\ r \in [Channels -> RequestStates]
      /\ \A d \in Channels : r[d] = "pushing" => d # c /\ request[d] = "pushing"
  BY DEF IntakeTypes, RequestStates
<1> HIDE DEF r
<1>2. NextRequest(c) = Requested(r, broker)
  BY DEF NextRequest, r
<1> QED BY <1>1, <1>2, RequestedType

LEMMA ReceiveKeeps ==
  ASSUME MasterInv, NEW c \in Channels, NEW t \in Tasks, ReceiveTask(c, t)
  PROVE  MasterInv'
<1>1. /\ reply' \in [Channels -> Tasks \cup {NoTask}]
      /\ UNCHANGED <<queue, arrived, results, stopped, down>>
  BY DEF ReceiveTask, OnMalformedTask, OnOutdatedTask, OnRateLimitedTask, OnTask, Received,
         MasterInv, IntakeTypes
<1>2. /\ request' \in [Channels -> RequestStates]
      /\ pushing' \in [Channels -> Tasks \cup {NoTask}]
      /\ \A d \in Channels : request'[d] = "pushing" => pushing'[d] \in Tasks
  <2>0. /\ request \in [Channels -> RequestStates]
        /\ pushing \in [Channels -> Tasks \cup {NoTask}]
        /\ \A d \in Channels : request[d] = "pushing" => pushing[d] \in Tasks
    BY DEF MasterInv, IntakeTypes, PushesTask
  <2>1. CASE request' = NextRequest(c) /\ pushing' = pushing
    BY <2>0, <2>1, NextRequestType DEF MasterInv
  <2>2. CASE /\ request' = [request EXCEPT ![c] = "pushing"]
             /\ pushing' = [pushing EXCEPT ![c] = t]
    BY <2>0, <2>2 DEF RequestStates
  <2>3. ASSUME NEW r \in {"none", "starting"},
               request' = [request EXCEPT ![c] = r], pushing' = pushing
        PROVE  /\ request' \in [Channels -> RequestStates]
               /\ pushing' \in [Channels -> Tasks \cup {NoTask}]
               /\ \A d \in Channels : request'[d] = "pushing" => pushing'[d] \in Tasks
    BY <2>0, <2>3 DEF RequestStates
  <2>4. CASE OnTask(c, t)
    BY <2>3, <2>4 DEF OnTask
  <2>5. CASE OnMalformedTask(c, t) \/ OnOutdatedTask(c, t)
    BY <2>1, <2>5 DEF OnMalformedTask, OnOutdatedTask
  <2>6. CASE OnRateLimitedTask(c, t)
    BY <2>1, <2>2, <2>6 DEF OnRateLimitedTask
  <2> QED BY <2>4, <2>5, <2>6 DEF ReceiveTask
<1>3. PushesTask'
  BY <1>2 DEF PushesTask
<1>4. outdated' \subseteq Tasks /\ slot' \in [Workers -> Channels \cup {NoChannel}]
  <2>1. \/ UNCHANGED slot
        \/ \E A : slot' = [w \in Workers |-> IF w \in A THEN c ELSE slot[w]]
    <3>1. CASE OnTask(c, t)
      BY <3>1 DEF OnTask
    <3>2. CASE ~ OnTask(c, t)
      BY <3>2 DEF ReceiveTask, OnMalformedTask, OnOutdatedTask, OnRateLimitedTask
    <3> QED BY <3>1, <3>2
  <2>2. outdated' \in {outdated, outdated \cup {t}}
    BY DEF ReceiveTask, OnMalformedTask, OnOutdatedTask, OnRateLimitedTask, OnTask
  <2> QED BY <2>1, <2>2 DEF MasterInv, IntakeTypes
<1> QED BY <1>1, <1>2, <1>3, <1>4 DEF MasterInv, IntakeTypes, results

LEMMA QueueKeeps ==
  ASSUME MasterInv,
         \/ \E t \in Tasks : Enqueue(t)
         \/ \E c \in Channels : Fetches(c) \/ OnGetterFailure(c) \/ PushTaskBack(c) \/ OnTaskPushedBack(c)
  PROVE  MasterInv'
<1> USE DEF MasterInv
<1>1. ASSUME NEW t \in Tasks, Enqueue(t) PROVE MasterInv'
  <2>1. ChannelOf(t) \in Channels
    BY DEF ChannelOf, Channels
  <2> QED BY <1>1, <2>1 DEF Enqueue, IntakeTypes, PushesTask, results
<1>2. ASSUME NEW c \in Channels, Pop(c) PROVE MasterInv'
  <2>1. queue[c] \in Seq(Tasks) /\ queue[c] # <<>>
    BY <1>2 DEF Pop, IntakeTypes
  <2>2. Head(queue[c]) \in Tasks /\ Tail(queue[c]) \in Seq(Tasks)
    BY <2>1
  <2> QED BY <1>2, <2>2 DEF Pop, IntakeTypes, PushesTask, results
<1>3. ASSUME NEW c \in Channels, OnGetterFailure(c) \/ OnTaskPushedBack(c) PROVE MasterInv'
  <2>0. /\ request' = NextRequest(c) /\ pushing' = pushing
        /\ \A d \in Channels : NextRequest(c)[d] = "pushing" => request[d] = "pushing"
    BY <1>3, NextRequestType DEF OnGetterFailure, OnTaskPushedBack
  <2>1. reply' \in [Channels -> Tasks \cup {NoTask}]
    BY <1>3 DEF OnGetterFailure, OnTaskPushedBack, IntakeTypes
  <2>2. request' \in [Channels -> RequestStates]
    BY <1>3, NextRequestType DEF OnGetterFailure, OnTaskPushedBack
  <2>3. PushesTask'
    BY <2>0 DEF PushesTask
  <2> QED BY <1>3, <2>1, <2>2, <2>3
      DEF OnGetterFailure, OnTaskPushedBack, IntakeTypes, results
<1>4. ASSUME NEW c \in Channels, PushTaskBack(c) PROVE MasterInv'
  <2>1. queue[c] \in Seq(Tasks) /\ pushing[c] \in Tasks
    BY <1>4 DEF PushTaskBack, IntakeTypes, PushesTask
  <2>2. Append(queue[c], pushing[c]) \in Seq(Tasks)
    BY <2>1
  <2>3. PushesTask'
    BY <1>4 DEF PushTaskBack, IntakeTypes, PushesTask
  <2> QED BY <1>4, <2>2, <2>3 DEF PushTaskBack, IntakeTypes, results, RequestStates
<1>5. ASSUME NEW c \in Channels, OnCompressedReply(c) PROVE MasterInv'
  BY <1>5 DEF OnCompressedReply, IntakeTypes, PushesTask, results, RequestStates
<1> QED BY <1>1, <1>2, <1>3, <1>4, <1>5 DEF Fetches

LEMMA EventKeepsIntake ==
  ASSUME MasterInv,
         \/ \E t \in Tasks : OnResultCompressed(t)
         \/ \E w \in Workers : \/ OnTaskProcessed(w) \/ OnStarted(w) \/ OnBrokerMessage(w)
                               \/ RunProcess(w) \/ CrashProcess(w)
         \/ OnReadyForNextTasks \/ OnReconnect \/ OnBrokerEvent \/ StopMaster \/ Exit
  PROVE  MasterInv'
<1> USE DEF MasterInv, intake, results
<1>1. ASSUME NEW t \in Tasks, OnResultCompressed(t) PROVE MasterInv'
  <2>1. compressing' \in [Tasks -> Nat] /\ published' \in [Tasks -> Nat]
    BY <1>1 DEF OnResultCompressed, Publish, IntakeTypes
  <2> QED BY <1>1, <2>1 DEF OnResultCompressed, IntakeTypes, PushesTask
<1>2. ASSUME NEW w \in Workers, OnTaskProcessed(w) PROVE MasterInv'
  <2>1. compressing' \in [Tasks -> Nat] /\ published' \in [Tasks -> Nat]
    <3>1. ASSUME NEW f \in [Tasks -> Nat], NEW t
          PROVE  [f EXCEPT ![t] = @ + 1] \in [Tasks -> Nat]
      <4>1. CASE t \in Tasks
        BY <4>1
      <4>2. CASE t \notin Tasks
        BY <4>2
      <4> QED BY <4>1, <4>2
    <3> DEFINE t == broker.task[w]
    <3>2. compressing \in [Tasks -> Nat] /\ published \in [Tasks -> Nat]
      BY DEF IntakeTypes
    <3>3. \/ compressing' = compressing /\ published' = [published EXCEPT ![t] = @ + 1]
          \/ published' = published /\ compressing' = [compressing EXCEPT ![t] = @ + 1]
          \/ published' = published /\ compressing' = compressing
      BY <1>2 DEF OnTaskProcessed, Publish
    <3> HIDE DEF t
    <3> QED BY <3>1, <3>2, <3>3
  <2> QED BY <1>2, <2>1 DEF OnTaskProcessed, IntakeTypes, PushesTask
<1>3. ASSUME NEW w \in Workers, OnStarted(w) PROVE MasterInv'
  <2>1. /\ request' \in [Channels -> RequestStates]
        /\ slot' \in [Workers -> Channels \cup {NoChannel}]
    BY <1>3 DEF OnStarted, IntakeTypes, RequestStates
  <2>2. PushesTask'
    BY <1>3 DEF OnStarted, PushesTask
  <2> QED BY <1>3, <2>1, <2>2 DEF OnStarted, IntakeTypes
<1>4. ASSUME NEW w \in Workers, OnBrokerMessage(w) \/ RunProcess(w) \/ CrashProcess(w)
      PROVE  MasterInv'
  BY <1>4 DEF OnBrokerMessage, RunProcess, CrashProcess, IntakeTypes, PushesTask
<1>5. CASE OnReadyForNextTasks \/ OnReconnect
  <2>1. /\ request' = Requested(request, broker)
        /\ UNCHANGED <<queue, arrived, reply, pushing, slot, outdated, results, stopped, down>>
    BY <1>5 DEF OnReadyForNextTasks, OnReconnect
  <2>2. /\ request' \in [Channels -> RequestStates]
        /\ \A c \in Channels : request'[c] = "pushing" => request[c] = "pushing"
    BY <2>1, RequestedType DEF IntakeTypes
  <2> QED BY <2>1, <2>2 DEF IntakeTypes, PushesTask
<1>6. CASE OnBrokerEvent \/ StopMaster \/ Exit
  BY <1>6 DEF OnBrokerEvent, StopMaster, Exit, IntakeTypes, PushesTask
<1> QED BY <1>1, <1>2, <1>3, <1>4, <1>5, <1>6

LEMMA MasterInitInv == MasterInit => MasterInv
<1> SUFFICES ASSUME MasterInit PROVE MasterInv
  OBVIOUS
<1> DEFINE r == [c \in Channels |-> "none"]
<1>1. r \in [Channels -> RequestStates] /\ \A c \in Channels : r[c] # "pushing"
  BY DEF RequestStates
<1>2. request = Requested(r, broker)
  BY DEF MasterInit
<1> HIDE DEF r
<1>3. request \in [Channels -> RequestStates] /\ PushesTask
  BY <1>1, <1>2, RequestedType DEF PushesTask
<1>4. queue \in [Channels -> Seq(Tasks)]
  BY DEF MasterInit
<1> QED BY <1>3, <1>4 DEF MasterInit, MasterInv, IntakeTypes

LEMMA MasterNextInv == MasterInv /\ [MasterNext]_masterVars => MasterInv'
<1> SUFFICES ASSUME MasterInv, [MasterNext]_masterVars PROVE MasterInv'
  OBVIOUS
<1>1. CASE UNCHANGED masterVars
  BY <1>1 DEF masterVars, intake, results, MasterInv, IntakeTypes, PushesTask
<1>2. CASE MasterNext
  BY <1>2, ReceiveKeeps, QueueKeeps, EventKeepsIntake DEF MasterNext, Fetches
<1> QED BY <1>1, <1>2

----------------------------------------------------------------------------
(* The chain of a channel has at most one thing in hand                    *)

\* What a chain has of its task, against how far it is
ReplyFits(t, state) ==
  /\ t # NoTask => state \in {"getting", "decompressing"}
  /\ state = "decompressing" => t # NoTask

ChannelInv ==
  /\ \A c \in Channels : /\ ReplyFits(reply[c], request[c])
                         /\ pushing[c] # NoTask => request[c] = "pushing"
                         /\ request[c] = "starting" <=> \E w \in Workers : slot[w] = c
  /\ \A v, w \in Workers : slot[v] = slot[w] /\ slot[v] # NoChannel => v = w
  /\ \A w \in Workers : slot[w] # NoChannel => w <= broker.forks

----------------------------------------------------------------------------
(* One place for each task: what TasksAreKept counts on and TaskService     *)
(* needs, that no task is in two stages of the intake at once.              *)

InReply(t)   == \E c \in Channels : reply[c] = t
InPush(t)    == \E c \in Channels : pushing[c] = t
Waits(t)     == \E w \in Workers : broker.waiter[w] = t
Works(t)     == \E w \in Workers : broker.task[w] = t
HasResult(t) == published[t] > 0 \/ compressing[t] > 0

OnePlace(t) ==
  /\ \A c \in Channels :
       Holds(queue[c], t) \/ reply[c] = t \/ pushing[c] = t => c = ChannelOf(t)
  /\ \A v, w \in Workers : broker.waiter[v] = t /\ broker.waiter[w] = t => v = w
  /\ InQueue(t) => ~InReply(t)
  /\ InPush(t) => ~InQueue(t) /\ ~InReply(t)
  /\ Waits(t) \/ Works(t) \/ HasResult(t) => ~(InQueue(t) \/ InReply(t) \/ InPush(t))
  /\ Waits(t) => ~Works(t) /\ ~HasResult(t)
  /\ t \notin arrived \/ t \in outdated =>
       ~(InQueue(t) \/ InReply(t) \/ InPush(t) \/ Waits(t) \/ Works(t) \/ HasResult(t))
  /\ t \in outdated => t \in arrived

IntakeInv ==
  /\ \A t \in Tasks : OnePlace(t)
  /\ \A c \in Channels : NoRepeat(queue[c])

\* A step that puts task t in no new place
Shrinks(t) ==
  /\ \A c \in Channels : /\ Holds(queue'[c], t) => Holds(queue[c], t)
                         /\ reply'[c] = t => reply[c] = t
                         /\ pushing'[c] = t => pushing[c] = t
  /\ \A w \in Workers : /\ broker'.waiter[w] = t => broker.waiter[w] = t
                        /\ broker'.task[w] = t => broker.task[w] = t
  /\ HasResult(t)' => HasResult(t)
  /\ t \in arrived' <=> t \in arrived
  /\ t \in outdated' <=> t \in outdated

\* A step that leaves task t where it is
Untouched(t) ==
  /\ \A c \in Channels : /\ Holds(queue'[c], t) <=> Holds(queue[c], t)
                         /\ reply'[c] = t <=> reply[c] = t
                         /\ pushing'[c] = t <=> pushing[c] = t
  /\ \A w \in Workers : /\ broker'.waiter[w] = t <=> broker.waiter[w] = t
                        /\ broker'.task[w] = t <=> broker.task[w] = t
  /\ published'[t] = published[t] /\ compressing'[t] = compressing[t]
  /\ t \in arrived' <=> t \in arrived
  /\ t \in outdated' <=> t \in outdated
  /\ closed' = closed

LEMMA UntouchedShrinks ==
  ASSUME NEW t, Untouched(t) PROVE Shrinks(t)
BY DEF Untouched, Shrinks, HasResult

LEMMA ShrinkingKeepsPlace ==
  ASSUME NEW t, OnePlace(t), Shrinks(t) PROVE OnePlace(t)'
<1>1. /\ InQueue(t)' => InQueue(t)
      /\ InReply(t)' => InReply(t)
      /\ InPush(t)' => InPush(t)
      /\ Waits(t)' => Waits(t)
      /\ Works(t)' => Works(t)
      /\ HasResult(t)' => HasResult(t)
  BY DEF Shrinks, InQueue, InReply, InPush, Waits, Works, Holds
<1>2. /\ \A c \in Channels :
           Holds(queue'[c], t) \/ reply'[c] = t \/ pushing'[c] = t => c = ChannelOf(t)
      /\ \A v, w \in Workers : broker'.waiter[v] = t /\ broker'.waiter[w] = t => v = w
  BY DEF Shrinks, OnePlace
<1>3. (t \in arrived' <=> t \in arrived) /\ (t \in outdated' <=> t \in outdated)
  BY DEF Shrinks
<1> QED BY <1>1, <1>2, <1>3 DEF OnePlace

LEMMA UntouchedKeepsStatus ==
  ASSUME NEW t, Untouched(t) PROVE TaskStatus(t)' = TaskStatus(t)
<1>1. /\ InQueue(t)' <=> InQueue(t)
      /\ InIntake(t)' <=> InIntake(t)
      /\ Waits(t)' <=> Waits(t)
  BY DEF Untouched, InQueue, InIntake, Waits, Holds
<1>2. (\E w \in Workers \ closed' : broker'.task[w] = t)
        <=> (\E w \in Workers \ closed : broker.task[w] = t)
  BY DEF Untouched
<1>3. /\ t \in arrived' <=> t \in arrived
      /\ t \in outdated' <=> t \in outdated
      /\ published'[t] > 0 <=> published[t] > 0
      /\ compressing'[t] > 0 <=> compressing[t] > 0
  BY DEF Untouched
<1>4. (\E w \in Workers : broker'.waiter[w] = t) <=> (\E w \in Workers : broker.waiter[w] = t)
  BY DEF Untouched
<1> QED BY <1>1, <1>2, <1>3, <1>4 DEF TaskStatus

----------------------------------------------------------------------------
(* Steps of TaskService                                                    *)

status == [t \in Tasks |-> TaskStatus(t)]

Moves ==
  {<<"absent", "queued">>, <<"queued", "taken">>, <<"taken", "queued">>,
   <<"taken", "discarded">>, <<"taken", "running">>, <<"running", "answered">>}

LEMMA MoveIsServiceStep ==
  ASSUME NEW t \in Tasks, \A u \in Tasks \ {t} : TaskStatus(u)' = TaskStatus(u),
         <<TaskStatus(t), TaskStatus(t)'>> \in Moves
  PROVE  Service!Next
<1>1. status' = [status EXCEPT ![t] = TaskStatus(t)']
  BY DEF status
<1>2. status[t] = TaskStatus(t)
  BY DEF status
<1> QED BY <1>1, <1>2 DEF Moves, status, Service!Next, Service!Becomes, Service!Arrive,
     Service!Take, Service!Return, Service!Discard, Service!Run, Service!Answer

LEMMA LossIsServiceStep ==
  ASSUME \A t \in Tasks : \/ TaskStatus(t)' = TaskStatus(t)
                          \/ /\ TaskStatus(t) \in {"taken", "running"}
                             /\ TaskStatus(t)' = "lost"
  PROVE  Service!Next
<1> DEFINE S == {t \in Tasks : TaskStatus(t)' # TaskStatus(t)}
<1>1. status' = [t \in Tasks |-> IF t \in S THEN "lost" ELSE status[t]]
  BY DEF status
<1>2. \A t \in S : status[t] \in {"taken", "running"}
  BY DEF status
<1>3. Service!Lose(S) /\ S \in SUBSET Tasks
  BY <1>1, <1>2 DEF status, Service!Lose
<1> QED BY <1>3 DEF Service!Next

----------------------------------------------------------------------------
(* A place of a task and its status                                        *)

LEMMA StatusOfPlace ==
  ASSUME NEW t, OnePlace(t)
  PROVE  /\ InQueue(t) => TaskStatus(t) = "queued"
         /\ InReply(t) \/ InPush(t) \/ Waits(t) => TaskStatus(t) = "taken"
         /\ Works(t) \/ compressing[t] > 0 =>
              TaskStatus(t) = IF published[t] > 0 THEN "answered"
                              ELSE IF \/ compressing[t] > 0
                                      \/ \E w \in Workers \ closed : broker.task[w] = t
                                   THEN "running" ELSE "lost"
<1>1. /\ InIntake(t) <=> InReply(t) \/ InPush(t)
      /\ Waits(t) <=> \E w \in Workers : broker.waiter[w] = t
  BY DEF InIntake, InReply, InPush, Waits
<1>2. InQueue(t) => TaskStatus(t) = "queued"
  BY DEF OnePlace, TaskStatus, HasResult
<1>3. InReply(t) \/ InPush(t) \/ Waits(t) => TaskStatus(t) = "taken"
  BY <1>1 DEF OnePlace, TaskStatus, HasResult
<1>4. Works(t) \/ compressing[t] > 0 =>
        /\ t \in arrived /\ t \notin outdated
        /\ ~InQueue(t) /\ ~InIntake(t) /\ ~Waits(t)
  BY <1>1 DEF OnePlace, HasResult
<1> QED BY <1>1, <1>2, <1>3, <1>4 DEF TaskStatus

LEMMA StatusOfNextPlace ==
  ASSUME NEW t, OnePlace(t)'
  PROVE  /\ InQueue(t)' => TaskStatus(t)' = "queued"
         /\ InReply(t)' \/ InPush(t)' \/ Waits(t)' => TaskStatus(t)' = "taken"
         /\ Works(t)' \/ compressing'[t] > 0 =>
              TaskStatus(t)' = IF published'[t] > 0 THEN "answered"
                               ELSE IF \/ compressing'[t] > 0
                                       \/ \E w \in Workers \ closed' : broker'.task[w] = t
                                    THEN "running" ELSE "lost"
<1>1. /\ InIntake(t)' <=> InReply(t)' \/ InPush(t)'
      /\ Waits(t)' <=> \E w \in Workers : broker'.waiter[w] = t
  BY DEF InIntake, InReply, InPush, Waits
<1>2. InQueue(t)' => TaskStatus(t)' = "queued"
  BY DEF OnePlace, TaskStatus, HasResult
<1>3. InReply(t)' \/ InPush(t)' \/ Waits(t)' => TaskStatus(t)' = "taken"
  BY <1>1 DEF OnePlace, TaskStatus, HasResult
<1>4. Works(t)' \/ compressing'[t] > 0 =>
        /\ t \in arrived' /\ t \notin outdated'
        /\ ~InQueue(t)' /\ ~InIntake(t)' /\ ~Waits(t)'
  BY <1>1 DEF OnePlace, HasResult
<1> QED BY <1>1, <1>2, <1>3, <1>4 DEF TaskStatus

\* Such a step is one of the abstract service, or none
Serves == IntakeInv' /\ [Service!Next]_status

LEMMA UntouchedServes ==
  ASSUME IntakeInv, queue' = queue, \A t \in Tasks : Untouched(t) PROVE Serves
<1>1. \A t \in Tasks : OnePlace(t)' /\ TaskStatus(t)' = TaskStatus(t)
  BY UntouchedShrinks, ShrinkingKeepsPlace, UntouchedKeepsStatus DEF IntakeInv
<1>2. \A c \in Channels : NoRepeat(queue'[c])
  BY DEF IntakeInv
<1>3. status' = status
  BY <1>1 DEF status
<1> QED BY <1>1, <1>2, <1>3 DEF Serves, IntakeInv

LEMMA LossServes ==
  ASSUME IntakeInv, queue' = queue, \A t \in Tasks : Shrinks(t),
         \A t \in Tasks : \/ TaskStatus(t)' = TaskStatus(t)
                          \/ /\ TaskStatus(t) \in {"taken", "running"}
                             /\ TaskStatus(t)' = "lost"
  PROVE  Serves
<1>1. \A t \in Tasks : OnePlace(t)'
  BY ShrinkingKeepsPlace DEF IntakeInv
<1>2. \A c \in Channels : NoRepeat(queue'[c])
  BY DEF IntakeInv
<1> QED BY <1>1, <1>2, LossIsServiceStep DEF Serves, IntakeInv

LEMMA MoveServes ==
  ASSUME IntakeInv, NEW t \in Tasks, \A u \in Tasks \ {t} : Untouched(u),
         \A c \in Channels : NoRepeat(queue'[c]), OnePlace(t)',
         \/ <<TaskStatus(t), TaskStatus(t)'>> \in Moves
         \/ TaskStatus(t)' = TaskStatus(t)
         \/ TaskStatus(t) \in {"taken", "running"} /\ TaskStatus(t)' = "lost"
  PROVE  Serves
<1>1. \A u \in Tasks \ {t} : OnePlace(u)' /\ TaskStatus(u)' = TaskStatus(u)
  BY UntouchedShrinks, ShrinkingKeepsPlace, UntouchedKeepsStatus DEF IntakeInv
<1>2. IntakeInv'
  BY <1>1 DEF IntakeInv
<1>3. CASE <<TaskStatus(t), TaskStatus(t)'>> \in Moves
  BY <1>1, <1>2, <1>3, MoveIsServiceStep DEF Serves
<1>4. CASE \/ TaskStatus(t)' = TaskStatus(t)
           \/ TaskStatus(t) \in {"taken", "running"} /\ TaskStatus(t)' = "lost"
  BY <1>1, <1>2, <1>4, LossIsServiceStep DEF Serves
<1> QED BY <1>3, <1>4

----------------------------------------------------------------------------
(* The queues                                                              *)

LEMMA TailHolds ==
  ASSUME NEW S, NEW q \in Seq(S), q # <<>>, NoRepeat(q)
  PROVE  /\ NoRepeat(Tail(q)) /\ ~Holds(Tail(q), Head(q))
         /\ \A u : u # Head(q) => (Holds(Tail(q), u) <=> Holds(q, u))
         /\ Holds(q, Head(q)) /\ Head(q) \in S
<1>1. /\ Len(q) \in Nat \ {0} /\ DOMAIN q = 1 .. Len(q)
      /\ DOMAIN Tail(q) = 1 .. (Len(q) - 1)
      /\ \A i \in 1 .. (Len(q) - 1) : Tail(q)[i] = q[i + 1]
      /\ Head(q) = q[1] /\ Head(q) \in S
  OBVIOUS
<1>2. NoRepeat(Tail(q)) /\ ~Holds(Tail(q), Head(q))
  <2>1. ASSUME NEW i \in 1 .. (Len(q) - 1), NEW j \in 1 .. (Len(q) - 1), q[i + 1] = q[j + 1]
        PROVE  i = j
    BY <1>1, <2>1 DEF NoRepeat
  <2>2. \A i \in 1 .. (Len(q) - 1) : q[i + 1] # q[1]
    BY <1>1 DEF NoRepeat
  <2> QED BY <1>1, <2>1, <2>2 DEF NoRepeat, Holds
<1>3. ASSUME NEW u, u # Head(q) PROVE Holds(Tail(q), u) <=> Holds(q, u)
  <2>1. ASSUME NEW i \in 1 .. Len(q), q[i] = u PROVE Holds(Tail(q), u)
    <3>1. i - 1 \in 1 .. (Len(q) - 1) /\ (i - 1) + 1 = i
      BY <1>1, <1>3, <2>1
    <3> QED BY <1>1, <2>1, <3>1 DEF Holds
  <2>2. ASSUME NEW i \in 1 .. (Len(q) - 1), Tail(q)[i] = u PROVE Holds(q, u)
    <3>1. i + 1 \in 1 .. Len(q) /\ q[i + 1] = u
      BY <1>1, <2>2
    <3> QED BY <1>1, <3>1 DEF Holds
  <2> QED BY <1>1, <2>1, <2>2 DEF Holds
<1>4. Holds(q, Head(q))
  BY <1>1 DEF Holds
<1> QED BY <1>1, <1>2, <1>3, <1>4

LEMMA AppendHolds ==
  ASSUME NEW S, NEW q \in Seq(S), NEW t \in S, NoRepeat(q), ~Holds(q, t)
  PROVE  /\ NoRepeat(Append(q, t)) /\ Holds(Append(q, t), t)
         /\ \A u : u # t => (Holds(Append(q, t), u) <=> Holds(q, u))
<1>1. /\ Len(q) \in Nat /\ DOMAIN q = 1 .. Len(q)
      /\ DOMAIN Append(q, t) = 1 .. (Len(q) + 1)
      /\ \A i \in 1 .. Len(q) : Append(q, t)[i] = q[i]
      /\ Append(q, t)[Len(q) + 1] = t
  OBVIOUS
<1>2. \A i \in 1 .. (Len(q) + 1) : i \in 1 .. Len(q) \/ i = Len(q) + 1
  BY <1>1
<1>3. \A i \in 1 .. Len(q) : q[i] # t /\ i \in 1 .. (Len(q) + 1)
  BY <1>1 DEF Holds
<1>4. Len(q) + 1 \in 1 .. (Len(q) + 1)
  BY <1>1
<1>5. NoRepeat(Append(q, t))
  BY <1>1, <1>2, <1>3 DEF NoRepeat
<1>6. \A u : u # t => (Holds(Append(q, t), u) <=> Holds(q, u))
  BY <1>1, <1>2, <1>3 DEF Holds
<1>7. Holds(Append(q, t), t)
  BY <1>1, <1>4 DEF Holds
<1> QED BY <1>5, <1>6, <1>7

----------------------------------------------------------------------------
(* The steps of the master, one by one                                     *)

MasterAll == BrokerInv /\ MasterInv /\ ChannelInv /\ IntakeInv

\* Nothing that says where tasks are has changed, but what is listed
SameWorkers == /\ broker'.waiter = broker.waiter /\ broker'.task = broker.task
               /\ closed' = closed
SameResults == published' = published /\ compressing' = compressing
SameIntake  == /\ queue' = queue /\ reply' = reply /\ pushing' = pushing
               /\ arrived' = arrived /\ outdated' = outdated

LEMMA QuietServes ==
  ASSUME IntakeInv, SameWorkers, SameResults, SameIntake PROVE Serves
BY UntouchedServes DEF SameWorkers, SameResults, SameIntake, Untouched

LEMMA DropServes ==
  ASSUME MasterAll, SameWorkers, SameResults, queue' = queue, pushing' = pushing,
         arrived' = arrived, outdated' = outdated,
         \A c \in Channels : reply'[c] \in {reply[c], NoTask}
  PROVE  Serves
<1>1. \A t \in Tasks : Shrinks(t)
  BY SentinelAssumption DEF SameWorkers, SameResults, Shrinks, HasResult
<1>2. ASSUME NEW t \in Tasks
      PROVE  \/ TaskStatus(t)' = TaskStatus(t)
             \/ TaskStatus(t) \in {"taken", "running"} /\ TaskStatus(t)' = "lost"
  <2>1. OnePlace(t)
    BY DEF MasterAll, IntakeInv
  <2>2. CASE InReply(t)
    <3>1. TaskStatus(t) = "taken"
      BY <2>1, <2>2, StatusOfPlace
    <3>2. /\ t \in arrived' /\ ~(published'[t] > 0) /\ t \notin outdated'
          /\ ~(compressing'[t] > 0) /\ ~InQueue(t) /\ ~InPush(t) /\ ~Waits(t) /\ ~Works(t)
      BY <2>1, <2>2 DEF OnePlace, HasResult, SameResults
    <3>3. InQueue(t)' <=> InQueue(t)
      BY DEF InQueue
    <3>4. CASE InReply(t)'
      <4>1. InIntake(t)'
        BY <3>4 DEF InIntake, InReply
      <4> QED BY <3>1, <3>2, <3>3, <4>1 DEF TaskStatus
    <3>5. CASE ~InReply(t)'
      <4>1. ~InIntake(t)'
        BY <3>2, <3>5 DEF InIntake, InReply, InPush
      <4>2. ~(\E w \in Workers : broker'.waiter[w] = t)
        BY <3>2 DEF SameWorkers, Waits
      <4>3. ~(\E w \in Workers \ closed' : broker'.task[w] = t)
        BY <3>2 DEF SameWorkers, Works
      <4> QED BY <3>1, <3>2, <3>3, <4>1, <4>2, <4>3 DEF TaskStatus
    <3> QED BY <3>4, <3>5
  <2>3. CASE ~InReply(t)
    <3>1. Untouched(t)
      BY <2>3, SentinelAssumption DEF SameWorkers, SameResults, Untouched, InReply
    <3> QED BY <3>1, UntouchedKeepsStatus
  <2> QED BY <2>2, <2>3
<1> QED BY <1>1, <1>2, LossServes DEF MasterAll

LEMMA EnqueueServes ==
  ASSUME MasterAll, NEW t \in Tasks, Enqueue(t) PROVE Serves
<1> DEFINE c == ChannelOf(t)
<1>1. /\ c \in Channels /\ queue[c] \in Seq(Tasks) /\ queue \in [Channels -> Seq(Tasks)]
  BY DEF ChannelOf, Channels, MasterAll, MasterInv, IntakeTypes
<1>2. /\ OnePlace(t) /\ NoRepeat(queue[c])
      /\ \A d \in Channels : NoRepeat(queue[d])
  BY <1>1 DEF MasterAll, IntakeInv
<1>3. /\ t \notin arrived /\ arrived' = arrived \cup {t}
      /\ queue' = [queue EXCEPT ![c] = Append(@, t)]
      /\ SameWorkers /\ SameResults /\ reply' = reply /\ pushing' = pushing
      /\ outdated' = outdated
  BY DEF Enqueue, SameWorkers, SameResults, vars, processes, results
<1>4. ~(InQueue(t) \/ InReply(t) \/ InPush(t) \/ Waits(t) \/ Works(t) \/ HasResult(t))
      /\ t \notin outdated
  BY <1>2, <1>3 DEF OnePlace
<1>5. ~Holds(queue[c], t)
  BY <1>1, <1>4 DEF InQueue, Holds
<1> DEFINE q == Append(queue[c], t)
<1>6. /\ NoRepeat(q) /\ Holds(q, t)
      /\ \A u : u # t => (Holds(q, u) <=> Holds(queue[c], u))
  BY <1>1, <1>2, <1>5, AppendHolds
<1>7. \A d \in Channels : queue'[d] = IF d = c THEN q ELSE queue[d]
  BY <1>1, <1>3
<1> HIDE DEF q, c
<1>8. \A d \in Channels : NoRepeat(queue'[d])
  BY <1>2, <1>6, <1>7
<1>9. ASSUME NEW u \in Tasks \ {t} PROVE Untouched(u)
  <2>1. \A d \in Channels : Holds(queue'[d], u) <=> Holds(queue[d], u)
    BY <1>6, <1>7
  <2> QED BY <1>3, <2>1 DEF Untouched, SameWorkers, SameResults
<1>10. /\ ~InReply(t)' /\ ~InPush(t)' /\ ~Waits(t)' /\ ~Works(t)' /\ ~HasResult(t)'
       /\ t \in arrived' /\ t \notin outdated'
  BY <1>3, <1>4 DEF InReply, InPush, Waits, Works, HasResult, SameWorkers, SameResults
<1>11. InQueue(t)'
  BY <1>1, <1>6, <1>7 DEF InQueue, Holds
<1>12. OnePlace(t)'
  <2>1. \A d \in Channels :
          Holds(queue'[d], t) \/ reply'[d] = t \/ pushing'[d] = t => d = ChannelOf(t)
    <3>1. \A d \in Channels : d # c => ~Holds(queue'[d], t)
      BY <1>4, <1>7 DEF InQueue, Holds
    <3> QED BY <1>10, <3>1 DEF InReply, InPush, c
  <2> QED BY <1>10, <1>11, <2>1 DEF OnePlace, Waits
<1>13. TaskStatus(t) = "absent" /\ TaskStatus(t)' = "queued"
  BY <1>3, <1>11, <1>12, StatusOfNextPlace DEF TaskStatus
<1> QED BY <1>8, <1>9, <1>12, <1>13, MoveServes DEF Moves, MasterAll

LEMMA PopServes ==
  ASSUME MasterAll, NEW c \in Channels, Pop(c) PROVE Serves
<1> DEFINE q == Tail(queue[c])
<1>1. /\ queue[c] \in Seq(Tasks) /\ queue \in [Channels -> Seq(Tasks)]
      /\ reply \in [Channels -> Tasks \cup {NoTask}] /\ queue[c] # <<>>
      /\ \A d \in Channels : NoRepeat(queue[d])
  BY DEF MasterAll, MasterInv, IntakeTypes, Pop, IntakeInv
<1>0. PICK t \in Tasks : t = Head(queue[c])
  BY <1>1, TailHolds
<1>2. /\ NoRepeat(q) /\ ~Holds(q, t) /\ t \in Tasks /\ Holds(queue[c], t)
      /\ \A u : u # t => (Holds(q, u) <=> Holds(queue[c], u))
  BY <1>0, <1>1, TailHolds
<1>3. /\ reply[c] = NoTask /\ reply' = [reply EXCEPT ![c] = t]
      /\ queue' = [queue EXCEPT ![c] = q]
      /\ SameWorkers /\ SameResults /\ pushing' = pushing
      /\ arrived' = arrived /\ outdated' = outdated
  BY <1>0 DEF Pop, SameWorkers, SameResults, vars, processes, results
<1> HIDE DEF q
<1>4. OnePlace(t) /\ t # NoTask
  BY <1>2, SentinelAssumption DEF MasterAll, IntakeInv
<1>5. InQueue(t)
  BY <1>2 DEF InQueue, Holds
<1>6. /\ \A d \in Channels : queue'[d] = IF d = c THEN q ELSE queue[d]
      /\ \A d \in Channels : reply'[d] = IF d = c THEN t ELSE reply[d]
  BY <1>1, <1>3
<1>7. \A d \in Channels : NoRepeat(queue'[d])
  BY <1>1, <1>2, <1>6
<1>8. ASSUME NEW u \in Tasks \ {t} PROVE Untouched(u)
  <2>1. \A d \in Channels : Holds(queue'[d], u) <=> Holds(queue[d], u)
    BY <1>2, <1>6
  <2>2. \A d \in Channels : reply'[d] = u <=> reply[d] = u
    BY <1>3, <1>6, SentinelAssumption
  <2> QED BY <1>3, <2>1, <2>2 DEF Untouched, SameWorkers, SameResults
<1>9. /\ c = ChannelOf(t) /\ \A d \in Channels : Holds(queue[d], t) => d = c
      /\ ~InReply(t) /\ ~InPush(t) /\ ~Waits(t) /\ ~Works(t) /\ ~HasResult(t)
      /\ t \in arrived /\ t \notin outdated
  BY <1>2, <1>4, <1>5 DEF OnePlace
<1>10. \A d \in Channels : ~Holds(queue'[d], t)
  BY <1>2, <1>6, <1>9
<1>11. /\ ~InQueue(t)' /\ InReply(t)' /\ ~InPush(t)' /\ ~Waits(t)' /\ ~Works(t)' /\ ~HasResult(t)'
       /\ t \in arrived' /\ t \notin outdated'
  BY <1>3, <1>6, <1>9, <1>10
     DEF InQueue, Holds, InReply, InPush, Waits, Works, HasResult, SameWorkers, SameResults
<1>12. OnePlace(t)'
  <2>1. \A d \in Channels :
          Holds(queue'[d], t) \/ reply'[d] = t \/ pushing'[d] = t => d = ChannelOf(t)
    BY <1>6, <1>9, <1>10, <1>11 DEF InReply, InPush
  <2> QED BY <1>11, <2>1 DEF OnePlace, Waits
<1>13. TaskStatus(t) = "queued" /\ TaskStatus(t)' = "taken"
  BY <1>4, <1>5, <1>11, <1>12, StatusOfPlace, StatusOfNextPlace
<1> QED BY <1>2, <1>7, <1>8, <1>12, <1>13, MoveServes DEF Moves, MasterAll

LEMMA PushServes ==
  ASSUME MasterAll, NEW c \in Channels, PushTaskBack(c) PROVE Serves
<1>0. PICK t \in Tasks : t = pushing[c]
  BY DEF MasterAll, MasterInv, PushTaskBack, PushesTask
<1> DEFINE q == Append(queue[c], t)
<1>1. /\ queue[c] \in Seq(Tasks) /\ queue \in [Channels -> Seq(Tasks)] /\ t \in Tasks
      /\ pushing \in [Channels -> Tasks \cup {NoTask}]
      /\ \A d \in Channels : NoRepeat(queue[d])
  BY DEF MasterAll, MasterInv, IntakeTypes, PushTaskBack, IntakeInv, PushesTask
<1>2. /\ pushing' = [pushing EXCEPT ![c] = NoTask]
      /\ queue' = [queue EXCEPT ![c] = q]
      /\ SameWorkers /\ SameResults /\ reply' = reply
      /\ arrived' = arrived /\ outdated' = outdated
  BY <1>0 DEF PushTaskBack, SameWorkers, SameResults, vars, processes, results
<1>3. OnePlace(t) /\ t # NoTask /\ InPush(t) /\ pushing[c] = t
  BY <1>0, <1>1, SentinelAssumption DEF MasterAll, IntakeInv, InPush
<1>4. /\ c = ChannelOf(t) /\ \A d \in Channels : pushing[d] = t => d = c
      /\ ~InQueue(t) /\ ~InReply(t) /\ ~Waits(t) /\ ~Works(t) /\ ~HasResult(t)
      /\ t \in arrived /\ t \notin outdated
  BY <1>3 DEF OnePlace
<1>5. \A d \in Channels : ~Holds(queue[d], t)
  BY <1>4 DEF InQueue, Holds
<1>6. /\ NoRepeat(q) /\ Holds(q, t)
      /\ \A u : u # t => (Holds(q, u) <=> Holds(queue[c], u))
  BY <1>1, <1>5, AppendHolds
<1> HIDE DEF q
<1>7. /\ \A d \in Channels : queue'[d] = IF d = c THEN q ELSE queue[d]
      /\ \A d \in Channels : pushing'[d] = IF d = c THEN NoTask ELSE pushing[d]
  BY <1>1, <1>2
<1>8. \A d \in Channels : NoRepeat(queue'[d])
  BY <1>1, <1>6, <1>7
<1>9. ASSUME NEW u \in Tasks \ {t} PROVE Untouched(u)
  <2>1. \A d \in Channels : Holds(queue'[d], u) <=> Holds(queue[d], u)
    BY <1>6, <1>7
  <2>2. \A d \in Channels : pushing'[d] = u <=> pushing[d] = u
    BY <1>3, <1>7, SentinelAssumption
  <2> QED BY <1>2, <2>1, <2>2 DEF Untouched, SameWorkers, SameResults
<1>10. InQueue(t)'
  BY <1>6, <1>7 DEF InQueue, Holds
<1>11. /\ ~InReply(t)' /\ ~InPush(t)' /\ ~Waits(t)' /\ ~Works(t)' /\ ~HasResult(t)'
       /\ t \in arrived' /\ t \notin outdated'
  BY <1>2, <1>3, <1>4, <1>7
     DEF InReply, InPush, Waits, Works, HasResult, SameWorkers, SameResults
<1>12. OnePlace(t)'
  <2>1. \A d \in Channels :
          Holds(queue'[d], t) \/ reply'[d] = t \/ pushing'[d] = t => d = ChannelOf(t)
    BY <1>4, <1>5, <1>7, <1>11 DEF InReply, InPush
  <2> QED BY <1>10, <1>11, <2>1 DEF OnePlace, Waits
<1>13. TaskStatus(t) = "taken" /\ TaskStatus(t)' = "queued"
  BY <1>3, <1>10, <1>12, StatusOfPlace, StatusOfNextPlace
<1> QED BY <1>1, <1>8, <1>9, <1>12, <1>13, MoveServes DEF Moves, MasterAll

\* Where the tasks are after one was given away
LEMMA GivenPlaces ==
  ASSUME BrokerInv, NEW t \in Tasks, NEW s \in [Workers -> Tasks \cup {NoTask}],
         \A w \in Workers : s[w] \in {broker.waiter[w], NoTask} /\ s[w] # t,
         ~Works(t), GivenTo(s, t)
  PROVE  /\ \A u \in Tasks \ {t} : \A w \in Workers :
              /\ broker'.waiter[w] = u <=> s[w] = u
              /\ broker'.task[w] = u <=> broker.task[w] = u
         /\ \A v, w \in Workers : broker'.waiter[v] = t /\ broker'.waiter[w] = t => v = w
         /\ \/ Works(t)' /\ ~Waits(t)'
            \/ Waits(t)' /\ ~Works(t)'
<1>0. /\ broker.task \in [Workers -> Tasks \cup {NoTask}] /\ Unborn(broker)
      /\ \A w \in Workers : broker.task[w] # t
  BY BrokerOKFromType DEF BrokerInv, BrokerOK, BrokerType, Born, Works
<1>1. CASE /\ broker'.waiter = s
           /\ \E w \in Workers : /\ broker.task[w] = NoTask
                                 /\ broker'.task = [broker.task EXCEPT ![w] = t]
  <2>1. PICK w \in Workers : /\ broker.task[w] = NoTask
                             /\ broker'.task = [broker.task EXCEPT ![w] = t]
    BY <1>1
  <2>2. Works(t)' /\ ~Waits(t)'
    BY <1>0, <1>1, <2>1 DEF Works, Waits
  <2>3. \A u \in Tasks \ {t} : \A v \in Workers : broker'.task[v] = u <=> broker.task[v] = u
    BY <1>0, <2>1, SentinelAssumption
  <2> QED BY <1>1, <2>2, <2>3
<1>2. CASE /\ broker'.task = broker.task
           /\ \E n \in Workers \cap (broker'.cluster \ broker.cluster) :
                /\ broker.forks < n /\ n <= broker'.forks
                /\ broker'.waiter = [s EXCEPT ![n] = t]
  <2>1. PICK n \in Workers : broker.forks < n /\ broker'.waiter = [s EXCEPT ![n] = t]
    BY <1>2
  <2>2. n > broker.forks
    <3>1. n \in Nat /\ broker.forks \in Nat
      BY BrokerOKFromType DEF BrokerInv, BrokerOK, BrokerType, Workers
    <3> QED BY <2>1, <3>1
  <2>3. broker.waiter[n] = NoTask
    BY <1>0, <2>2 DEF Unborn
  <2>4. s[n] = NoTask
    BY <2>3
  <2>5. \A w \in Workers : broker'.waiter[w] = IF w = n THEN t ELSE s[w]
    BY <2>1
  <2>6. \A u \in Tasks \ {t} : \A w \in Workers : broker'.waiter[w] = u <=> s[w] = u
    BY <2>4, <2>5, SentinelAssumption
  <2>7. Waits(t)' /\ ~Works(t)'
    BY <1>0, <1>2, <2>5 DEF Works, Waits
  <2> QED BY <1>2, <2>5, <2>6, <2>7
<1> QED BY <1>1, <1>2 DEF GivenTo

LEMMA ReceiveServes ==
  ASSUME MasterAll, NEW c \in Channels, NEW t \in Tasks, ReceiveTask(c, t)
  PROVE  Serves
<1>0. /\ reply \in [Channels -> Tasks \cup {NoTask}]
      /\ pushing \in [Channels -> Tasks \cup {NoTask}]
      /\ OnePlace(t) /\ t # NoTask /\ \A d \in Channels : NoRepeat(queue[d])
  BY SentinelAssumption DEF MasterAll, MasterInv, IntakeTypes, IntakeInv
<1>1. /\ reply[c] = t /\ reply' = [reply EXCEPT ![c] = NoTask]
      /\ queue' = queue /\ arrived' = arrived /\ SameResults
  BY DEF ReceiveTask, OnMalformedTask, OnOutdatedTask, OnRateLimitedTask, OnTask, Received,
         SameResults, results
<1>2. /\ c = ChannelOf(t) /\ \A d \in Channels : reply[d] = t => d = c
      /\ InReply(t) /\ ~InQueue(t) /\ ~InPush(t) /\ ~Waits(t) /\ ~Works(t) /\ ~HasResult(t)
      /\ t \in arrived /\ t \notin outdated
  BY <1>0, <1>1 DEF OnePlace, InReply
<1>3. TaskStatus(t) = "taken"
  BY <1>0, <1>2, StatusOfPlace
<1>4. /\ \A d \in Channels : reply'[d] # t
      /\ \A u \in Tasks \ {t} : \A d \in Channels : reply'[d] = u <=> reply[d] = u
  BY <1>0, <1>1, <1>2, SentinelAssumption
<1>5. /\ ~InQueue(t)' /\ ~InReply(t)' /\ ~HasResult(t)' /\ t \in arrived'
      /\ \A d \in Channels : ~Holds(queue'[d], t)
  BY <1>1, <1>2, <1>4 DEF InQueue, InReply, HasResult, SameResults, Holds
<1>6. CASE pushing' = pushing /\ outdated' = outdated /\ SameWorkers
  BY <1>0, <1>1, <1>6, DropServes
<1>7. CASE OnMalformedTask(c, t)
  BY <1>6, <1>7 DEF OnMalformedTask, SameWorkers, vars, processes
<1>8. CASE OnOutdatedTask(c, t)
  <2>1. pushing' = pushing /\ outdated' = outdated \cup {t} /\ SameWorkers
    BY <1>8 DEF OnOutdatedTask, SameWorkers, vars, processes
  <2>2. ASSUME NEW u \in Tasks \ {t} PROVE Untouched(u)
    BY <1>1, <1>4, <2>1 DEF Untouched, SameWorkers, SameResults
  <2>3. ~InPush(t)' /\ ~Waits(t)' /\ ~Works(t)' /\ t \in outdated'
    BY <1>2, <2>1 DEF InPush, Waits, Works, SameWorkers
  <2>4. OnePlace(t)'
    BY <1>5, <2>3 DEF OnePlace, InReply, InPush, Waits
  <2>5. TaskStatus(t)' = "discarded"
    BY <1>5, <2>3 DEF TaskStatus, HasResult
  <2>6. \A d \in Channels : NoRepeat(queue'[d])
    BY <1>0, <1>1
  <2> QED BY <1>3, <2>2, <2>4, <2>5, <2>6, MoveServes DEF MasterAll, Moves
<1>9. CASE OnRateLimitedTask(c, t)
  <2>1. outdated' = outdated /\ SameWorkers
        /\ (pushing' = pushing \/ pushing' = [pushing EXCEPT ![c] = t])
    BY <1>9 DEF OnRateLimitedTask, SameWorkers, vars, processes
  <2>2. CASE pushing' = pushing
    BY <1>6, <2>1, <2>2
  <2>3. CASE pushing' = [pushing EXCEPT ![c] = t]
    <3>1. \A d \in Channels : pushing'[d] = IF d = c THEN t ELSE pushing[d]
      BY <1>0, <2>3
    <3>2. pushing[c] = NoTask
      BY <1>0, <1>1 DEF MasterAll, ChannelInv, ReplyFits
    <3>3. \A u \in Tasks \ {t} : \A d \in Channels : pushing'[d] = u <=> pushing[d] = u
      BY <3>1, <3>2, SentinelAssumption
    <3>4. ASSUME NEW u \in Tasks \ {t} PROVE Untouched(u)
      BY <1>1, <1>4, <2>1, <3>3 DEF Untouched, SameWorkers, SameResults
    <3>5. /\ InPush(t)' /\ ~Waits(t)' /\ ~Works(t)' /\ t \notin outdated'
          /\ \A d \in Channels : pushing'[d] = t => d = c
      BY <1>2, <2>1, <3>1 DEF InPush, Waits, Works, SameWorkers
    <3>6. OnePlace(t)'
      BY <1>2, <1>4, <1>5, <3>5 DEF OnePlace, Waits
    <3>7. TaskStatus(t)' = "taken"
      BY <3>5, <3>6, StatusOfNextPlace
    <3>8. \A d \in Channels : NoRepeat(queue'[d])
      BY <1>0, <1>1
    <3> QED BY <1>3, <3>4, <3>6, <3>7, <3>8, MoveServes DEF MasterAll
  <2> QED BY <2>1, <2>2, <2>3
<1>10. CASE OnTask(c, t)
  <2>1. GetWorkerForTask(t) /\ pushing' = pushing /\ outdated' = outdated
    BY <1>10 DEF OnTask
  <2>2. closed' = closed
    BY <2>1 DEF GetWorkerForTask
  <2>3. GivenTo(broker.waiter, t)
    BY <2>1, RequestHolds DEF MasterAll
  <2>4. broker.waiter \in [Workers -> Tasks \cup {NoTask}]
    BY DEF MasterAll, BrokerInv, TypeOK, BrokerType
  <2>5. \A w \in Workers : broker.waiter[w] # t
    BY <1>2 DEF Waits
  <2>6. /\ \A u \in Tasks \ {t} : \A w \in Workers :
             /\ broker'.waiter[w] = u <=> broker.waiter[w] = u
             /\ broker'.task[w] = u <=> broker.task[w] = u
        /\ \A v, w \in Workers : broker'.waiter[v] = t /\ broker'.waiter[w] = t => v = w
        /\ \/ Works(t)' /\ ~Waits(t)'
           \/ Waits(t)' /\ ~Works(t)'
    BY <1>2, <2>3, <2>4, <2>5, GivenPlaces DEF MasterAll
  <2>7. ASSUME NEW u \in Tasks \ {t} PROVE Untouched(u)
    BY <1>1, <1>4, <2>1, <2>2, <2>6 DEF Untouched, SameResults
  <2>8. ~InPush(t)' /\ t \notin outdated'
    BY <1>2, <2>1 DEF InPush
  <2>9. OnePlace(t)'
    BY <1>5, <2>6, <2>8 DEF OnePlace, InReply, InPush
  <2>10. TaskStatus(t)' \in {"taken", "running", "lost"}
    BY <1>5, <2>6, <2>9, StatusOfNextPlace DEF HasResult
  <2>11. \A d \in Channels : NoRepeat(queue'[d])
    BY <1>0, <1>1
  <2> QED BY <1>3, <2>7, <2>9, <2>10, <2>11, MoveServes DEF MasterAll, Moves
<1> QED BY <1>7, <1>8, <1>9, <1>10 DEF ReceiveTask

LEMMA CompressedServes ==
  ASSUME MasterAll, NEW t \in Tasks, OnResultCompressed(t) PROVE Serves
<1>0. /\ compressing \in [Tasks -> Nat] /\ published \in [Tasks -> Nat] /\ OnePlace(t)
      /\ compressing[t] > 0 /\ compressing' = [compressing EXCEPT ![t] = @ - 1]
      /\ published' \in {published, [published EXCEPT ![t] = @ + 1]}
      /\ SameWorkers /\ SameIntake
  BY DEF OnResultCompressed, Publish, MasterAll, MasterInv, IntakeTypes, IntakeInv, SameWorkers,
         SameIntake, intake, vars, processes
<1>1. ASSUME NEW u \in Tasks \ {t} PROVE Untouched(u)
  BY <1>0 DEF Untouched, SameWorkers, SameIntake
<1>2. published[t] > 0 => published'[t] > 0
  BY <1>0
<1>3. HasResult(t)
  BY <1>0 DEF HasResult
<1>4. Shrinks(t)
  BY <1>0, <1>3 DEF Shrinks, SameWorkers, SameIntake
<1>5. OnePlace(t)'
  BY <1>0, <1>4, ShrinkingKeepsPlace
<1>6. /\ t \in arrived' /\ t \notin outdated' /\ ~InQueue(t)'
      /\ ~InReply(t)' /\ ~InPush(t)' /\ ~Waits(t)'
  BY <1>0, <1>3 DEF OnePlace, SameWorkers, SameIntake, InQueue, InReply, InPush, Waits
<1>7. TaskStatus(t) = IF published[t] > 0 THEN "answered" ELSE "running"
  BY <1>0, StatusOfPlace
<1>8. /\ published'[t] > 0 => TaskStatus(t)' = "answered"
      /\ ~(published'[t] > 0) => TaskStatus(t)' \in {"running", "lost"}
  BY <1>6 DEF TaskStatus, InIntake, InReply, InPush, Waits
<1>9. \A d \in Channels : NoRepeat(queue'[d])
  BY <1>0 DEF MasterAll, IntakeInv, SameIntake
<1> QED BY <1>1, <1>2, <1>5, <1>7, <1>8, <1>9, MoveServes DEF MasterAll, Moves

LEMMA ProcessedServes ==
  ASSUME MasterAll, NEW w \in Workers, OnTaskProcessed(w) PROVE Serves
<1>0. /\ OnWorkerTaskProcessed(w) /\ SameIntake
      /\ compressing \in [Tasks -> Nat] /\ published \in [Tasks -> Nat]
  BY DEF OnTaskProcessed, SameIntake, intake, MasterAll, MasterInv, IntakeTypes
<1>1. pipe[w] # <<>> /\ Head(pipe[w]).type = "processed" /\ closed' = closed
  BY <1>0 DEF OnWorkerTaskProcessed, OnMessage, Read
<1>2. SameWorkers
  BY <1>0, <1>1, EventHolds DEF MasterAll, KeepsHolders, SameWorkers
<1>3. broker.task[w] \in Tasks /\ w \notin closed
  <2>1. /\ pipe[w] \in Seq([type : MessageTypes, task : Tasks \cup {NoTask}])
        /\ broker.task \in [Workers -> Tasks \cup {NoTask}]
    BY DEF MasterAll, BrokerInv, TypeOK, BrokerType
  <2>2. 1 \in DOMAIN pipe[w] /\ pipe[w][1].type # "started"
    BY <1>1, <2>1
  <2>3. broker.task[w] # NoTask
    BY <2>2 DEF MasterAll, BrokerInv, AInv, Answering
  <2>4. w \notin closed
    BY <1>1 DEF MasterAll, BrokerInv, Born
  <2> QED BY <2>1, <2>3, <2>4
<1>4. PICK t \in Tasks : t = broker.task[w]
  BY <1>3
<1>5. OnePlace(t) /\ Works(t) /\ \E v \in Workers \ closed : broker.task[v] = t
  BY <1>3, <1>4 DEF MasterAll, IntakeInv, Works
<1>6. \/ compressing' = compressing /\ published' = [published EXCEPT ![t] = @ + 1]
      \/ published' = published /\ compressing' = [compressing EXCEPT ![t] = @ + 1]
      \/ published' = published /\ compressing' = compressing
  BY <1>4 DEF OnTaskProcessed, Publish
<1>7. ASSUME NEW u \in Tasks \ {t} PROVE Untouched(u)
  BY <1>0, <1>2, <1>6 DEF Untouched, SameWorkers, SameIntake
<1>8. /\ t \in arrived' /\ t \notin outdated' /\ ~InQueue(t)'
      /\ ~InReply(t)' /\ ~InPush(t)' /\ ~Waits(t)' /\ Works(t)'
  BY <1>0, <1>2, <1>5
     DEF OnePlace, SameWorkers, SameIntake, InQueue, InReply, InPush, Waits, Works
<1>9. OnePlace(t)'
  <2>1. \A d \in Channels : ~Holds(queue'[d], t) /\ reply'[d] # t /\ pushing'[d] # t
    BY <1>8 DEF InQueue, InReply, InPush, Holds
  <2> QED BY <1>8, <2>1 DEF OnePlace, Waits
<1>10. TaskStatus(t) = IF published[t] > 0 THEN "answered" ELSE "running"
  BY <1>5, StatusOfPlace
<1>11. TaskStatus(t)' = IF published'[t] > 0 THEN "answered" ELSE "running"
  <2>1. \E v \in Workers \ closed' : broker'.task[v] = t
    BY <1>2, <1>5 DEF SameWorkers
  <2> QED BY <1>8, <1>9, <2>1, StatusOfNextPlace
<1>12. published[t] > 0 => published'[t] > 0
  BY <1>0, <1>6
<1>13. \A d \in Channels : NoRepeat(queue'[d])
  BY <1>0 DEF MasterAll, IntakeInv, SameIntake
<1> QED BY <1>7, <1>9, <1>10, <1>11, <1>12, <1>13, MoveServes DEF MasterAll, Moves

LEMMA StartedServes ==
  ASSUME MasterAll, NEW w \in Workers, OnStarted(w) PROVE Serves
<1> DEFINE s == [broker.waiter EXCEPT ![w] = NoTask]
<1>0. OnWorkerStarted(w) /\ SameResults /\ SameIntake /\ closed' = closed
  BY DEF OnStarted, OnWorkerStarted, OnMessage, SameResults, SameIntake, results
<1>1. /\ broker.waiter[w] = NoTask =>
           broker'.waiter = broker.waiter /\ broker'.task = broker.task
      /\ broker.waiter[w] # NoTask =>
           broker.waiter[w] \in Tasks /\ GivenTo(s, broker.waiter[w])
  BY <1>0, StartedHolds DEF MasterAll
<1>2. CASE broker.waiter[w] = NoTask
  BY <1>0, <1>1, <1>2, QuietServes DEF SameWorkers, MasterAll
<1>3. CASE broker.waiter[w] # NoTask
  <2>1. PICK t \in Tasks : t = broker.waiter[w]
    BY <1>1, <1>3
  <2>2. broker.waiter \in [Workers -> Tasks \cup {NoTask}] /\ t # NoTask
    BY SentinelAssumption DEF MasterAll, BrokerInv, TypeOK, BrokerType
  <2>3. OnePlace(t) /\ Waits(t) /\ \A d \in Channels : NoRepeat(queue[d])
    BY <2>1 DEF MasterAll, IntakeInv, Waits
  <2>4. /\ ~InQueue(t) /\ ~InReply(t) /\ ~InPush(t) /\ ~Works(t) /\ ~HasResult(t)
        /\ t \in arrived /\ t \notin outdated
        /\ \A v \in Workers : broker.waiter[v] = t => v = w
    BY <2>1, <2>3 DEF OnePlace
  <2>5. /\ s \in [Workers -> Tasks \cup {NoTask}] /\ GivenTo(s, t)
        /\ \A v \in Workers : s[v] = IF v = w THEN NoTask ELSE broker.waiter[v]
    BY <1>1, <1>3, <2>1, <2>2
  <2> HIDE DEF s
  <2>6. \A v \in Workers : s[v] \in {broker.waiter[v], NoTask} /\ s[v] # t
    BY <2>2, <2>4, <2>5
  <2>7. /\ \A u \in Tasks \ {t} : \A v \in Workers :
             /\ broker'.waiter[v] = u <=> s[v] = u
             /\ broker'.task[v] = u <=> broker.task[v] = u
        /\ \A v, x \in Workers : broker'.waiter[v] = t /\ broker'.waiter[x] = t => v = x
        /\ \/ Works(t)' /\ ~Waits(t)'
           \/ Waits(t)' /\ ~Works(t)'
    BY <2>4, <2>5, <2>6, GivenPlaces DEF MasterAll
  <2>8. \A u \in Tasks \ {t} : \A v \in Workers : s[v] = u <=> broker.waiter[v] = u
    BY <2>1, <2>5, SentinelAssumption
  <2>9. ASSUME NEW u \in Tasks \ {t} PROVE Untouched(u)
    BY <1>0, <2>7, <2>8 DEF Untouched, SameResults, SameIntake
  <2>10. /\ ~InQueue(t)' /\ ~InReply(t)' /\ ~InPush(t)' /\ ~HasResult(t)'
         /\ t \in arrived' /\ t \notin outdated'
    BY <1>0, <2>4 DEF InQueue, InReply, InPush, HasResult, SameResults, SameIntake
  <2>11. OnePlace(t)'
    <3>1. \A d \in Channels : ~Holds(queue'[d], t) /\ reply'[d] # t /\ pushing'[d] # t
      BY <2>10 DEF InQueue, InReply, InPush, Holds
    <3> QED BY <2>7, <2>10, <3>1 DEF OnePlace
  <2>12. TaskStatus(t) = "taken" /\ TaskStatus(t)' \in {"taken", "running", "lost"}
    BY <2>3, <2>7, <2>10, <2>11, StatusOfPlace, StatusOfNextPlace DEF HasResult
  <2>13. \A d \in Channels : NoRepeat(queue'[d])
    BY <1>0, <2>3 DEF SameIntake
  <2> QED BY <2>9, <2>11, <2>12, <2>13, MoveServes DEF MasterAll, Moves
<1> QED BY <1>2, <1>3

\* A task is forgotten, or its worker is gone with all it has sent
LEMMA ReleaseServes ==
  ASSUME MasterAll, broker'.waiter = broker.waiter, closed \subseteq closed',
         \A w \in Workers : broker'.task[w] \in {broker.task[w], NoTask},
         SameResults, SameIntake
  PROVE  Serves
<1>1. \A t \in Tasks : Shrinks(t)
  BY SentinelAssumption DEF Shrinks, HasResult, SameResults, SameIntake
<1>2. ASSUME NEW t \in Tasks
      PROVE  \/ TaskStatus(t)' = TaskStatus(t)
             \/ TaskStatus(t) \in {"taken", "running"} /\ TaskStatus(t)' = "lost"
  <2>1. /\ InQueue(t)' <=> InQueue(t)
        /\ InIntake(t)' <=> InIntake(t)
        /\ (\E w \in Workers : broker'.waiter[w] = t) <=> (\E w \in Workers : broker.waiter[w] = t)
    BY DEF InQueue, InIntake, SameIntake
  <2>2. (\E w \in Workers \ closed' : broker'.task[w] = t)
          => (\E w \in Workers \ closed : broker.task[w] = t)
    BY SentinelAssumption
  <2>3. /\ t \in arrived' <=> t \in arrived
        /\ t \in outdated' <=> t \in outdated
        /\ published'[t] > 0 <=> published[t] > 0
        /\ compressing'[t] > 0 <=> compressing[t] > 0
    BY DEF SameResults, SameIntake
  <2> QED BY <2>1, <2>2, <2>3 DEF TaskStatus
<1> QED BY <1>1, <1>2, LossServes DEF MasterAll, SameIntake

LEMMA EventsServe ==
  ASSUME MasterAll,
         \/ \E w \in Workers : OnBrokerMessage(w) \/ RunProcess(w) \/ CrashProcess(w)
         \/ OnReadyForNextTasks \/ OnReconnect \/ OnBrokerEvent \/ StopMaster \/ Exit
         \/ \E c \in Channels : OnGetterFailure(c) \/ OnTaskPushedBack(c) \/ OnCompressedReply(c)
  PROVE  Serves
<1>0. IntakeInv /\ BrokerInv
  BY DEF MasterAll
<1>1. ASSUME SameIntake, SameResults, KeepsHolders, closed \subseteq closed' PROVE Serves
  BY <1>1, ReleaseServes DEF KeepsHolders
<1>2. ASSUME UNCHANGED vars, SameResults, SameIntake PROVE Serves
  BY <1>0, <1>2, QuietServes DEF SameWorkers, vars, processes
<1>3. ASSUME NEW w \in Workers, OnBrokerMessage(w) PROVE Serves
  <2>1. SameIntake /\ SameResults
    BY <1>3 DEF OnBrokerMessage, SameIntake, SameResults, intake, results
  <2>2. closed' = closed
    BY <1>3 DEF OnBrokerMessage, OnWorkerCriticalError, OnWorkerIdling, OnMessage
  <2>3. CASE OnWorkerCriticalError(w)
    BY <1>0, <1>1, <2>1, <2>2, <2>3, EventHolds
  <2>4. CASE OnWorkerIdling(w)
    BY <1>0, <2>1, <2>2, <2>4, IdlingHolds, ReleaseServes
  <2> QED BY <1>3, <2>3, <2>4 DEF OnBrokerMessage
<1>4. ASSUME NEW w \in Workers, RunProcess(w) \/ CrashProcess(w) PROVE Serves
  <2>1. broker' = broker /\ closed' = closed
    BY <1>4 DEF RunProcess, CrashProcess, RunWorker, Boot, FinishTask, FailTask, RepeatResult,
                ReportCriticalError, ReportIdling, Crash, Send
  <2>2. SameIntake /\ SameResults
    BY <1>4 DEF RunProcess, CrashProcess, SameIntake, SameResults, intake, results
  <2> QED BY <1>0, <2>1, <2>2, QuietServes DEF SameWorkers
<1>5. CASE OnBrokerEvent
  <2>1. SameIntake /\ SameResults
    BY <1>5 DEF OnBrokerEvent, SameIntake, SameResults, intake, results
  <2>2. ASSUME NEW w \in Workers, OnWorkerExit(w) \/ OnDisconnect(w) PROVE Serves
    <3>1. closed \subseteq closed'
      BY <2>2 DEF OnWorkerExit, OnDisconnect
    <3> QED BY <1>0, <1>1, <2>1, <2>2, <3>1, EventHolds
  <2>3. ASSUME NEW w \in Workers,
               OnExpirationTimer(w) \/ OnIdlingTimer(w) \/ KillExpiredWorker(w)
        PROVE  Serves
    <3>1. closed' = closed
      BY <2>3 DEF OnExpirationTimer, OnIdlingTimer, KillExpiredWorker, Loop
    <3> QED BY <1>0, <1>1, <2>1, <2>3, <3>1, TimerHolds
  <2>4. CASE \/ OnHeartbeatTimer \/ EndHeartbeat \/ \E a \in Apps : KillAllAppWorkers(a)
             \/ VisitCachedWorker \/ EndDeploy
    <3>1. closed' = closed
      BY <2>4 DEF OnHeartbeatTimer, EndHeartbeat, KillAllAppWorkers, VisitCachedWorker,
                  EndDeploy, Loop
    <3> QED BY <1>0, <1>1, <2>1, <2>4, <3>1, LoopsHold
  <2> QED BY <1>5, <2>2, <2>3, <2>4 DEF OnBrokerEvent
<1>6. CASE OnReadyForNextTasks
  <2>1. EmitReady /\ SameIntake /\ SameResults /\ closed' = closed
    BY <1>6 DEF OnReadyForNextTasks, EmitReady, SameIntake, SameResults, results
  <2> QED BY <1>0, <1>1, <2>1, LoopsHold
<1>7. CASE OnReconnect \/ Exit
  BY <1>2, <1>7 DEF OnReconnect, Exit, SameIntake, SameResults, intake, results
<1>8. CASE StopMaster
  <2>1. Stop /\ closed' = closed
    BY <1>8 DEF StopMaster, Stop
  <2>2. SameWorkers
    BY <1>0, <2>1, LoopsHold DEF KeepsHolders, SameWorkers
  <2>3. /\ queue' = queue /\ pushing' = pushing /\ arrived' = arrived /\ outdated' = outdated
        /\ SameResults /\ \A c \in Channels : reply'[c] \in {reply[c], NoTask}
    BY <1>8 DEF StopMaster, SameResults, results
  <2> QED BY <2>2, <2>3, DropServes
<1>9. ASSUME NEW c \in Channels, OnGetterFailure(c) PROVE Serves
  <2>1. SameWorkers
    BY <1>9 DEF OnGetterFailure, SameWorkers, vars, processes
  <2>2. /\ queue' = queue /\ pushing' = pushing /\ arrived' = arrived /\ outdated' = outdated
        /\ SameResults /\ reply' = [reply EXCEPT ![c] = NoTask]
    BY <1>9 DEF OnGetterFailure, SameResults, results
  <2>3. \A d \in Channels : reply'[d] \in {reply[d], NoTask}
    BY <2>2 DEF MasterAll, MasterInv, IntakeTypes
  <2> QED BY <2>1, <2>2, <2>3, DropServes
<1>10. ASSUME NEW c \in Channels, OnTaskPushedBack(c) \/ OnCompressedReply(c) PROVE Serves
  BY <1>2, <1>10 DEF OnTaskPushedBack, OnCompressedReply, SameIntake, SameResults, results
<1> QED BY <1>3, <1>4, <1>5, <1>6, <1>7, <1>8, <1>9, <1>10

LEMMA NextServes ==
  ASSUME MasterAll, [MasterNext]_masterVars PROVE Serves
<1>1. CASE UNCHANGED masterVars
  <2>1. SameIntake /\ SameResults /\ SameWorkers
    BY <1>1 DEF masterVars, intake, results, vars, processes, SameIntake, SameResults,
                SameWorkers
  <2> QED BY <2>1, QuietServes DEF MasterAll
<1>2. CASE MasterNext
  BY <1>2, EnqueueServes, PopServes, PushServes, ReceiveServes, CompressedServes,
     ProcessedServes, StartedServes, EventsServe DEF MasterNext
<1> QED BY <1>1, <1>2

LEMMA InitServes == MasterInit => IntakeInv /\ Service!Init
<1> SUFFICES ASSUME MasterInit PROVE IntakeInv /\ Service!Init
  OBVIOUS
<1>1. broker = KeepMinIdleWorkersCount(NewBroker)
  BY DEF MasterInit, Init
<1>2. \A w \in Workers : broker.waiter[w] = NoTask /\ broker.task[w] = NoTask
  BY <1>1 DEF KeepMinIdleWorkersCount, Fork, NewBroker
<1>3. /\ queue = [c \in Channels |-> <<>>] /\ arrived = {} /\ outdated = {}
      /\ reply = [c \in Channels |-> NoTask] /\ pushing = [c \in Channels |-> NoTask]
      /\ compressing = [t \in Tasks |-> 0] /\ published = [t \in Tasks |-> 0]
  BY DEF MasterInit
<1>4. \A c \in Channels : NoRepeat(queue[c]) /\ \A t : ~Holds(queue[c], t)
  BY <1>3 DEF NoRepeat, Holds
<1>5. ASSUME NEW t \in Tasks PROVE OnePlace(t)
  <2>1. t # NoTask
    BY SentinelAssumption
  <2>2. ~(InQueue(t) \/ InReply(t) \/ InPush(t) \/ Waits(t) \/ Works(t) \/ HasResult(t))
    BY <1>2, <1>3, <1>4, <2>1 DEF InQueue, InReply, InPush, Waits, Works, HasResult, Holds
  <2>3. \A c \in Channels : ~Holds(queue[c], t) /\ reply[c] # t /\ pushing[c] # t
    BY <1>3, <1>4, <2>1
  <2> QED BY <1>3, <2>2, <2>3 DEF OnePlace, Waits
<1>6. \A t \in Tasks : TaskStatus(t) = "absent"
  BY <1>3 DEF TaskStatus
<1> QED BY <1>4, <1>5, <1>6 DEF IntakeInv, Service!Init

----------------------------------------------------------------------------
(* ChannelInv is an invariant                                              *)

LEMMA ForksGrow ==
  ASSUME BrokerInv, [Next]_vars PROVE broker.forks <= broker'.forks
<1>0. broker.forks \in Nat
  BY DEF BrokerInv, TypeOK, BrokerType
<1>1. CASE broker' = broker
  BY <1>0, <1>1
<1>2. CASE UNCHANGED vars \/ \E w \in Workers : RunWorker(w) \/ Crash(w)
  BY <1>1, <1>2 DEF vars, RunWorker, Boot, FinishTask, FailTask, RepeatResult,
                    ReportCriticalError, ReportIdling, Crash, Send
<1>3. CASE \E t \in Tasks : GetWorkerForTask(t)
  BY <1>3, RequestHolds DEF Grows
<1>4. CASE \E w \in Workers : OnWorkerEvent(w)
  BY <1>4, EventHolds, IdlingHolds, StartedHolds DEF OnWorkerEvent, KeepsHolders, Grows
<1>5. CASE \E w \in Workers : OnExpirationTimer(w) \/ OnIdlingTimer(w) \/ KillExpiredWorker(w)
  BY <1>5, TimerHolds DEF KeepsHolders, Grows
<1>6. CASE \/ OnHeartbeatTimer \/ EndHeartbeat \/ \E a \in Apps : KillAllAppWorkers(a)
           \/ VisitCachedWorker \/ EndDeploy \/ Stop \/ EmitReady
  BY <1>6, LoopsHold DEF KeepsHolders, Grows
<1> QED BY <1>2, <1>3, <1>4, <1>5, <1>6 DEF Next

LEMMA RequestedChains ==
  ASSUME NEW r \in [Channels -> RequestStates], NEW b, NEW c \in Channels
  PROVE  Requested(r, b)[c] = r[c] \/ (r[c] = "none" /\ Requested(r, b)[c] = "getting")
BY DEF Requested

LEMMA NextRequestChains ==
  ASSUME IntakeTypes, NEW c \in Channels, NEW d \in Channels
  PROVE  IF d = c THEN NextRequest(c)[d] \in {"none", "getting"}
         ELSE \/ NextRequest(c)[d] = request[d]
              \/ request[d] = "none" /\ NextRequest(c)[d] = "getting"
<1> DEFINE r == [request EXCEPT ![c] = "none"]
<1>1. r \in [Channels -> RequestStates] /\ r[d] = IF d = c THEN "none" ELSE request[d]
  BY DEF IntakeTypes, RequestStates
<1>2. NextRequest(c) = Requested(r, broker)
  BY DEF NextRequest
<1> HIDE DEF r
<1> QED BY <1>1, <1>2, RequestedChains

\* No slot is given or taken
LEMMA SameSlots ==
  ASSUME BrokerInv, IntakeTypes, ChannelInv, TypeOK', broker.forks <= broker'.forks,
         slot' = slot,
         \A c \in Channels : /\ ReplyFits(reply'[c], request'[c])
                             /\ pushing'[c] # NoTask => request'[c] = "pushing"
                             /\ request'[c] = "starting" <=> request[c] = "starting"
  PROVE  ChannelInv'
<1>1. broker.forks \in Nat /\ broker'.forks \in Nat /\ Workers \subseteq Nat
  BY DEF BrokerInv, TypeOK, BrokerType, Workers
<1>2. ASSUME NEW w \in Workers, slot'[w] # NoChannel PROVE w <= broker'.forks
  <2>1. w \in Nat /\ w <= broker.forks
    BY <1>1, <1>2 DEF ChannelInv
  <2> QED BY <1>1, <2>1
<1> QED BY <1>2 DEF ChannelInv

\* The chain of channel c has moved on, or others have begun
LEMMA ChainSlots ==
  ASSUME BrokerInv, IntakeTypes, ChannelInv, TypeOK', broker.forks <= broker'.forks,
         slot' = slot, NEW c \in Channels, request[c] # "starting",
         request' = NextRequest(c), reply'[c] = NoTask, pushing'[c] = NoTask,
         \A d \in Channels \ {c} : reply'[d] = reply[d] /\ pushing'[d] = pushing[d]
  PROVE  ChannelInv'
<1>1. ASSUME NEW d \in Channels
      PROVE  /\ ReplyFits(reply'[d], request'[d])
             /\ pushing'[d] # NoTask => request'[d] = "pushing"
             /\ request'[d] = "starting" <=> request[d] = "starting"
  BY NextRequestChains DEF ChannelInv, ReplyFits
<1> QED BY <1>1, SameSlots

LEMMA OnTaskSlots ==
  ASSUME BrokerInv, IntakeTypes, ChannelInv, TypeOK', broker.forks <= broker'.forks,
         NEW c \in Channels, NEW t \in Tasks, OnTask(c, t)
  PROVE  ChannelInv'
<1> DEFINE new == {w \in broker'.cluster \ broker.cluster : broker'.waiter[w] = t}
<1>0. /\ broker.forks \in Nat /\ broker'.forks \in Nat /\ Workers \subseteq Nat
      /\ broker'.cluster \subseteq Workers /\ Unborn(broker) /\ t # NoTask
      /\ broker.waiter \in [Workers -> Tasks \cup {NoTask}]
  BY SentinelAssumption, OptionsAssumption DEF BrokerInv, TypeOK, BrokerType, Workers, Born
<1>1. /\ GetWorkerForTask(t) /\ broker' = Dispatch(broker, t)
      /\ reply[c] = t /\ reply' = [reply EXCEPT ![c] = NoTask] /\ pushing' = pushing
  BY DEF OnTask, GetWorkerForTask, Handled, Received
<1>2. GivenTo(broker.waiter, t) /\ Grows(broker, broker')
  BY <1>1, RequestHolds
<1>3. request[c] \in {"getting", "decompressing"} /\ pushing[c] = NoTask
  BY <1>0, <1>1 DEF ChannelInv, ReplyFits
<1>4. \E A \in {{}, new} :
        /\ request' = [request EXCEPT ![c] = IF A = {} THEN "none" ELSE "starting"]
        /\ slot' = [w \in Workers |-> IF w \in A THEN c ELSE slot[w]]
  BY <1>1 DEF OnTask
<1>5. \A w \in broker'.cluster \ broker.cluster : broker.waiter[w] = NoTask
  BY <1>0, <1>2 DEF Grows, Unborn
<1>6. new = {} \/ \E n \in Workers : /\ new = {n} /\ n > broker.forks /\ n <= broker'.forks
  <2>1. CASE broker'.waiter = broker.waiter
    BY <1>0, <1>5, <2>1
  <2>2. ASSUME NEW n \in Workers \cap (broker'.cluster \ broker.cluster),
               broker.forks < n, n <= broker'.forks,
               broker'.waiter = [broker.waiter EXCEPT ![n] = t]
        PROVE  new = {n} /\ n > broker.forks
    <3>1. \A w \in Workers : broker'.waiter[w] = IF w = n THEN t ELSE broker.waiter[w]
      BY <1>0, <2>2
    <3>2. n > broker.forks
      BY <1>0, <2>2
    <3> QED BY <1>0, <1>5, <2>2, <3>1, <3>2
  <2> QED BY <1>2, <2>1, <2>2 DEF GivenTo
<1> HIDE DEF new
<1>7. \A d \in Channels : /\ reply'[d] = IF d = c THEN NoTask ELSE reply[d]
                          /\ d # c => request'[d] = request[d]
  BY <1>1, <1>4 DEF IntakeTypes
<1>8. CASE slot' = [w \in Workers |-> slot[w]] /\ request' = [request EXCEPT ![c] = "none"]
  <2>1. slot' = slot /\ request'[c] = "none"
    BY <1>8 DEF IntakeTypes
  <2> QED BY <1>1, <1>3, <1>7, <2>1, SameSlots DEF ChannelInv, ReplyFits
<1>9. ASSUME NEW n \in Workers, n > broker.forks, n <= broker'.forks,
             request' = [request EXCEPT ![c] = "starting"],
             slot' = [w \in Workers |-> IF w = n THEN c ELSE slot[w]]
      PROVE  ChannelInv'
  <2>1. request'[c] = "starting" /\ slot'[n] = c /\ c # NoChannel
    BY <1>9 DEF IntakeTypes, Channels, NoChannel
  <2>2. slot[n] = NoChannel
    BY <1>0, <1>9 DEF ChannelInv
  <2>3. \A w \in Workers : slot[w] # c
    BY <1>3 DEF ChannelInv
  <2>4. \A d \in Channels : /\ ReplyFits(reply'[d], request'[d])
                            /\ pushing'[d] # NoTask => request'[d] = "pushing"
    BY <1>0, <1>1, <1>3, <1>7, <2>1 DEF ChannelInv, ReplyFits
  <2>5. \A d \in Channels : request'[d] = "starting" <=> \E w \in Workers : slot'[w] = d
    BY <1>7, <1>9, <2>1, <2>2 DEF ChannelInv, Channels, NoChannel
  <2>6. \A v, w \in Workers : slot'[v] = slot'[w] /\ slot'[v] # NoChannel => v = w
    BY <1>9, <2>3 DEF ChannelInv
  <2>7. \A w \in Workers : slot'[w] # NoChannel => w <= broker'.forks
    BY <1>0, <1>9 DEF ChannelInv
  <2> QED BY <2>4, <2>5, <2>6, <2>7 DEF ChannelInv
<1>10. PICK A \in {{}, new} :
         /\ request' = [request EXCEPT ![c] = IF A = {} THEN "none" ELSE "starting"]
         /\ slot' = [w \in Workers |-> IF w \in A THEN c ELSE slot[w]]
  BY <1>4
<1>11. CASE A = {}
  BY <1>8, <1>10, <1>11
<1>12. CASE A # {}
  <2>1. PICK n \in Workers : A = {n} /\ n > broker.forks /\ n <= broker'.forks
    BY <1>6, <1>10, <1>12
  <2>2. /\ request' = [request EXCEPT ![c] = "starting"]
        /\ slot' = [w \in Workers |-> IF w = n THEN c ELSE slot[w]]
    BY <1>10, <2>1
  <2> QED BY <1>9, <2>1, <2>2
<1> QED BY <1>11, <1>12

LEMMA NextChannels ==
  ASSUME BrokerInv, IntakeTypes, ChannelInv, TypeOK', [MasterNext]_masterVars
  PROVE  ChannelInv'
<1>1. broker.forks <= broker'.forks
  BY MasterStepsAreSteps, ForksGrow
<1>2. ASSUME UNCHANGED <<slot, reply, pushing, request>> PROVE ChannelInv'
  BY <1>1, <1>2, SameSlots DEF ChannelInv, ReplyFits
<1>3. ASSUME NEW c \in Channels, Pop(c) PROVE ChannelInv'
  <2>1. /\ slot' = slot /\ pushing' = pushing /\ request' = request
        /\ request[c] = "getting" /\ \A d \in Channels \ {c} : reply'[d] = reply[d]
    BY <1>3 DEF Pop, IntakeTypes
  <2> QED BY <1>1, <2>1, SameSlots DEF ChannelInv, ReplyFits
<1>4. ASSUME NEW c \in Channels, OnGetterFailure(c) \/ OnTaskPushedBack(c) PROVE ChannelInv'
  <2>1. /\ slot' = slot /\ pushing' = pushing /\ request' = NextRequest(c)
        /\ request[c] \in {"getting", "pushed"} /\ reply'[c] \in {reply[c], NoTask}
        /\ \A d \in Channels \ {c} : reply'[d] = reply[d]
        /\ request[c] = "getting" => reply'[c] = NoTask
    BY <1>4 DEF OnGetterFailure, OnTaskPushedBack, IntakeTypes
  <2>2. pushing'[c] = NoTask /\ reply'[c] = NoTask
    BY <2>1 DEF ChannelInv, ReplyFits
  <2> QED BY <1>1, <2>1, <2>2, ChainSlots
<1>5. ASSUME NEW c \in Channels, PushTaskBack(c) PROVE ChannelInv'
  <2>1. /\ slot' = slot /\ reply' = reply /\ request[c] = "pushing"
        /\ \A d \in Channels : /\ request'[d] = IF d = c THEN "pushed" ELSE request[d]
                               /\ pushing'[d] = IF d = c THEN NoTask ELSE pushing[d]
    BY <1>5 DEF PushTaskBack, IntakeTypes
  <2>2. \A d \in Channels : /\ ReplyFits(reply'[d], request'[d])
                            /\ pushing'[d] # NoTask => request'[d] = "pushing"
                            /\ request'[d] = "starting" <=> request[d] = "starting"
    BY <2>1 DEF ChannelInv, ReplyFits
  <2> QED BY <1>1, <2>1, <2>2, SameSlots
<1>6. ASSUME NEW c \in Channels, NEW t \in Tasks, ReceiveTask(c, t) PROVE ChannelInv'
  <2>1. /\ reply[c] = t /\ t # NoTask /\ reply'[c] = NoTask
        /\ \A d \in Channels \ {c} : reply'[d] = reply[d]
    BY <1>6, SentinelAssumption
       DEF ReceiveTask, OnMalformedTask, OnOutdatedTask, OnRateLimitedTask, OnTask, Received,
           IntakeTypes
  <2>2. request[c] \in {"getting", "decompressing"} /\ pushing[c] = NoTask
    BY <2>1 DEF ChannelInv, ReplyFits
  <2>3. CASE request' = NextRequest(c) /\ pushing' = pushing /\ slot' = slot
    BY <1>1, <2>1, <2>2, <2>3, ChainSlots
  <2>4. CASE /\ request' = [request EXCEPT ![c] = "pushing"]
             /\ pushing' = [pushing EXCEPT ![c] = t] /\ slot' = slot
    <3>1. \A d \in Channels : /\ request'[d] = IF d = c THEN "pushing" ELSE request[d]
                              /\ pushing'[d] = IF d = c THEN t ELSE pushing[d]
      BY <2>4 DEF IntakeTypes
    <3>2. \A d \in Channels : /\ ReplyFits(reply'[d], request'[d])
                              /\ pushing'[d] # NoTask => request'[d] = "pushing"
                              /\ request'[d] = "starting" <=> request[d] = "starting"
      BY <2>1, <2>2, <3>1 DEF ChannelInv, ReplyFits
    <3> QED BY <1>1, <2>4, <3>2, SameSlots
  <2>5. CASE OnMalformedTask(c, t) \/ OnOutdatedTask(c, t)
    BY <2>3, <2>5 DEF OnMalformedTask, OnOutdatedTask
  <2>6. CASE OnRateLimitedTask(c, t)
    BY <2>3, <2>4, <2>6 DEF OnRateLimitedTask
  <2>7. CASE OnTask(c, t)
    BY <1>1, <2>7, OnTaskSlots
  <2> QED BY <1>6, <2>5, <2>6, <2>7 DEF ReceiveTask
<1>7. CASE OnReadyForNextTasks \/ OnReconnect
  <2>1. request' = Requested(request, broker) /\ UNCHANGED <<slot, reply, pushing>>
    BY <1>7 DEF OnReadyForNextTasks, OnReconnect
  <2>2. \A d \in Channels : \/ request'[d] = request[d]
                            \/ request[d] = "none" /\ request'[d] = "getting"
    BY <2>1, RequestedChains DEF IntakeTypes
  <2>3. \A d \in Channels : /\ ReplyFits(reply'[d], request'[d])
                            /\ pushing'[d] # NoTask => request'[d] = "pushing"
                            /\ request'[d] = "starting" <=> request[d] = "starting"
    BY <2>1, <2>2 DEF ChannelInv, ReplyFits
  <2> QED BY <1>1, <2>1, <2>3, SameSlots
<1>8. ASSUME NEW w \in Workers, OnStarted(w) PROVE ChannelInv'
  <2>1. /\ \A c \in Channels : request'[c] = IF slot[w] = c THEN "none" ELSE request[c]
        /\ \A v \in Workers : slot'[v] = IF v = w THEN NoChannel ELSE slot[v]
        /\ UNCHANGED <<reply, pushing>>
    BY <1>8 DEF OnStarted, IntakeTypes
  <2>2. \A c \in Channels : slot[w] = c => request[c] = "starting"
    BY DEF ChannelInv
  <2>3. \A c \in Channels : /\ ReplyFits(reply'[c], request'[c])
                            /\ pushing'[c] # NoTask => request'[c] = "pushing"
    BY <2>1, <2>2 DEF ChannelInv, ReplyFits
  <2>4. \A c \in Channels : request'[c] = "starting" <=> \E v \in Workers : slot'[v] = c
    BY <2>1, <2>2 DEF ChannelInv, Channels, NoChannel
  <2>5. \A v, x \in Workers : slot'[v] = slot'[x] /\ slot'[v] # NoChannel => v = x
    BY <2>1 DEF ChannelInv
  <2>6. ASSUME NEW v \in Workers, slot'[v] # NoChannel PROVE v <= broker'.forks
    <3>1. v \in Nat /\ broker.forks \in Nat /\ broker'.forks \in Nat
      BY DEF BrokerInv, TypeOK, BrokerType, Workers
    <3>2. v <= broker.forks
      BY <2>1, <2>6 DEF ChannelInv
    <3> QED BY <1>1, <3>1, <3>2
  <2> QED BY <2>3, <2>4, <2>5, <2>6 DEF ChannelInv
<1>9. CASE StopMaster
  <2>1. /\ UNCHANGED <<slot, pushing, request>>
        /\ \A c \in Channels :
             reply'[c] = IF request[c] = "decompressing" THEN reply[c] ELSE NoTask
    BY <1>9 DEF StopMaster
  <2> QED BY <1>1, <2>1, SameSlots DEF ChannelInv, ReplyFits
<1>10. CASE \/ UNCHANGED masterVars \/ Exit \/ OnBrokerEvent
            \/ \E t \in Tasks : Enqueue(t) \/ OnResultCompressed(t)
            \/ \E w \in Workers : \/ OnTaskProcessed(w) \/ OnBrokerMessage(w)
                                  \/ RunProcess(w) \/ CrashProcess(w)
  BY <1>2, <1>10 DEF masterVars, intake, Exit, OnBrokerEvent, Enqueue, OnResultCompressed,
     OnTaskProcessed, OnBrokerMessage, RunProcess, CrashProcess
<1>11. ASSUME NEW c \in Channels, OnCompressedReply(c) PROVE ChannelInv'
  <2>1. /\ UNCHANGED <<slot, reply, pushing>> /\ request[c] = "getting" /\ reply[c] # NoTask
        /\ \A d \in Channels : request'[d] = IF d = c THEN "decompressing" ELSE request[d]
    BY <1>11 DEF OnCompressedReply, IntakeTypes
  <2> QED BY <1>1, <2>1, SameSlots DEF ChannelInv, ReplyFits
<1> QED BY <1>3, <1>4, <1>5, <1>6, <1>7, <1>8, <1>9, <1>10, <1>11 DEF MasterNext

LEMMA InitChannels == MasterInit => ChannelInv
<1> SUFFICES ASSUME MasterInit PROVE ChannelInv
  OBVIOUS
<1> DEFINE r == [c \in Channels |-> "none"]
<1>1. r \in [Channels -> RequestStates] /\ \A c \in Channels : r[c] = "none"
  BY DEF RequestStates
<1>2. request = Requested(r, broker)
  BY DEF MasterInit
<1> HIDE DEF r
<1>3. \A c \in Channels : request[c] \notin {"starting", "decompressing"}
  BY <1>1, <1>2, RequestedChains
<1>4. /\ \A c \in Channels : reply[c] = NoTask /\ pushing[c] = NoTask
      /\ \A w \in Workers : slot[w] = NoChannel
  BY DEF MasterInit
<1> QED BY <1>3, <1>4 DEF ChannelInv, ReplyFits, Channels, NoChannel

----------------------------------------------------------------------------
(* The theorems                                                            *)

LEMMA MasterInvariant == MasterSpec => []MasterAll
<1>1. MasterInit => MasterInv /\ ChannelInv /\ IntakeInv
  BY MasterInitInv, InitChannels, InitServes
<1>2. MasterInv /\ [MasterNext]_masterVars => MasterInv'
  BY MasterNextInv
<1>3. /\ BrokerInv /\ BrokerInv' /\ MasterInv /\ ChannelInv /\ IntakeInv
      /\ [MasterNext]_masterVars
      => ChannelInv' /\ IntakeInv'
  BY NextChannels, NextServes DEF MasterAll, Serves, BrokerInv, MasterInv
<1>4. MasterSpec => []BrokerInv
  BY MasterImplementsBroker, BrokerInvariant
<1>5. BrokerInv /\ MasterInv /\ ChannelInv /\ IntakeInv => MasterAll
  BY DEF MasterAll
<1> QED BY <1>1, <1>2, <1>3, <1>4, <1>5, PTL DEF MasterSpec

\* The variables of the intake keep their types, and each chain holds the task its
\* state calls for: Redis is only ever given tasks to push back, and no slot is
\* given back while its chain still has a task in hand.
THEOREM MasterTypeCorrect == MasterSpec => []MasterTypeOK
<1>1. MasterAll => MasterTypeOK
  <2> SUFFICES ASSUME MasterAll PROVE MasterTypeOK
    OBVIOUS
  <2>1. IntakeTypes /\ PushesTask /\ ChannelInv
    BY DEF MasterAll, MasterInv
  <2>2. ASSUME NEW c \in Channels
        PROVE  /\ reply[c] # NoTask => request[c] \in {"getting", "decompressing"}
               /\ request[c] = "decompressing" => reply[c] # NoTask
               /\ pushing[c] # NoTask <=> request[c] = "pushing"
    BY <2>1, SentinelAssumption DEF ChannelInv, ReplyFits, PushesTask
  <2> QED BY <2>1, <2>2 DEF MasterTypeOK
<1> QED BY <1>1, MasterInvariant, PTL

\* A channel's slot is held for one starting worker as long as its chain waits,
\* and for none otherwise: no channel is blocked for a start that is over.
THEOREM SlotsAlwaysMatchWaiters == MasterSpec => []SlotsMatchWaiters
<1>1. ASSUME ChannelInv PROVE SlotsMatchWaiters
  <2> SUFFICES ASSUME NEW c \in Channels
               PROVE  Cardinality({w \in Workers : slot[w] = c})
                        = IF request[c] = "starting" THEN 1 ELSE 0
    BY DEF SlotsMatchWaiters
  <2>1. CASE request[c] = "starting"
    <3>1. PICK w \in Workers : slot[w] = c
      BY <1>1, <2>1 DEF ChannelInv
    <3>2. {v \in Workers : slot[v] = c} = {w}
      BY <1>1, <3>1 DEF ChannelInv, Channels, NoChannel
    <3> QED BY <2>1, <3>2, FS_Singleton
  <2>2. CASE request[c] # "starting"
    <3>1. {v \in Workers : slot[v] = c} = {}
      BY <1>1, <2>2 DEF ChannelInv
    <3> QED BY <2>2, <3>1, FS_EmptySet
  <2> QED BY <2>1, <2>2
<1>2. MasterAll => SlotsMatchWaiters
  BY <1>1 DEF MasterAll
<1> QED BY <1>2, MasterInvariant, PTL

\* The master with its queues, pools and processes implements the task service:
\* in whatever order tasks, messages, failures, kills and the stop come, a task
\* runs at most once, goes back to the queue only before it ran, and an answer
\* is final.
THEOREM MasterImplementsService == MasterSpec => ImplementsTaskService
<1>1. MasterInit => Service!Init
  BY InitServes
<1>2. MasterAll /\ [MasterNext]_masterVars => [Service!Next]_([t \in Tasks |-> TaskStatus(t)])
  BY NextServes DEF Serves, status
<1>3. MasterSpec => []MasterAll
  BY MasterInvariant
<1> QED BY <1>1, <1>2, <1>3, PTL DEF MasterSpec, ImplementsTaskService, Service!Spec

----------------------------------------------------------------------------
(* A stop is never taken back, and only stop begins one.  While there is   *)
(* none, a broker with a free worker has had one or is ready.              *)

KeepsStop(b, c) == /\ b.stopper = "done" => c.stopper = "done"
                   /\ b.stopper = "none" => c.stopper = "none"

IsFree(b) == Len(b.pool["busy"]) < ConcurrentLimit

SameStop(b, c) ==
  c.stopper = b.stopper /\ c.ready = b.ready /\ c.pool["busy"] = b.pool["busy"]

Settles(b, c) == /\ KeepsStop(b, c)
                 /\ c.stopper = "none" => b.stopper = "none"
                 /\ b.ready => c.ready
                 /\ c.stopper = "none" /\ IsFree(c) => IsFree(b) \/ c.ready

LEMMA RelocateStop ==
  ASSUME NEW b, BrokerOK(b), NEW w \in Workers, NEW to \in Places
  PROVE  LET c == RelocateWorker(b, w, to)
         IN  /\ Settles(b, c)
             /\ "busy" \in {b.place[w], to} /\ c.stopper = "none" /\ IsFree(c) => c.ready
<1> DEFINE busy    == "busy" \in {b.place[w], to}
           moved   == MovedWorker(b, w, to)
           counted == IF busy THEN CountedWorker(moved, w, to) ELSE moved
           kept    == KeepMinIdleWorkersCount(counted)
           Awake(c) == c.stopper = "none" /\ IsFree(c) => c.ready
<1>1. BrokerOK(moved) /\ BrokerOK(counted)
  BY MovedWorkerOK, CountedWorkerOK
<1>2. /\ moved.stopper = b.stopper /\ moved.ready = b.ready
      /\ ~busy => moved.pool["busy"] = b.pool["busy"]
  BY DEF MovedWorker, BrokerOK, BrokerType, Pools
<1>3. ~busy => counted = moved
  OBVIOUS
<1>4. RelocateWorker(b, w, to) \in {counted, kept}
  BY DEF RelocateWorker
<1>5. busy => counted = CountedWorker(moved, w, to)
  OBVIOUS
<1> HIDE DEF moved, counted, busy
<1>6. /\ KeepsStop(moved, counted) /\ (counted.stopper = "none" => moved.stopper = "none")
      /\ moved.ready => counted.ready
  <2>1. CASE busy
    <3>1. counted = CountedWorker(moved, w, to)
      BY <1>5, <2>1
    <3>2. KeepsStop(moved, counted) /\ (counted.stopper = "none" => moved.stopper = "none")
      BY <1>1, <3>1 DEF CountedWorker, BrokerOK, BrokerType, KeepsStop
    <3>3. counted.ready = (moved.ready \/ IsAvailableForTask(moved))
      BY <1>1, <3>1 DEF CountedWorker, BrokerOK, BrokerType
    <3> QED BY <3>2, <3>3
  <2>2. CASE ~busy
    BY <1>3, <2>2 DEF KeepsStop
  <2> QED BY <2>1, <2>2
<1>7. busy => Awake(counted)
  <2> SUFFICES ASSUME busy, counted.stopper = "none", IsFree(counted) PROVE counted.ready
    OBVIOUS
  <2>1. counted = CountedWorker(moved, w, to)
    BY <1>5
  <2>2. /\ counted.pool = moved.pool /\ moved.stopper = "none"
        /\ counted.ready = (moved.ready \/ IsAvailableForTask(moved))
    BY <1>1, <1>6, <2>1 DEF CountedWorker, BrokerOK, BrokerType
  <2> QED BY <2>2 DEF IsAvailableForTask, IsFree
<1>8. Settles(b, counted)
  <2>1. CASE busy
    BY <1>2, <1>6, <1>7, <2>1 DEF Settles, KeepsStop
  <2>2. CASE ~busy
    BY <1>2, <1>3, <2>2 DEF Settles, KeepsStop, IsFree
  <2> QED BY <2>1, <2>2
<1>9. kept.stopper = counted.stopper /\ kept.ready = counted.ready /\ kept.pool = counted.pool
  BY <1>1 DEF KeepMinIdleWorkersCount, Fork, BrokerOK, BrokerType
<1> HIDE DEF kept
<1>10. /\ Settles(b, kept) /\ (busy => Awake(kept))
  BY <1>7, <1>8, <1>9 DEF Settles, KeepsStop, IsFree
<1> QED BY <1>4, <1>7, <1>8, <1>10 DEF busy

LEMMA KillStop ==
  ASSUME NEW b, BrokerOK(b), NEW w \in Workers
  PROVE  Settles(b, KillWorker(b, w))
<1> DEFINE r == RelocateWorker(b, w, "none")
<1>0. "none" \in Places
  BY DEF Places
<1>1. Settles(b, r) /\ BrokerOK(r)
  BY <1>0, RelocateStop, RelocateWorkerOK
<1>2. KillWorker(b, w) = [r EXCEPT !.killed = @ \cup {w}]
  BY DEF KillWorker
<1> HIDE DEF r
<1>3. SameStop(r, KillWorker(b, w))
  BY <1>1, <1>2 DEF BrokerOK, BrokerType, SameStop, Pools
<1> QED BY <1>1, <1>3 DEF Settles, KeepsStop, IsFree, SameStop

LEMMA ProcessStop ==
  ASSUME NEW b, BrokerOK(b), NEW t \in Tasks, NEW w \in Workers
  PROVE  Settles(b, ProcessTask(b, t, w))
<1> DEFINE d == [b EXCEPT !.expireTimer = IF t \in Timed THEN @ \cup {w} ELSE @,
                          !.task[w] = t]
<1>1. BrokerOK(d) /\ SameStop(b, d)
  BY DEF BrokerOK, BrokerType, SameStop, Pools
<1>2. ProcessTask(b, t, w) = RelocateWorker(d, w, "busy") /\ "busy" \in Places
  BY DEF ProcessTask, Places, Pools
<1> HIDE DEF d
<1> QED BY <1>1, <1>2, RelocateStop DEF Settles, KeepsStop, IsFree, SameStop

LEMMA DispatchStop ==
  ASSUME NEW b, BrokerOK(b), NEW t \in Tasks
  PROVE  Settles(b, Dispatch(b, t))
<1> DEFINE cached == b.pool["cached"]
           idle   == b.pool["idle"]
           hits   == CachedFor(b, t)
           i      == CHOOSE i \in hits : \A j \in hits : i <= j
           c      == Dispatch(b, t)
<1>0. /\ idle \in Seq(Workers) /\ cached \in Seq(Workers)
  BY DEF BrokerOK, BrokerType, SameStop, Pools
<1>1. CASE hits # {}
  <2>1. hits \subseteq DOMAIN cached /\ hits \in SUBSET Nat
    BY <1>0 DEF CachedFor
  <2>2. i \in hits
    BY <1>1, <2>1, FirstIndex
  <2>3. c = ProcessTask(b, t, cached[i])
    BY <1>1 DEF Dispatch
  <2> HIDE DEF i, c
  <2>4. cached[i] \in Workers
    BY <1>0, <2>1, <2>2
  <2>5. Settles(b, c)
    BY <2>3, <2>4, ProcessStop
  <2> QED BY <2>5 DEF c
<1>2. CASE hits = {} /\ idle # <<>>
  <2> DEFINE d == PopIdle(b, t)
             w == idle[Len(idle)]
  <2>1. BrokerOK(d) /\ w \in Workers
    BY <1>0, <1>2, PopIdleOK
  <2>2. SameStop(b, d)
    BY DEF PopIdle, BrokerOK, BrokerType, SameStop, Pools
  <2>3. c = ProcessTask(d, t, w)
    BY <1>2 DEF Dispatch
  <2> HIDE DEF c, d, w
  <2>4. Settles(b, c)
    BY <2>1, <2>2, <2>3, ProcessStop DEF Settles, KeepsStop, IsFree, SameStop
  <2> QED BY <2>4 DEF c
<1>3. CASE hits = {} /\ idle = <<>>
  <2> DEFINE e == [b EXCEPT !.pool["cached"] = SubSeq(cached, 1, Len(cached) - 1)]
             d == EvictLeastActive(b)
  <2>1. BrokerOK(d)
    BY EvictOK
  <2>2. Settles(b, d)
    <3>1. CASE IsCacheEnabled /\ CacheLimit <= Len(cached)
      <4>1. cached # <<>> /\ Len(cached) \in 1 .. Len(cached)
        BY <1>0, <3>1, OptionsAssumption DEF IsCacheEnabled
      <4>2. cached[Len(cached)] \in Workers /\ SubSeq(cached, 1, Len(cached) - 1) \in Seq(Workers)
        BY <1>0, <4>1
      <4>3. BrokerOK(e) /\ SameStop(b, e)
        BY <1>0, <4>2 DEF BrokerOK, BrokerType, SameStop, Pools
      <4>4. d = KillWorker(e, cached[Len(cached)])
        BY <3>1 DEF EvictLeastActive
      <4> HIDE DEF d, e
      <4> QED BY <4>2, <4>3, <4>4, KillStop DEF Settles, KeepsStop, IsFree, SameStop
    <3>2. CASE ~(IsCacheEnabled /\ CacheLimit <= Len(cached))
      BY <3>2 DEF EvictLeastActive, Settles, KeepsStop, IsFree
    <3> QED BY <3>1, <3>2
  <2>3. c = StartWorkerFor(d, t)
    BY <1>3 DEF Dispatch
  <2> HIDE DEF c, d
  <2>4. SameStop(d, c)
    BY <2>1, <2>3 DEF StartWorkerFor, Fork, BrokerOK, BrokerType, SameStop, Pools
  <2>5. Settles(b, c)
    BY <2>2, <2>4 DEF Settles, KeepsStop, IsFree, SameStop
  <2> QED BY <2>5 DEF c
<1> QED BY <1>1, <1>2, <1>3

LEMMA TurnsSettle ==
  ASSUME BrokerInv, Turns
  PROVE  Settles(broker, broker')
<1>0. BrokerOK(broker) /\ Placed(broker) /\ "none" \in Places /\ SameStop(broker, broker)
  BY BrokerOKFromType DEF BrokerInv, Sound, Places, SameStop
<1>1. ASSUME SameStop(broker, broker') PROVE Settles(broker, broker')
  BY <1>1 DEF Settles, KeepsStop, IsFree, SameStop
<1>2. ASSUME UNCHANGED vars \/ \E w \in Workers : RunWorker(w) \/ Crash(w)
      PROVE  Settles(broker, broker')
  <2>1. broker' = broker
    BY <1>2 DEF vars, RunWorker, Boot, FinishTask, FailTask, RepeatResult,
                ReportCriticalError, ReportIdling, Crash, Send
  <2> QED BY <1>0, <1>1, <2>1
<1>3. ASSUME NEW t \in Tasks, GetWorkerForTask(t) PROVE Settles(broker, broker')
  BY <1>0, <1>3, DispatchStop DEF GetWorkerForTask, Handled
<1>4. ASSUME NEW w \in Workers, OnWorkerStarted(w) PROVE Settles(broker, broker')
  <2> DEFINE idle    == RelocateWorker(broker, w, "idle")
             started == [idle EXCEPT !.starting = @ - 1, !.waiter[w] = NoTask]
             t       == broker.waiter[w]
  <2>1. BrokerOK(idle) /\ Settles(broker, idle)
    BY <1>0, RelocateStop, RelocateWorkerOK DEF Places, Pools
  <2>2. t = NoTask \/ t \in Tasks
    BY <1>0 DEF BrokerOK, BrokerType, SameStop, Pools
  <2>3. broker' = IF t = NoTask THEN started ELSE Dispatch(started, t)
    BY <1>4 DEF OnWorkerStarted, OnMessage, Handled
  <2> HIDE DEF idle, t
  <2>7. /\ idle \in BrokerType /\ idle.starting - 1 \in Int
        /\ [idle.waiter EXCEPT ![w] = NoTask] \in [Workers -> Tasks \cup {NoTask}]
    BY <2>1 DEF BrokerOK, BrokerType, SameStop, Pools
  <2>8. /\ started.forks = idle.forks /\ started.cluster = idle.cluster
        /\ SameStop(idle, started)
    BY <2>7 DEF BrokerType, SameStop, Pools
  <2>9. started \in BrokerType
    BY <2>7 DEF BrokerType
  <2>4. BrokerOK(started) /\ SameStop(idle, started)
    BY <2>1, <2>8, <2>9 DEF BrokerOK
  <2> HIDE DEF started
  <2>5. CASE t = NoTask
    BY <2>1, <2>3, <2>4, <2>5 DEF Settles, KeepsStop, IsFree, SameStop
  <2>6. CASE t # NoTask
    <3>1. Settles(started, broker')
      BY <2>2, <2>3, <2>4, <2>6, DispatchStop
    <3> QED BY <2>1, <2>4, <3>1 DEF Settles, KeepsStop, IsFree, SameStop
  <2> QED BY <2>5, <2>6
<1>5. ASSUME NEW w \in Workers, OnWorkerTaskProcessed(w) \/ OnWorkerCriticalError(w)
      PROVE  Settles(broker, broker')
  BY <1>0, <1>1, <1>5 DEF OnWorkerTaskProcessed, OnWorkerCriticalError, OnMessage, Handled,
                          BrokerOK, BrokerType, SameStop, Pools
<1>6. ASSUME NEW w \in Workers, NEW c, BrokerOK(c), SameStop(broker, c),
             NEW to \in Places,
             broker' \in {c, RelocateWorker(c, w, to), KillWorker(c, w)}
      PROVE  Settles(broker, broker')
  <2>1. Settles(c, RelocateWorker(c, w, to)) /\ Settles(c, KillWorker(c, w))
    BY <1>6, RelocateStop, KillStop
  <2> QED BY <1>6, <2>1 DEF Settles, KeepsStop, IsFree, SameStop
<1>7. ASSUME NEW w \in Workers, OnWorkerIdling(w) PROVE Settles(broker, broker')
  <2> DEFINE c == [broker EXCEPT !.task[w] = NoTask, !.expireTimer = @ \ {w}]
  <2>1. BrokerOK(c) /\ SameStop(broker, c) /\ "cached" \in Places
    BY <1>0 DEF BrokerOK, BrokerType, SameStop, Places, Pools
  <2>2. broker' = RelocateWorker(c, w, "cached") \/ broker' = KillWorker(broker, w)
    BY <1>7 DEF OnWorkerIdling, OnMessage, Handled
  <2> HIDE DEF c
  <2> QED BY <1>0, <1>6, <2>1, <2>2
<1>8. ASSUME NEW w \in Workers, OnWorkerExit(w) \/ OnDisconnect(w)
      PROVE  Settles(broker, broker')
  <2>1. CASE OnWorkerExit(w)
    <3> DEFINE c == [broker EXCEPT !.cluster = IF w \in closed THEN @ \ {w} ELSE @,
                                   !.expireTimer = @ \ {w}]
    <3>1. BrokerOK(c) /\ SameStop(broker, c)
      BY <1>0 DEF BrokerOK, BrokerType, SameStop, Pools
    <3>2. broker' \in {c, RelocateWorker(c, w, "none")}
      BY <2>1 DEF OnWorkerExit, Handled
    <3> HIDE DEF c
    <3> QED BY <1>0, <1>6, <3>1, <3>2
  <2>2. CASE OnDisconnect(w)
    BY <1>0, <1>1, <2>2 DEF OnDisconnect, Handled, BrokerOK, BrokerType, SameStop, Pools
  <2> QED BY <1>8, <2>1, <2>2
<1>9. ASSUME NEW w \in Workers, OnExpirationTimer(w) \/ OnIdlingTimer(w) \/ KillExpiredWorker(w)
      PROVE  Settles(broker, broker')
  <2> DEFINE c == [broker EXCEPT !.expireTimer = @ \ {w}]
  <2>1. BrokerOK(c) /\ SameStop(broker, c)
    BY <1>0 DEF BrokerOK, BrokerType, SameStop, Pools
  <2>2. broker' = KillWorker(c, w) \/ broker' = KillWorker(broker, w)
    BY <1>9 DEF OnExpirationTimer, OnIdlingTimer, KillExpiredWorker, Loop, Handled
  <2> HIDE DEF c
  <2> QED BY <1>0, <1>6, <2>1, <2>2
<1>10. ASSUME OnHeartbeatTimer \/ EndHeartbeat \/ EndDeploy \/ \E a \in Apps : KillAllAppWorkers(a)
       PROVE  Settles(broker, broker')
  BY <1>0, <1>1, <1>10 DEF OnHeartbeatTimer, EndHeartbeat, EndDeploy, KillAllAppWorkers,
     Loop, Handled, BrokerOK, BrokerType, SameStop, Pools
<1>11. ASSUME VisitCachedWorker PROVE Settles(broker, broker')
  <2> DEFINE cached == broker.pool["cached"]
             v == cached[loop.at]
  <2>1. loop \in [of : {"deploy"}, app : Apps, at : Nat \ {0}, len : Nat]
    BY <1>11 DEF VisitCachedWorker, BrokerInv, TypeOK, LoopType, NoLoop
  <2>2. cached \in Seq(Workers)
    BY <1>0 DEF BrokerOK, BrokerType, SameStop, Pools
  <2>3. loop.at <= Len(cached) => v \in Workers
    BY <2>1, <2>2
  <2>4. broker' = broker \/ (loop.at <= Len(cached) /\ broker' = KillWorker(broker, v))
    BY <1>11 DEF VisitCachedWorker, Loop, Handled
  <2> HIDE DEF v
  <2> QED BY <1>0, <1>6, <1>1, <2>3, <2>4
<1> QED BY <1>2, <1>3, <1>4, <1>5, <1>7, <1>8, <1>9, <1>10, <1>11
        DEF Turns, OnWorkerEvent

LEMMA RunsKeepStop ==
  ASSUME BrokerInv, Runs
  PROVE  KeepsStop(broker, broker')
<1>1. BrokerOK(broker)
  BY BrokerOKFromType DEF BrokerInv
<1>2. CASE EmitReady
  BY <1>1, <1>2 DEF EmitReady, Handled, BrokerOK, BrokerType, KeepsStop
<1> QED BY <1>2, TurnsSettle DEF Runs, Settles

----------------------------------------------------------------------------
(* The answers in a pipe                                                   *)

Messages == [type : MessageTypes, task : Tasks \cup {NoTask}]

\* The answers among unread messages come first, and are at most two
AnswersFirst(s) ==
  \A i \in DOMAIN s : s[i].type = "processed" => i <= 2 /\ s[1].type = "processed"

\* How many they are
Pending(s) ==
  IF Len(s) >= 1 /\ s[1].type = "processed"
  THEN IF Len(s) >= 2 /\ s[2].type = "processed" THEN 2 ELSE 1
  ELSE 0

LEMMA PendingNumber == \A s : Pending(s) \in {0, 1, 2}
BY DEF Pending

LEMMA TailPending ==
  ASSUME NEW s \in Seq(Messages), s # <<>>, AnswersFirst(s)
  PROVE  /\ AnswersFirst(Tail(s)) /\ Len(Tail(s)) = Len(s) - 1 /\ Len(s) \in Nat
         /\ Pending(Tail(s)) = IF Head(s).type = "processed" THEN Pending(s) - 1 ELSE 0
         /\ Head(s).type # "processed" => Pending(s) = 0
<1> DEFINE r == Tail(s)
           n == Len(s)
<1>1. /\ n \in Nat \ {0} /\ DOMAIN s = 1 .. n
      /\ DOMAIN r = 1 .. (n - 1) /\ Len(r) = n - 1
      /\ \A i \in 1 .. (n - 1) : r[i] = s[i + 1]
      /\ Head(s) = s[1]
  OBVIOUS
<1>2. \A i \in 1 .. n : s[i].type = "processed" => i <= 2 /\ s[1].type = "processed"
  BY <1>1 DEF AnswersFirst
<1> HIDE DEF r, n
<1>3. n >= 2 => r[1] = s[2] /\ (s[2].type = "processed" => s[1].type = "processed")
  BY <1>1, <1>2
<1>4. n >= 3 => r[2] = s[3] /\ s[3].type # "processed"
  BY <1>1, <1>2
<1>5. AnswersFirst(r)
  <2> SUFFICES ASSUME NEW i \in 1 .. (n - 1), r[i].type = "processed"
               PROVE  i <= 2 /\ r[1].type = "processed"
    BY <1>1 DEF AnswersFirst
  <2>1. i + 1 \in 1 .. n /\ s[i + 1].type = "processed"
    BY <1>1
  <2>2. i + 1 <= 2
    BY <1>2, <2>1
  <2>3. i = 1
    BY <1>1, <2>2
  <2> QED BY <2>3
<1>6. Pending(r) = IF n >= 2 /\ s[2].type = "processed" THEN 1 ELSE 0
  <2>1. ~(n - 1 >= 2 /\ r[2].type = "processed")
    BY <1>1, <1>4
  <2>2. (n - 1 >= 1) <=> (n >= 2)
    BY <1>1
  <2> QED BY <1>1, <1>3, <2>1, <2>2 DEF Pending
<1>7. Pending(s) = IF s[1].type # "processed" THEN 0
                   ELSE IF n >= 2 /\ s[2].type = "processed" THEN 2 ELSE 1
  BY <1>1 DEF Pending, n
<1>8. /\ Pending(r) = IF Head(s).type = "processed" THEN Pending(s) - 1 ELSE 0
      /\ Head(s).type # "processed" => Pending(s) = 0
  BY <1>1, <1>3, <1>6, <1>7
<1> QED BY <1>1, <1>5, <1>8 DEF r, n

LEMMA AppendPending ==
  ASSUME NEW s \in Seq(Messages), NEW m \in Messages, AnswersFirst(s)
  PROVE  /\ m.type # "processed" =>
              AnswersFirst(Append(s, m)) /\ Pending(Append(s, m)) = Pending(s)
         /\ m.type = "processed" /\ Len(s) <= 1 /\ Pending(s) = Len(s) =>
              /\ AnswersFirst(Append(s, m)) /\ Pending(Append(s, m)) = Pending(s) + 1
              /\ Len(Append(s, m)) = Pending(s) + 1
<1> DEFINE a == Append(s, m)
           n == Len(s)
<1>1. /\ n \in Nat /\ DOMAIN s = 1 .. n
      /\ DOMAIN a = 1 .. (n + 1) /\ Len(a) = n + 1
      /\ \A i \in 1 .. n : a[i] = s[i]
      /\ a[n + 1] = m
  OBVIOUS
<1>2. \A i \in 1 .. n : s[i].type = "processed" => i <= 2 /\ s[1].type = "processed"
  BY <1>1 DEF AnswersFirst
<1>0. n = Len(s)
  OBVIOUS
<1> HIDE DEF a, n
<1>3. n >= 1 => a[1] = s[1]
  BY <1>1
<1>4. n >= 2 => a[2] = s[2]
  BY <1>1
<1>5. (n = 0 => a[1] = m) /\ (n = 1 => a[2] = m)
  BY <1>1
<1>6. /\ n + 1 >= 1 /\ (n + 1 >= 2 <=> n >= 1)
      /\ n = 0 \/ n = 1 \/ n >= 2
  BY <1>1
<1>7. Pending(a) = IF a[1].type = "processed"
                   THEN IF n >= 1 /\ a[2].type = "processed" THEN 2 ELSE 1
                   ELSE 0
  BY <1>1, <1>6 DEF Pending
<1>8. Pending(s) = IF n >= 1 /\ s[1].type = "processed"
                   THEN IF n >= 2 /\ s[2].type = "processed" THEN 2 ELSE 1
                   ELSE 0
  BY <1>0 DEF Pending
<1>9. \A i \in 1 .. (n + 1) : i \in 1 .. n \/ i = n + 1
  BY <1>1
<1>10. ASSUME m.type # "processed" PROVE AnswersFirst(a) /\ Pending(a) = Pending(s)
  <2>1. ASSUME NEW i \in 1 .. (n + 1), a[i].type = "processed"
        PROVE  i <= 2 /\ a[1].type = "processed"
    <3>1. i \in 1 .. n /\ s[i].type = "processed"
      BY <1>1, <1>9, <1>10, <2>1
    <3>2. n >= 1
      BY <1>1, <3>1
    <3> QED BY <1>2, <1>3, <3>1, <3>2
  <2>2. AnswersFirst(a)
    BY <1>1, <2>1 DEF AnswersFirst
  <2>3. CASE n = 0
    BY <1>5, <1>7, <1>8, <1>10, <2>2, <2>3
  <2>4. CASE n = 1
    BY <1>3, <1>5, <1>7, <1>8, <1>10, <2>2, <2>4
  <2>5. CASE n >= 2
    <3>1. n >= 1
      BY <1>1, <2>5
    <3> QED BY <1>3, <1>4, <1>7, <1>8, <2>2, <2>5, <3>1
  <2>6. Pending(a) = Pending(s)
    BY <1>6, <2>3, <2>4, <2>5
  <2> QED BY <2>2, <2>6
<1>11. ASSUME m.type = "processed", n <= 1, Pending(s) = n
       PROVE  /\ AnswersFirst(a) /\ Pending(a) = Pending(s) + 1 /\ Len(a) = Pending(s) + 1
  <2>1. n = 1 => s[1].type = "processed"
    BY <1>8, <1>11
  <2>2. a[1].type = "processed" /\ (n = 1 => a[2].type = "processed")
    BY <1>1, <1>3, <1>5, <1>11, <2>1
  <2>3. \A i \in 1 .. (n + 1) : i <= 2
    BY <1>1, <1>11
  <2>4. AnswersFirst(a)
    BY <1>1, <2>2, <2>3 DEF AnswersFirst
  <2>5. CASE n = 0
    BY <1>1, <1>7, <1>11, <2>2, <2>4, <2>5
  <2>6. CASE n = 1
    BY <1>1, <1>7, <1>11, <2>2, <2>4, <2>6
  <2> QED BY <1>1, <1>11, <2>4, <2>5, <2>6
<1> QED BY <1>0, <1>10, <1>11 DEF a

----------------------------------------------------------------------------
(* What a process has said of its task, and what it will still say         *)

Answers(t) == published[t] + compressing[t]

\* Answers that a process in state p sends at most
ToSend(p) == IF p = "running" THEN 2 ELSE IF p = "processed" THEN 1 ELSE 0

HasIdled(q) == \E i \in DOMAIN q : q[i].type = "idling"

\* A task is answered at most twice, of which some answers are published, some
\* unread and some not sent, and once before the process says that it idles
Spoken(w) ==
  /\ AnswersFirst(pipe[w])
  /\ proc[w] = "running" => pipe[w] = <<>>
  /\ proc[w] = "processed" => Len(pipe[w]) <= 1 /\ Pending(pipe[w]) = Len(pipe[w])
  /\ broker.task[w] # NoTask =>
       /\ Answers(broker.task[w]) + Pending(pipe[w]) + ToSend(proc[w]) <= 2
       /\ proc[w] \in {"processed", "answered", "flushing"} \/ HasIdled(pipe[w]) =>
            \/ Pending(pipe[w]) > 0
            \/ Answers(broker.task[w]) > 0
            \/ broker.stopper = "done"

\* Answers are not taken back, except by a stop
NotTakenBack(t) ==
  Answers(t) > 0 => published'[t] + compressing'[t] > 0 \/ broker'.stopper = "done"

LEMMA AnswersNumber ==
  IntakeTypes => \A t \in Tasks : Answers(t) \in Nat
BY DEF IntakeTypes, Answers

LEMMA QuietSpeaks ==
  ASSUME TypeOK, IntakeTypes, IntakeTypes', NEW w \in Workers, Spoken(w),
         broker.stopper = "done" => broker'.stopper = "done",
         pipe'[w] = pipe[w], broker'.task[w] \in {broker.task[w], NoTask},
         proc'[w] \in {proc[w], "dead", "booting"},
         broker.task[w] # NoTask =>
           /\ published'[broker.task[w]] + compressing'[broker.task[w]] <= Answers(broker.task[w])
           /\ NotTakenBack(broker.task[w])
  PROVE  Spoken(w)'
<1>1. /\ AnswersFirst(pipe'[w])
      /\ proc'[w] = "running" => pipe'[w] = <<>>
      /\ proc'[w] = "processed" => Len(pipe'[w]) <= 1 /\ Pending(pipe'[w]) = Len(pipe'[w])
  BY DEF Spoken
<1>2. ASSUME broker'.task[w] # NoTask
      PROVE  /\ Answers(broker.task[w])' + Pending(pipe'[w]) + ToSend(proc'[w]) <= 2
             /\ proc'[w] \in {"processed", "answered", "flushing"} \/ HasIdled(pipe'[w]) =>
                  \/ Pending(pipe'[w]) > 0
                  \/ Answers(broker.task[w])' > 0
                  \/ broker'.stopper = "done"
  <2>1. PICK t : t = broker.task[w]
    OBVIOUS
  <2>2. broker'.task[w] = t /\ t \in Tasks
    BY <1>2, <2>1 DEF TypeOK, BrokerType
  <2>3. /\ Answers(t) + Pending(pipe[w]) + ToSend(proc[w]) <= 2
        /\ proc[w] \in {"processed", "answered", "flushing"} \/ HasIdled(pipe[w]) =>
             \/ Pending(pipe[w]) > 0
             \/ Answers(t) > 0
             \/ broker.stopper = "done"
    BY <1>2, <2>1, <2>2 DEF Spoken
  <2>4. Answers(t)' = published'[t] + compressing'[t]
    BY DEF Answers
  <2>5. Answers(t)' <= Answers(t) /\ (Answers(t) > 0 => Answers(t)' > 0 \/ broker'.stopper = "done")
    BY <1>2, <2>1, <2>2, <2>4 DEF NotTakenBack
  <2>6. Answers(t) \in Nat /\ Answers(t)' \in Nat /\ Pending(pipe[w]) \in Nat
    <3>1. Answers(t) \in Nat
      BY <2>2, AnswersNumber
    <3>2. Answers(t)' \in Nat
      BY <2>2, <2>4 DEF IntakeTypes
    <3>3. Pending(pipe[w]) \in Nat
      BY PendingNumber
    <3> QED BY <3>1, <3>2, <3>3
  <2>7. ToSend(proc'[w]) \in Nat /\ ToSend(proc[w]) \in Nat /\ ToSend(proc'[w]) <= ToSend(proc[w])
    BY DEF ToSend
  <2>8. Answers(t)' + Pending(pipe'[w]) + ToSend(proc'[w]) <= 2
    BY <2>3, <2>5, <2>6, <2>7
  <2>9. proc'[w] \in {"processed", "answered", "flushing"} \/ HasIdled(pipe'[w]) =>
                  \/ Pending(pipe'[w]) > 0
                  \/ Answers(t)' > 0
                  \/ broker'.stopper = "done"
    BY <2>3, <2>5
  <2>10. Answers(broker.task[w])' = Answers(t)'
    BY <2>2 DEF Answers
  <2> QED BY <2>8, <2>9, <2>10
<1> QED BY <1>1, <1>2 DEF Spoken

\* The answer that message m is of task t is published or compressed, unless the
\* setter is closed
AnswerCounts(t, m) ==
  LET n == published'[t] + compressing'[t]
  IN  \/ n = Answers(t) + (IF m.type = "processed" THEN 1 ELSE 0)
      \/ n = Answers(t) /\ broker.stopper = "done"

LEMMA ReadSpeaks ==
  ASSUME TypeOK, IntakeTypes, IntakeTypes', NEW w \in Workers, Spoken(w),
         broker.stopper = "done" => broker'.stopper = "done",
         pipe[w] # <<>>, pipe'[w] = Tail(pipe[w]),
         broker'.task[w] \in {broker.task[w], NoTask},
         proc'[w] \in {proc[w], "dead", "booting"},
         broker.task[w] # NoTask => AnswerCounts(broker.task[w], Head(pipe[w]))
  PROVE  Spoken(w)'
<1> DEFINE q == pipe[w]
<1>0. q \in Seq(Messages) /\ AnswersFirst(q) /\ q # <<>> /\ Len(q) \in Nat /\ Len(q) >= 1
  <2>1. q \in Seq(Messages) /\ AnswersFirst(q) /\ q # <<>>
    BY DEF TypeOK, Messages, Spoken
  <2> HIDE DEF q
  <2> QED BY <2>1
<1>1. /\ AnswersFirst(pipe'[w]) /\ Len(pipe'[w]) = Len(q) - 1
      /\ Pending(pipe'[w]) = IF Head(q).type = "processed" THEN Pending(q) - 1 ELSE 0
      /\ Head(q).type # "processed" => Pending(q) = 0
  BY <1>0, TailPending
<1>2. HasIdled(pipe'[w]) => HasIdled(q)
  <2>1. /\ DOMAIN q = 1 .. Len(q) /\ DOMAIN Tail(q) = 1 .. (Len(q) - 1)
        /\ \A i \in 1 .. (Len(q) - 1) : Tail(q)[i] = q[i + 1] /\ i + 1 \in 1 .. Len(q)
    BY <1>0
  <2> HIDE DEF q
  <2>2. pipe'[w] = Tail(q)
    BY DEF q
  <2> QED BY <2>1, <2>2 DEF HasIdled
<1>3. /\ proc[w] # "running"
      /\ proc[w] = "processed" => Len(q) <= 1 /\ Pending(q) = Len(q)
      /\ q = pipe[w]
  BY <1>0 DEF Spoken
<1>4. Pending(q) \in Nat /\ Pending(pipe'[w]) \in Nat
  BY PendingNumber
<1> HIDE DEF q
<1>5. /\ proc'[w] # "running"
      /\ proc'[w] = "processed" => Len(pipe'[w]) <= 1 /\ Pending(pipe'[w]) = Len(pipe'[w])
  <2>1. proc'[w] = "processed" => proc[w] = "processed"
    OBVIOUS
  <2>2. proc[w] = "processed" => Head(q).type = "processed"
    BY <1>0, <1>1, <1>3
  <2> QED BY <1>0, <1>1, <1>3, <1>4, <2>1, <2>2
<1>6. ASSUME broker'.task[w] # NoTask
      PROVE  /\ Answers(broker.task[w])' + Pending(pipe'[w]) + ToSend(proc'[w]) <= 2
             /\ proc'[w] \in {"processed", "answered", "flushing"} \/ HasIdled(pipe'[w]) =>
                  \/ Pending(pipe'[w]) > 0
                  \/ Answers(broker.task[w])' > 0
                  \/ broker'.stopper = "done"
  <2>1. PICK t : t = broker.task[w]
    OBVIOUS
  <2>2. broker'.task[w] = t /\ t \in Tasks
    BY <1>6, <2>1 DEF TypeOK, BrokerType
  <2>3. /\ Answers(t) + Pending(q) + ToSend(proc[w]) <= 2
        /\ proc[w] \in {"processed", "answered", "flushing"} \/ HasIdled(q) =>
             \/ Pending(q) > 0
             \/ Answers(t) > 0
             \/ broker.stopper = "done"
    BY <1>3, <1>6, <2>1, <2>2 DEF Spoken
  <2>4. Answers(t)' = published'[t] + compressing'[t]
    BY DEF Answers
  <2>5. \/ Answers(t)' = Answers(t) + (IF Head(q).type = "processed" THEN 1 ELSE 0)
        \/ Answers(t)' = Answers(t) /\ broker'.stopper = "done"
    <3>1. AnswerCounts(t, Head(q))
      BY <1>3, <1>6, <2>1, <2>2
    <3> QED BY <2>4, <3>1 DEF AnswerCounts
  <2>6. Answers(t) \in Nat /\ Answers(t)' \in Nat
    <3>1. Answers(t) \in Nat
      BY <2>2, AnswersNumber
    <3>2. Answers(t)' \in Nat
      BY <2>2, <2>4 DEF IntakeTypes
    <3> QED BY <3>1, <3>2
  <2>7. ToSend(proc'[w]) \in Nat /\ ToSend(proc[w]) \in Nat /\ ToSend(proc'[w]) <= ToSend(proc[w])
    BY DEF ToSend
  <2>8. Answers(t)' + Pending(pipe'[w]) + ToSend(proc'[w]) <= 2
    <3>1. Answers(t)' + Pending(pipe'[w]) <= Answers(t) + Pending(q)
      <4>1. CASE Head(q).type = "processed"
        BY <1>1, <1>4, <2>5, <2>6, <4>1
      <4>2. CASE Head(q).type # "processed"
        BY <1>1, <1>4, <2>5, <2>6, <4>2
      <4> QED BY <4>1, <4>2
    <3>2. \A a, b, c, d, e, f \in Int :
            a + b <= c + d /\ e <= f /\ c + d + f <= 2 => a + b + e <= 2
      OBVIOUS
    <3> QED BY <1>4, <2>3, <2>6, <2>7, <3>1, <3>2
  <2>9. CASE Head(q).type = "processed"
    <3>1. Answers(t)' > 0 \/ broker'.stopper = "done"
      BY <2>5, <2>6, <2>9
    <3>2. Answers(broker.task[w])' = Answers(t)'
      BY <2>2 DEF Answers
    <3> QED BY <2>8, <3>1, <3>2
  <2>10. CASE Head(q).type # "processed"
    <3>1. Answers(t)' = Answers(t) /\ Pending(q) = 0 /\ ~(Pending(q) > 0)
      BY <1>1, <2>5, <2>6, <2>10
    <3>2. Answers(broker.task[w])' = Answers(t)'
      BY <2>2 DEF Answers
    <3>3. proc'[w] \in {"processed", "answered", "flushing"} => proc'[w] = proc[w]
      OBVIOUS
    <3>4. proc'[w] \in {"processed", "answered", "flushing"} \/ HasIdled(pipe'[w]) =>
                  \/ Answers(t)' > 0
                  \/ broker'.stopper = "done"
      BY <1>2, <2>3, <3>1, <3>3
    <3> QED BY <2>8, <3>2, <3>4
  <2> QED BY <2>9, <2>10
<1> QED BY <1>1, <1>5, <1>6 DEF Spoken

\* A worker that is given a task has said nothing yet
GivenTask(w, t) ==
  /\ broker.task[w] = NoTask /\ broker'.task[w] = t
  /\ pipe'[w] = pipe[w] \/ (pipe[w] # <<>> /\ pipe'[w] = Tail(pipe[w]))

LEMMA GivenSpeaks ==
  ASSUME BrokerInv, TypeOK', IInv', NEW w \in Workers, NEW t \in Tasks, GivenTask(w, t),
         proc'[w] \in {proc[w], "dead", "booting", "running"},
         published'[t] = 0, compressing'[t] = 0
  PROVE  Spoken(w)'
<1> DEFINE q == pipe[w]
<1>0. q \in Seq(Messages) /\ t # NoTask
  BY SentinelAssumption DEF BrokerInv, TypeOK, Messages
<1>1. /\ \A i \in DOMAIN q : q[i].type = "started"
      /\ proc[w] \notin Working
  BY DEF GivenTask, BrokerInv, AInv, Answering
<1>2. \A i \in DOMAIN pipe'[w] : pipe'[w][i].type = "started"
  <2>1. CASE pipe'[w] = q
    BY <1>1, <2>1
  <2>2. CASE q # <<>> /\ pipe'[w] = Tail(q)
    <3>1. /\ DOMAIN q = 1 .. Len(q) /\ DOMAIN Tail(q) = 1 .. (Len(q) - 1)
          /\ \A i \in 1 .. (Len(q) - 1) : Tail(q)[i] = q[i + 1] /\ i + 1 \in 1 .. Len(q)
      BY <1>0, <2>2
    <3> HIDE DEF q
    <3> QED BY <1>1, <2>2, <3>1
  <2> QED BY <2>1, <2>2 DEF GivenTask
<1>3. ~HasStarted(pipe'[w])
  <2>1. broker'.task[w] # NoTask
    BY <1>0 DEF GivenTask
  <2> QED BY <2>1 DEF IInv, Unspoilt, Unplaced
<1>4. pipe'[w] \in Seq(Messages) /\ DOMAIN pipe'[w] = {}
  <2>1. pipe'[w] \in Seq(Messages)
    BY DEF TypeOK, Messages
  <2> QED BY <1>2, <1>3, <2>1 DEF HasStarted
<1>5. pipe'[w] = <<>> /\ Len(pipe'[w]) = 0
  <2>1. \A r \in Seq(Messages) : DOMAIN r = {} => r = <<>> /\ Len(r) = 0
    OBVIOUS
  <2> QED BY <1>4, <2>1
<1>6. AnswersFirst(pipe'[w]) /\ Pending(pipe'[w]) = 0 /\ ~HasIdled(pipe'[w])
  BY <1>4, <1>5 DEF AnswersFirst, Pending, HasIdled
<1>7. proc'[w] \notin {"processed", "answered", "flushing"} /\ ToSend(proc'[w]) \in {0, 2}
  BY <1>1 DEF Working, ToSend
<1>8. broker'.task[w] = t
  BY DEF GivenTask
<1>9. Answers(broker.task[w])' = 0
  BY <1>8 DEF Answers
<1> QED BY <1>5, <1>6, <1>7, <1>9 DEF Spoken

OneWorker ==
  \A v, w \in Workers : broker.task[v] = broker.task[w] /\ broker.task[v] # NoTask => v = w

SpokenInv ==
  /\ \A t \in Tasks : Answers(t) <= 2
  /\ OneWorker
  /\ \A w \in Workers : Spoken(w)

LEMMA HandledProc ==
  ASSUME NEW b, Handled(b), NEW w \in Workers
  PROVE  /\ broker' = b
         /\ proc'[w] \in {proc[w], "dead", "booting", "running"}
         /\ b.task[w] \in {broker.task[w], NoTask} => proc'[w] \in {proc[w], "dead", "booting"}
<1>1. /\ broker' = b
      /\ proc'[w] = CASE w \in b.killed -> "dead"
                      [] w \in b.cluster \ broker.cluster -> "booting"
                      [] w \in Delivered(b) -> "running"
                      [] OTHER -> proc[w]
  BY DEF Handled
<1>2. b.task[w] \in {broker.task[w], NoTask} => w \notin Delivered(b)
  BY DEF Delivered
<1> QED BY <1>1, <1>2

\* What a step reads: nothing, or the first message when that is no answer
ReadsNoAnswer ==
  \A w \in Workers :
    \/ pipe'[w] = pipe[w]
    \/ pipe[w] # <<>> /\ pipe'[w] = Tail(pipe[w]) /\ Head(pipe[w]).type # "processed"

StopStays == broker.stopper = "done" => broker'.stopper = "done"

\* A step that gives no task and publishes nothing
LEMMA FrameSpeaks ==
  ASSUME TypeOK, IntakeTypes, IntakeTypes', SpokenInv, SameResults, StopStays, ReadsNoAnswer,
         \A w \in Workers : /\ broker'.task[w] \in {broker.task[w], NoTask}
                            /\ proc'[w] \in {proc[w], "dead", "booting"}
  PROVE  SpokenInv'
<1>1. \A t \in Tasks : published'[t] + compressing'[t] = Answers(t)
  BY DEF SameResults, Answers
<1>2. \A t \in Tasks : Answers(t)' <= 2
  BY <1>1 DEF SpokenInv, Answers
<1>3. OneWorker'
  BY DEF SpokenInv, OneWorker
<1>4. \A t \in Tasks : Answers(t) \in Nat
  BY AnswersNumber
<1>5. ASSUME NEW w \in Workers PROVE Spoken(w)'
  <2>1. Spoken(w) /\ (broker.task[w] # NoTask => broker.task[w] \in Tasks)
    BY DEF SpokenInv, TypeOK, BrokerType
  <2>2. CASE pipe'[w] = pipe[w]
    <3>1. broker.task[w] # NoTask =>
            /\ published'[broker.task[w]] + compressing'[broker.task[w]]
                 <= Answers(broker.task[w])
            /\ NotTakenBack(broker.task[w])
      BY <1>1, <1>4, <2>1 DEF NotTakenBack
    <3> QED BY <2>1, <2>2, <3>1, QuietSpeaks DEF StopStays
  <2>3. CASE pipe[w] # <<>> /\ pipe'[w] = Tail(pipe[w]) /\ Head(pipe[w]).type # "processed"
    <3>1. broker.task[w] # NoTask => AnswerCounts(broker.task[w], Head(pipe[w]))
      BY <1>1, <1>4, <2>1, <2>3 DEF AnswerCounts
    <3> QED BY <2>1, <2>3, <3>1, ReadSpeaks DEF StopStays
  <2> QED BY <2>2, <2>3 DEF ReadsNoAnswer
<1> QED BY <1>2, <1>3, <1>5 DEF SpokenInv

\* A step that gives a task that is on no worker and has no answer
LEMMA GiveSpeaks ==
  ASSUME BrokerInv, IntakeTypes, IntakeTypes', TypeOK', IInv', SpokenInv, SameResults, StopStays,
         ReadsNoAnswer, NEW s, NEW t \in Tasks, GivenTo(s, t), ~Works(t), ~HasResult(t),
         \A w \in Workers :
           /\ proc'[w] \in {proc[w], "dead", "booting", "running"}
           /\ broker'.task[w] \in {broker.task[w], NoTask} =>
                proc'[w] \in {proc[w], "dead", "booting"}
  PROVE  SpokenInv'
<1>0. TypeOK /\ broker.task \in [Workers -> Tasks \cup {NoTask}] /\ t # NoTask
  BY SentinelAssumption DEF BrokerInv, TypeOK, BrokerType
<1>1. CASE broker'.task = broker.task
  BY <1>0, <1>1, FrameSpeaks
<1>2. ASSUME NEW n \in Workers, broker.task[n] = NoTask,
             broker'.task = [broker.task EXCEPT ![n] = t]
      PROVE  SpokenInv'
  <2>1. \A w \in Workers : broker'.task[w] = IF w = n THEN t ELSE broker.task[w]
    BY <1>0, <1>2
  <2>2. \A u \in Tasks : published'[u] + compressing'[u] = Answers(u) /\ Answers(u) \in Nat
    BY AnswersNumber DEF SameResults, Answers
  <2>3. \A u \in Tasks : Answers(u)' <= 2
    BY <2>2 DEF SpokenInv, Answers
  <2>4. OneWorker'
    BY <1>0, <2>1 DEF SpokenInv, OneWorker, Works
  <2>5. published'[t] = 0 /\ compressing'[t] = 0
    BY DEF HasResult, SameResults, IntakeTypes
  <2>6. Spoken(n)'
    <3>1. GivenTask(n, t)
      BY <1>2, <2>1 DEF GivenTask, ReadsNoAnswer
    <3> QED BY <2>5, <3>1, GivenSpeaks
  <2>7. ASSUME NEW w \in Workers \ {n} PROVE Spoken(w)'
    <3>1. Spoken(w) /\ (broker.task[w] # NoTask => broker.task[w] \in Tasks)
      BY <1>0 DEF SpokenInv
    <3>2. broker'.task[w] = broker.task[w] /\ proc'[w] \in {proc[w], "dead", "booting"}
      BY <2>1
    <3>3. CASE pipe'[w] = pipe[w]
      <4>1. broker.task[w] # NoTask =>
              /\ published'[broker.task[w]] + compressing'[broker.task[w]]
                   <= Answers(broker.task[w])
              /\ NotTakenBack(broker.task[w])
        BY <2>2, <3>1 DEF NotTakenBack
      <4> QED BY <1>0, <3>1, <3>2, <3>3, <4>1, QuietSpeaks DEF StopStays
    <3>4. CASE pipe[w] # <<>> /\ pipe'[w] = Tail(pipe[w]) /\ Head(pipe[w]).type # "processed"
      <4>1. broker.task[w] # NoTask => AnswerCounts(broker.task[w], Head(pipe[w]))
        BY <2>2, <3>1, <3>4 DEF AnswerCounts
      <4> QED BY <1>0, <3>1, <3>2, <3>4, <4>1, ReadSpeaks DEF StopStays
    <3> QED BY <3>3, <3>4 DEF ReadsNoAnswer
  <2> QED BY <2>3, <2>4, <2>6, <2>7 DEF SpokenInv
<1> QED BY <1>1, <1>2 DEF GivenTo

LEMMA ProcessedSpeaks ==
  ASSUME MasterAll, IntakeTypes', SpokenInv, NEW w \in Workers, OnTaskProcessed(w)
  PROVE  SpokenInv'
<1>0. /\ TypeOK /\ IntakeTypes /\ \A t \in Tasks : Answers(t) \in Nat
  BY AnswersNumber DEF MasterAll, BrokerInv, MasterInv
<1>1. /\ pipe[w] # <<>> /\ Head(pipe[w]).type = "processed"
      /\ \A v \in Workers : pipe'[v] = IF v = w THEN Tail(pipe[w]) ELSE pipe[v]
      /\ Handled(broker)
  BY <1>0 DEF OnTaskProcessed, OnWorkerTaskProcessed, OnMessage, Read, TypeOK
<1>2. broker' = broker /\ \A v \in Workers : proc'[v] \in {proc[v], "dead", "booting"}
  BY <1>1, HandledProc
<1>3. broker.task[w] \in Tasks
  <2>1. /\ pipe[w] \in Seq([type : MessageTypes, task : Tasks \cup {NoTask}])
        /\ broker.task \in [Workers -> Tasks \cup {NoTask}]
    BY <1>0 DEF TypeOK, BrokerType
  <2>2. 1 \in DOMAIN pipe[w] /\ pipe[w][1].type # "started"
    BY <1>1, <2>1
  <2> QED BY <2>1, <2>2 DEF MasterAll, BrokerInv, AInv, Answering
<1>4. PICK t \in Tasks : t = broker.task[w]
  BY <1>3
<1>5. \/ compressing' = compressing /\ published' = [published EXCEPT ![t] = @ + 1]
      \/ published' = published /\ compressing' = [compressing EXCEPT ![t] = @ + 1]
      \/ published' = published /\ compressing' = compressing /\ broker.stopper = "done"
  BY <1>4 DEF OnTaskProcessed, Publish
<1>6. \A u \in Tasks :
        \/ published'[u] + compressing'[u] = Answers(u) + (IF u = t THEN 1 ELSE 0)
        \/ published'[u] + compressing'[u] = Answers(u) /\ broker.stopper = "done"
  <2> TAKE u \in Tasks
  <2>1. /\ published[u] \in Nat /\ compressing[u] \in Nat
        /\ published \in [Tasks -> Nat] /\ compressing \in [Tasks -> Nat]
    BY <1>0 DEF IntakeTypes
  <2> QED BY <1>5, <2>1 DEF Answers
<1>7. Answers(t) < 2
  <2>1. AnswersFirst(pipe[w]) /\ pipe[w] \in Seq(Messages) /\ t # NoTask
    BY <1>0, SentinelAssumption DEF SpokenInv, Spoken, TypeOK, Messages
  <2>2. Pending(pipe[w]) - 1 = Pending(Tail(pipe[w]))
    BY <1>1, <2>1, TailPending
  <2>3. Pending(pipe[w]) \in Nat /\ Pending(Tail(pipe[w])) \in Nat /\ ToSend(proc[w]) \in Nat
    BY PendingNumber DEF ToSend
  <2>4. Answers(t) + Pending(pipe[w]) + ToSend(proc[w]) <= 2
    BY <1>4, <2>1 DEF SpokenInv, Spoken
  <2> QED BY <1>0, <2>2, <2>3, <2>4
<1>8. \A u \in Tasks : Answers(u)' <= 2
  <2> TAKE u \in Tasks
  <2>1. Answers(u)' \in {Answers(u), Answers(u) + (IF u = t THEN 1 ELSE 0)}
    BY <1>6 DEF Answers
  <2>2. Answers(u) <= 2 /\ Answers(u) \in Nat
    BY <1>0 DEF SpokenInv
  <2> QED BY <1>7, <2>1, <2>2
<1>9. OneWorker'
  BY <1>2 DEF SpokenInv, OneWorker
<1>10. ASSUME NEW v \in Workers PROVE Spoken(v)'
  <2>1. Spoken(v) /\ broker'.task[v] = broker.task[v]
    BY <1>2 DEF SpokenInv
  <2>2. CASE v = w
    <3>1. broker.task[v] # NoTask => AnswerCounts(broker.task[v], Head(pipe[v]))
      BY <1>1, <1>4, <1>6, <2>2 DEF AnswerCounts
    <3> QED BY <1>0, <1>1, <1>2, <2>1, <2>2, <3>1, ReadSpeaks
  <2>3. CASE v # w
    <3>1. broker.task[v] # NoTask => broker.task[v] \in Tasks /\ broker.task[v] # t
      BY <1>0, <1>4, <2>3 DEF SpokenInv, OneWorker, TypeOK, BrokerType
    <3>2. broker.task[v] # NoTask =>
            /\ published'[broker.task[v]] + compressing'[broker.task[v]]
                 <= Answers(broker.task[v])
            /\ NotTakenBack(broker.task[v])
      BY <1>0, <1>6, <3>1 DEF NotTakenBack
    <3> QED BY <1>0, <1>1, <1>2, <2>1, <2>3, <3>2, QuietSpeaks
  <2> QED BY <2>2, <2>3
<1> QED BY <1>8, <1>9, <1>10 DEF SpokenInv

LEMMA CompressedSpeaks ==
  ASSUME MasterAll, IntakeTypes', SpokenInv, NEW t \in Tasks, OnResultCompressed(t)
  PROVE  SpokenInv'
<1>0. /\ TypeOK /\ IntakeTypes /\ \A u \in Tasks : Answers(u) \in Nat
  BY AnswersNumber DEF MasterAll, BrokerInv, MasterInv
<1>1. /\ broker' = broker /\ pipe' = pipe /\ proc' = proc
      /\ compressing[t] > 0 /\ compressing' = [compressing EXCEPT ![t] = @ - 1]
      /\ published' = IF broker.stopper = "done" THEN published
                      ELSE [published EXCEPT ![t] = @ + 1]
  BY DEF OnResultCompressed, Publish, vars, processes
<1>2. \A u \in Tasks : published'[u] + compressing'[u] <= Answers(u) /\ NotTakenBack(u)
  <2> TAKE u \in Tasks
  <2>1. /\ published[u] \in Nat /\ compressing[u] \in Nat
        /\ published \in [Tasks -> Nat] /\ compressing \in [Tasks -> Nat]
    BY <1>0 DEF IntakeTypes
  <2>2. CASE broker.stopper = "done"
    BY <1>1, <2>1, <2>2 DEF Answers, NotTakenBack
  <2>3. CASE broker.stopper # "done"
    BY <1>1, <2>1, <2>3 DEF Answers, NotTakenBack
  <2> QED BY <2>2, <2>3
<1>3. \A u \in Tasks : Answers(u)' <= 2
  <2> TAKE u \in Tasks
  <2>1. Answers(u)' <= Answers(u) /\ Answers(u)' \in Nat
    BY <1>2 DEF Answers, IntakeTypes
  <2>2. Answers(u) <= 2 /\ Answers(u) \in Nat
    BY <1>0 DEF SpokenInv
  <2> QED BY <2>1, <2>2
<1>4. OneWorker'
  BY <1>1 DEF SpokenInv, OneWorker
<1>5. ASSUME NEW v \in Workers PROVE Spoken(v)'
  <2>1. Spoken(v) /\ (broker.task[v] # NoTask => broker.task[v] \in Tasks)
    BY <1>0 DEF SpokenInv, TypeOK, BrokerType
  <2>2. /\ broker'.task[v] \in {broker.task[v], NoTask} /\ pipe'[v] = pipe[v]
        /\ proc'[v] \in {proc[v], "dead", "booting"}
    BY <1>1
  <2> QED BY <1>0, <1>1, <1>2, <2>1, <2>2, QuietSpeaks
<1> QED BY <1>3, <1>4, <1>5 DEF SpokenInv

LEMMA SendSpeaks ==
  ASSUME TypeOK, IntakeTypes, IntakeTypes', SpokenInv, SameResults,
         NEW w \in Workers, NEW type \in MessageTypes, NEW next, Send(w, type, next),
         \/ /\ type # "processed" /\ next \notin {"running", "processed"}
            /\ next \in {"answered", "flushing"} \/ type = "idling" =>
                 proc[w] \in {"answered", "flushing"}
         \/ type = "processed" /\ proc[w] = "running" /\ next \in {"processed", "answered"}
         \/ type = "processed" /\ proc[w] = "processed" /\ next = "answered"
  PROVE  SpokenInv'
<1> DEFINE q == pipe[w]
           m == [type |-> type, task |-> job[w]]
<1>0. q \in Seq(Messages) /\ m \in Messages /\ m.type = type
  BY DEF TypeOK, Messages
<1>1. /\ broker' = broker
      /\ \A v \in Workers : pipe'[v] = IF v = w THEN Append(q, m) ELSE pipe[v]
      /\ \A v \in Workers : proc'[v] = IF v = w THEN next ELSE proc[v]
  BY DEF Send, TypeOK
<1> HIDE DEF m
<1>2. \A t \in Tasks : published'[t] + compressing'[t] = Answers(t) /\ Answers(t) \in Nat
  BY AnswersNumber DEF SameResults, Answers
<1>3. \A t \in Tasks : Answers(t)' <= 2
  BY <1>2 DEF SpokenInv, Answers
<1>4. OneWorker'
  BY <1>1 DEF SpokenInv, OneWorker
<1>5. /\ AnswersFirst(q)
      /\ proc[w] = "running" => q = <<>>
      /\ proc[w] = "processed" => Len(q) <= 1 /\ Pending(q) = Len(q)
      /\ q = pipe[w]
  BY DEF SpokenInv, Spoken
<1>6. /\ DOMAIN q = 1 .. Len(q) /\ Len(q) \in Nat /\ DOMAIN Append(q, m) = 1 .. (Len(q) + 1)
      /\ \A i \in 1 .. Len(q) : Append(q, m)[i] = q[i]
      /\ Append(q, m)[Len(q) + 1] = m
      /\ q = <<>> => Len(q) = 0
  BY <1>0
<1> HIDE DEF q
<1>7. HasIdled(Append(q, m)) => HasIdled(q) \/ type = "idling"
  <2>1. \A i \in 1 .. (Len(q) + 1) : i \in 1 .. Len(q) \/ i = Len(q) + 1
    BY <1>6
  <2> QED BY <1>0, <1>6, <2>1 DEF HasIdled
<1>8. Pending(q) \in {0, 1, 2} /\ Pending(Append(q, m)) \in {0, 1, 2}
  BY PendingNumber
<1>9. /\ AnswersFirst(Append(q, m))
      /\ next # "running"
      /\ next = "processed" => /\ Len(Append(q, m)) <= 1
                               /\ Pending(Append(q, m)) = Len(Append(q, m))
      /\ Pending(Append(q, m)) + ToSend(next) <= Pending(q) + ToSend(proc[w])
      /\ next \in {"processed", "answered", "flushing"} \/ HasIdled(Append(q, m)) =>
           \/ Pending(Append(q, m)) > 0
           \/ proc[w] \in {"processed", "answered", "flushing"} \/ HasIdled(q)
      /\ Pending(q) > 0 => Pending(Append(q, m)) > 0
  <2>1. CASE /\ type # "processed" /\ next \notin {"running", "processed"}
             /\ next \in {"answered", "flushing"} \/ type = "idling" =>
                  proc[w] \in {"answered", "flushing"}
    <3>1. AnswersFirst(Append(q, m)) /\ Pending(Append(q, m)) = Pending(q)
      BY <1>0, <1>5, <2>1, AppendPending
    <3>2. ToSend(next) = 0 /\ ToSend(proc[w]) \in {0, 1, 2}
      BY <2>1 DEF ToSend
    <3> QED BY <1>7, <1>8, <2>1, <3>1, <3>2
  <2>2. CASE type = "processed" /\ proc[w] = "running" /\ next \in {"processed", "answered"}
    <3>1. Len(q) = 0 /\ Pending(q) = 0
      BY <1>5, <1>6, <2>2 DEF Pending
    <3>2. /\ AnswersFirst(Append(q, m)) /\ Pending(Append(q, m)) = 1
          /\ Len(Append(q, m)) = 1
      BY <1>0, <1>5, <2>2, <3>1, AppendPending
    <3>3. ToSend(next) \in {0, 1} /\ ToSend(proc[w]) = 2
      BY <2>2 DEF ToSend
    <3> QED BY <2>2, <3>1, <3>2, <3>3
  <2>3. CASE type = "processed" /\ proc[w] = "processed" /\ next = "answered"
    <3>1. AnswersFirst(Append(q, m)) /\ Pending(Append(q, m)) = Pending(q) + 1
      BY <1>0, <1>5, <2>3, AppendPending
    <3>2. ToSend(next) = 0 /\ ToSend(proc[w]) = 1
      BY <2>3 DEF ToSend
    <3> QED BY <1>8, <2>3, <3>1, <3>2
  <2> QED BY <2>1, <2>2, <2>3
<1>10. ASSUME NEW v \in Workers PROVE Spoken(v)'
  <2>1. Spoken(v) /\ (broker.task[v] # NoTask => broker.task[v] \in Tasks)
    BY DEF SpokenInv, TypeOK, BrokerType
  <2>2. CASE v # w
    <3>1. broker.task[v] # NoTask =>
            /\ published'[broker.task[v]] + compressing'[broker.task[v]]
                 <= Answers(broker.task[v])
            /\ NotTakenBack(broker.task[v])
      BY <1>2, <2>1 DEF NotTakenBack
    <3>2. /\ broker'.task[v] \in {broker.task[v], NoTask} /\ pipe'[v] = pipe[v]
          /\ proc'[v] \in {proc[v], "dead", "booting"}
      BY <1>1, <2>2
    <3> QED BY <1>1, <2>1, <3>1, <3>2, QuietSpeaks
  <2>3. CASE v = w
    <3>1. pipe'[v] = Append(q, m) /\ proc'[v] = next /\ broker'.task[v] = broker.task[v]
      BY <1>1, <2>3
    <3>2. ASSUME broker.task[v] # NoTask
          PROVE  /\ Answers(broker.task[v])' + Pending(pipe'[v]) + ToSend(proc'[v]) <= 2
                 /\ proc'[v] \in {"processed", "answered", "flushing"} \/ HasIdled(pipe'[v]) =>
                      \/ Pending(pipe'[v]) > 0
                      \/ Answers(broker.task[v])' > 0
                      \/ broker'.stopper = "done"
      <4>1. PICK t \in Tasks : t = broker.task[v]
        BY <2>1, <3>2
      <4>2. Answers(broker.task[v])' = Answers(t) /\ Answers(t) \in Nat
        BY <1>1, <1>2, <4>1 DEF Answers
      <4>3. /\ Answers(t) + Pending(q) + ToSend(proc[w]) <= 2
            /\ proc[w] \in {"processed", "answered", "flushing"} \/ HasIdled(q) =>
                 Pending(q) > 0 \/ Answers(t) > 0 \/ broker.stopper = "done"
        BY <1>5, <2>1, <2>3, <3>2, <4>1 DEF Spoken
      <4>4. ToSend(proc[w]) \in {0, 1, 2} /\ ToSend(next) \in {0, 1, 2}
        BY DEF ToSend
      <4>5. Answers(t) + Pending(Append(q, m)) + ToSend(next) <= 2
        BY <1>8, <1>9, <4>2, <4>3, <4>4
      <4>6. next \in {"processed", "answered", "flushing"} \/ HasIdled(Append(q, m)) =>
              Pending(Append(q, m)) > 0 \/ Answers(t) > 0 \/ broker'.stopper = "done"
        BY <1>1, <1>9, <4>3
      <4> QED BY <3>1, <4>2, <4>5, <4>6
    <3> QED BY <1>9, <3>1, <3>2 DEF Spoken
  <2> QED BY <2>2, <2>3
<1> QED BY <1>3, <1>4, <1>10 DEF SpokenInv

LEMMA RunSpeaks ==
  ASSUME MasterAll, IntakeTypes', SpokenInv, NEW w \in Workers, RunProcess(w) \/ CrashProcess(w)
  PROVE  SpokenInv'
<1>0. TypeOK /\ IntakeTypes /\ SameResults
  BY DEF MasterAll, BrokerInv, MasterInv, RunProcess, CrashProcess, SameResults, results
<1>1. CASE RunProcess(w)
  <2>1. PICK type \in MessageTypes, next \in ProcStates :
         /\ Send(w, type, next)
         /\ \/ /\ type # "processed" /\ next \notin {"running", "processed"}
               /\ next \in {"answered", "flushing"} \/ type = "idling" =>
                    proc[w] \in {"answered", "flushing"}
            \/ type = "processed" /\ proc[w] = "running" /\ next \in {"processed", "answered"}
            \/ type = "processed" /\ proc[w] = "processed" /\ next = "answered"
    <3>1. CASE Boot(w)
      <4>1. "started" \in MessageTypes /\ Send(w, "started", "waiting")
        BY <3>1 DEF Boot, MessageTypes
      <4> QED BY <4>1 DEF ProcStates
    <3>2. CASE FinishTask(w)
      <4>1. "processed" \in MessageTypes /\ Send(w, "processed", "processed") /\ proc[w] = "running"
        BY <3>2 DEF FinishTask, MessageTypes
      <4> QED BY <4>1 DEF ProcStates
    <3>3. CASE FailTask(w)
      <4>1. "processed" \in MessageTypes /\ Send(w, "processed", "answered") /\ proc[w] = "running"
        BY <3>3 DEF FailTask, MessageTypes
      <4> QED BY <4>1 DEF ProcStates
    <3>4. CASE RepeatResult(w)
      <4>1. /\ "processed" \in MessageTypes /\ Send(w, "processed", "answered")
            /\ proc[w] = "processed"
        BY <3>4 DEF RepeatResult, MessageTypes
      <4> QED BY <4>1 DEF ProcStates
    <3>5. CASE ReportCriticalError(w)
      <4>1. /\ "criticalError" \in MessageTypes /\ Send(w, "criticalError", "flushing")
            /\ proc[w] = "answered"
        BY <3>5 DEF ReportCriticalError, MessageTypes
      <4> QED BY <4>1 DEF ProcStates
    <3>6. CASE ReportIdling(w)
      <4>1. /\ "idling" \in MessageTypes /\ Send(w, "idling", "waiting")
            /\ proc[w] \in {"answered", "flushing"}
        BY <3>6 DEF ReportIdling, MessageTypes
      <4> QED BY <4>1 DEF ProcStates
    <3> QED BY <1>1, <3>1, <3>2, <3>3, <3>4, <3>5, <3>6 DEF RunProcess, RunWorker
  <2> QED BY <1>0, <2>1, SendSpeaks
<1>2. CASE CrashProcess(w)
  <2>1. /\ broker' = broker /\ pipe' = pipe
        /\ \A v \in Workers : proc'[v] \in {proc[v], "dead"}
    BY <1>0, <1>2 DEF CrashProcess, Crash, TypeOK
  <2> QED BY <1>0, <2>1, FrameSpeaks DEF ReadsNoAnswer, StopStays
<1> QED BY <1>1, <1>2

\* A handler of the broker that gives no task
LEMMA HandlerSpeaks ==
  ASSUME MasterAll, IntakeTypes', SpokenInv, SameResults, StopStays, ReadsNoAnswer,
         NEW b, Handled(b), \A w \in Workers : broker'.task[w] \in {broker.task[w], NoTask}
  PROVE  SpokenInv'
<1>1. \A w \in Workers : proc'[w] \in {proc[w], "dead", "booting"}
  <2> TAKE w \in Workers
  <2>1. broker' = b /\ b.task[w] \in {broker.task[w], NoTask}
    BY HandledProc
  <2> QED BY <2>1, HandledProc
<1> QED BY <1>1, FrameSpeaks DEF MasterAll, BrokerInv, MasterInv

LEMMA MessageSpeaks ==
  ASSUME MasterAll, BrokerInv', IntakeTypes', SpokenInv, StopStays, NEW w \in Workers,
         OnStarted(w) \/ OnBrokerMessage(w)
  PROVE  SpokenInv'
<1>0. TypeOK /\ BrokerInv /\ IntakeTypes
  BY DEF MasterAll, BrokerInv, MasterInv
<1>1. SameResults
  BY DEF OnStarted, OnBrokerMessage, SameResults, results
<1>2. PICK b : \/ OnMessage(w, "started", b) \/ OnMessage(w, "criticalError", b)
               \/ OnMessage(w, "idling", b)
  BY DEF OnStarted, OnBrokerMessage, OnWorkerStarted, OnWorkerCriticalError, OnWorkerIdling
<1>3. ReadsNoAnswer /\ Handled(b)
  BY <1>0, <1>2 DEF OnMessage, Read, ReadsNoAnswer, TypeOK
<1>4. ASSUME \A v \in Workers : broker'.task[v] \in {broker.task[v], NoTask}
      PROVE  SpokenInv'
  BY <1>1, <1>3, <1>4, HandlerSpeaks
<1>5. CASE OnBrokerMessage(w)
  <2>1. CASE OnWorkerCriticalError(w)
    BY <1>0, <1>4, <2>1, EventHolds DEF KeepsHolders
  <2>2. CASE OnWorkerIdling(w)
    BY <1>0, <1>4, <2>2, IdlingHolds
  <2> QED BY <1>5, <2>1, <2>2 DEF OnBrokerMessage
<1>6. CASE OnStarted(w)
  <2> DEFINE s == [broker.waiter EXCEPT ![w] = NoTask]
  <2>1. /\ broker.waiter[w] = NoTask => broker'.task = broker.task
        /\ broker.waiter[w] # NoTask =>
             broker.waiter[w] \in Tasks /\ GivenTo(s, broker.waiter[w])
    BY <1>0, <1>6, StartedHolds DEF OnStarted
  <2>2. CASE broker.waiter[w] = NoTask
    BY <1>4, <2>1, <2>2
  <2>3. CASE broker.waiter[w] # NoTask
    <3>1. PICK t \in Tasks : t = broker.waiter[w]
      BY <2>1, <2>3
    <3>2. Waits(t) /\ OnePlace(t)
      BY <3>1 DEF Waits, MasterAll, IntakeInv
    <3>3. ~Works(t) /\ ~HasResult(t)
      BY <3>2 DEF OnePlace
    <3>4. GivenTo(s, t)
      BY <2>1, <2>3, <3>1
    <3>5. \A v \in Workers :
            /\ proc'[v] \in {proc[v], "dead", "booting", "running"}
            /\ broker'.task[v] \in {broker.task[v], NoTask} =>
                 proc'[v] \in {proc[v], "dead", "booting"}
      BY <1>3, HandledProc
    <3> HIDE DEF s
    <3>6. TypeOK' /\ IInv'
      BY DEF BrokerInv
    <3> QED BY <1>0, <1>1, <1>3, <3>3, <3>4, <3>5, <3>6, GiveSpeaks
  <2> QED BY <2>2, <2>3
<1> QED BY <1>5, <1>6

LEMMA OnTaskSpeaks ==
  ASSUME MasterAll, BrokerInv', IntakeTypes', SpokenInv, StopStays, NEW c \in Channels,
         NEW t \in Tasks, OnTask(c, t)
  PROVE  SpokenInv'
<1>0. TypeOK /\ BrokerInv /\ IntakeTypes /\ TypeOK' /\ IInv'
  BY DEF MasterAll, BrokerInv, MasterInv
<1>1. SameResults /\ GetWorkerForTask(t) /\ reply[c] = t
  BY DEF OnTask, Received, SameResults, results
<1>2. Handled(Dispatch(broker, t)) /\ ReadsNoAnswer
  BY <1>1 DEF GetWorkerForTask, ReadsNoAnswer
<1>3. InReply(t) /\ OnePlace(t)
  BY <1>1 DEF InReply, MasterAll, IntakeInv
<1>4. ~Works(t) /\ ~HasResult(t)
  BY <1>3 DEF OnePlace
<1>5. GivenTo(broker.waiter, t)
  BY <1>0, <1>1, RequestHolds
<1>6. \A v \in Workers :
        /\ proc'[v] \in {proc[v], "dead", "booting", "running"}
        /\ broker'.task[v] \in {broker.task[v], NoTask} =>
             proc'[v] \in {proc[v], "dead", "booting"}
  BY <1>2, HandledProc
<1> QED BY <1>0, <1>1, <1>2, <1>4, <1>5, <1>6, GiveSpeaks

LEMMA EventSpeaks ==
  ASSUME MasterAll, IntakeTypes', SpokenInv, StopStays,
         OnBrokerEvent \/ OnReadyForNextTasks \/ StopMaster
  PROVE  SpokenInv'
<1>0. BrokerInv
  BY DEF MasterAll
<1>1. SameResults
  BY DEF OnBrokerEvent, OnReadyForNextTasks, StopMaster, SameResults, results
<1>2. ASSUME KeepsHolders, pipe' = pipe, NEW b, Handled(b) PROVE SpokenInv'
  BY <1>1, <1>2, HandlerSpeaks DEF KeepsHolders, ReadsNoAnswer
<1>3. ASSUME NEW w \in Workers, OnWorkerExit(w) \/ OnDisconnect(w) PROVE SpokenInv'
  <2>1. KeepsHolders
    BY <1>0, <1>3, EventHolds
  <2>2. pipe' = pipe /\ \E b : Handled(b)
    BY <1>3 DEF OnWorkerExit, OnDisconnect
  <2> QED BY <1>2, <2>1, <2>2
<1>4. ASSUME NEW w \in Workers,
             OnExpirationTimer(w) \/ OnIdlingTimer(w) \/ KillExpiredWorker(w)
      PROVE  SpokenInv'
  <2>1. KeepsHolders
    BY <1>0, <1>4, TimerHolds
  <2>2. pipe' = pipe /\ \E b : Handled(b)
    BY <1>4 DEF OnExpirationTimer, OnIdlingTimer, KillExpiredWorker, Loop
  <2> QED BY <1>2, <2>1, <2>2
<1>5. CASE \/ OnHeartbeatTimer \/ EndHeartbeat \/ \E a \in Apps : KillAllAppWorkers(a)
           \/ VisitCachedWorker \/ EndDeploy \/ Stop \/ EmitReady
  <2>1. KeepsHolders
    BY <1>0, <1>5, LoopsHold
  <2>2. pipe' = pipe /\ \E b : Handled(b)
    BY <1>5 DEF OnHeartbeatTimer, EndHeartbeat, KillAllAppWorkers, VisitCachedWorker,
                EndDeploy, Stop, EmitReady, Loop
  <2> QED BY <1>2, <2>1, <2>2
<1> QED BY <1>3, <1>4, <1>5 DEF OnBrokerEvent, OnReadyForNextTasks, StopMaster

LEMMA NextSpeaks ==
  ASSUME MasterAll, BrokerInv', IntakeTypes', SpokenInv, [MasterNext]_masterVars
  PROVE  SpokenInv'
<1>0. BrokerInv /\ TypeOK /\ IntakeTypes
  BY DEF MasterAll, BrokerInv, MasterInv
<1>1. StopStays
  <2>1. StopMaster \/ KeepsStop(broker, broker')
    BY <1>0, MasterRuns, RunsKeepStop
  <2> QED BY <2>1 DEF StopMaster, Stop, KeepsStop, StopStays
<1>2. ASSUME UNCHANGED vars, SameResults PROVE SpokenInv'
  <2>1. broker' = broker /\ pipe' = pipe /\ proc' = proc
    BY <1>2 DEF vars, processes
  <2> QED BY <1>0, <1>1, <1>2, <2>1, FrameSpeaks DEF ReadsNoAnswer
<1>3. CASE UNCHANGED masterVars \/ OnReconnect \/ Exit \/ \E t \in Tasks : Enqueue(t)
  BY <1>2, <1>3 DEF masterVars, results, OnReconnect, Exit, Enqueue, SameResults
<1>4. ASSUME NEW c \in Channels,
             Fetches(c) \/ OnGetterFailure(c) \/ PushTaskBack(c) \/ OnTaskPushedBack(c)
      PROVE  SpokenInv'
  BY <1>2, <1>4 DEF Fetches, Pop, OnCompressedReply, OnGetterFailure, PushTaskBack,
                    OnTaskPushedBack, results, SameResults
<1>5. ASSUME NEW c \in Channels, NEW t \in Tasks, ReceiveTask(c, t) PROVE SpokenInv'
  <2>1. CASE OnMalformedTask(c, t) \/ OnOutdatedTask(c, t) \/ OnRateLimitedTask(c, t)
    BY <1>2, <2>1 DEF OnMalformedTask, OnOutdatedTask, OnRateLimitedTask, Received, results,
                      SameResults
  <2> QED BY <1>1, <1>5, <2>1, OnTaskSpeaks DEF ReceiveTask
<1> QED BY <1>1, <1>3, <1>4, <1>5, CompressedSpeaks, ProcessedSpeaks, MessageSpeaks,
           RunSpeaks, EventSpeaks DEF MasterNext, Fetches

LEMMA InitSpeaks == MasterInit => SpokenInv
<1> SUFFICES ASSUME MasterInit PROVE SpokenInv
  OBVIOUS
<1>1. broker = KeepMinIdleWorkersCount(NewBroker)
  BY DEF MasterInit, Init
<1>2. \A w \in Workers : broker.task[w] = NoTask
  BY <1>1 DEF KeepMinIdleWorkersCount, Fork, NewBroker
<1>3. \A w \in Workers : pipe[w] = <<>> /\ proc[w] \in {"booting", "none"}
  BY DEF MasterInit, Init
<1>4. \A t \in Tasks : Answers(t) <= 2
  BY DEF MasterInit, Answers
<1>5. AnswersFirst(<<>>)
  BY DEF AnswersFirst
<1> QED BY <1>2, <1>3, <1>4, <1>5 DEF SpokenInv, OneWorker, Spoken

LEMMA SpokenInvariant == MasterSpec => []SpokenInv
<1>1. MasterAll /\ MasterAll' /\ SpokenInv /\ [MasterNext]_masterVars => SpokenInv'
  BY NextSpeaks DEF MasterAll, MasterInv
<1> QED BY <1>1, InitSpeaks, MasterInvariant, PTL DEF MasterSpec

\* A result goes out at most twice: the process sends two, and none is sent of a
\* task by another process or counted before it was read.
THEOREM AnswersNeverExceedTwo == MasterSpec => []AtMostTwoAnswers
<1>1. SpokenInv => AtMostTwoAnswers
  BY DEF SpokenInv, AtMostTwoAnswers, Answers
<1> QED BY <1>1, SpokenInvariant, PTL

----------------------------------------------------------------------------
(* A worker is free again only after its answer has been read              *)

LEMMA IdleIsAnswered ==
  ASSUME TypeOK, AInv, NEW w \in Workers, Spoken(w),
         pipe[w] # <<>>, Head(pipe[w]).type = "idling"
  PROVE  /\ broker.task[w] \in Tasks
         /\ Answers(broker.task[w]) > 0 \/ broker.stopper = "done"
<1>1. /\ pipe[w] \in Seq(Messages) /\ AnswersFirst(pipe[w])
      /\ broker.task[w] \in Tasks \cup {NoTask}
  BY DEF TypeOK, BrokerType, Messages, Spoken
<1>2. Pending(pipe[w]) = 0
  BY <1>1, TailPending
<1>3. 1 \in DOMAIN pipe[w] /\ pipe[w][1].type = "idling"
  BY <1>1
<1>4. broker.task[w] # NoTask
  BY <1>3 DEF AInv, Answering
<1>5. HasIdled(pipe[w])
  BY <1>3 DEF HasIdled
<1> QED BY <1>1, <1>2, <1>4, <1>5 DEF Spoken

\* A task the master is told to be finished with has been answered: a worker enters
\* the cache by the 'idling' it sends after its answers, and messages keep their order.
THEOREM IdleIsAlwaysAnswered == MasterSpec => IdleMeansAnswered
<1>1. MasterAll /\ SpokenInv /\ [MasterNext]_masterVars =>
        [\A w \in Workers :
           broker.place[w] = "busy" /\ broker.place'[w] = "cached" /\ broker.stopper # "done" =>
             published[broker.task[w]] + compressing[broker.task[w]] > 0]_masterVars
  <2> SUFFICES ASSUME MasterAll, SpokenInv, [MasterNext]_masterVars, NEW w \in Workers,
                      broker.place[w] = "busy", broker.place'[w] = "cached",
                      broker.stopper # "done"
               PROVE  published[broker.task[w]] + compressing[broker.task[w]] > 0
    OBVIOUS
  <2>1. TypeOK /\ Sound(broker) /\ IInv /\ AInv /\ [Next]_vars
    BY MasterStepsAreSteps DEF MasterAll, BrokerInv
  <2>2. pipe[w] # <<>> /\ Head(pipe[w]).type = "idling"
    BY <2>1, NextAnswers DEF CachesIdling
  <2>3. Answers(broker.task[w]) > 0
    BY <2>1, <2>2, IdleIsAnswered DEF SpokenInv
  <2> QED BY <2>3 DEF Answers
<1> QED BY <1>1, MasterInvariant, SpokenInvariant, PTL DEF MasterSpec, IdleMeansAnswered

----------------------------------------------------------------------------
(* The master keeps every task it took, while its connections hold         *)

Kept(t) == InQueue(t) \/ InIntake(t) \/ HasWorker(t) \/ IsFinished(t)

KeptInv == (broker.stopper # "none" => stopped) /\ TasksAreKept

\* What a step does for TasksAreKept
Keeps ==
  /\ stopped => stopped'
  /\ arrived \subseteq arrived'
  /\ \A t \in Tasks \ Malformed :
       t \in arrived' /\ ~stopped' /\ (t \in arrived => Kept(t)) => Kept(t)'

LEMMA UntouchedKept ==
  ASSUME NEW t, Untouched(t) PROVE (Kept(t) => Kept(t)') /\ (t \in arrived' <=> t \in arrived)
BY DEF Untouched, Kept, InQueue, InIntake, HasWorker, IsFinished, Holds

\* The task a step is about is kept, and the others are left where they are
LEMMA MoveKeeps ==
  ASSUME NEW t \in Tasks, t \in Malformed \/ Kept(t)', stopped' = stopped,
         arrived \subseteq arrived',
         \A u \in Tasks \ {t} : Untouched(u)
  PROVE  Keeps
<1> SUFFICES ASSUME NEW u \in Tasks \ Malformed, u \in arrived', u \in arrived => Kept(u)
             PROVE  Kept(u)'
  BY DEF Keeps
<1>1. CASE u = t
  BY <1>1
<1>2. CASE u # t
  BY <1>2, UntouchedKept
<1> QED BY <1>1, <1>2

\* The tasks' places are the same, or the same but for results
LEMMA FrameKeeps ==
  ASSUME SameIntake, stopped' = stopped,
         \A t \in Tasks : /\ HasWorker(t) => HasWorker(t)' \/ published'[t] + compressing'[t] > 0
                          /\ published[t] + compressing[t] > 0 =>
                               published'[t] + compressing'[t] > 0 \/ stopped'
  PROVE  Keeps
<1> SUFFICES ASSUME NEW t \in Tasks \ Malformed, t \in arrived', t \in arrived => Kept(t), ~stopped'
             PROVE  Kept(t)'
  BY DEF Keeps, SameIntake
<1>1. /\ InQueue(t)' <=> InQueue(t)
      /\ InIntake(t)' <=> InIntake(t)
      /\ t \in outdated' <=> t \in outdated
      /\ t \in arrived
  BY DEF SameIntake, InQueue, InIntake
<1>2. IsFinished(t)' <=> published'[t] + compressing'[t] > 0 \/ t \in outdated'
  BY DEF IsFinished
<1> QED BY <1>1, <1>2 DEF Kept, IsFinished

LEMMA EnqueueKeeps ==
  ASSUME MasterAll, NEW t \in Tasks, Enqueue(t) PROVE Keeps
<1> DEFINE c == ChannelOf(t)
<1>1. /\ c \in Channels /\ queue[c] \in Seq(Tasks) /\ queue \in [Channels -> Seq(Tasks)]
      /\ OnePlace(t) /\ NoRepeat(queue[c])
  BY DEF ChannelOf, Channels, MasterAll, MasterInv, IntakeTypes, IntakeInv
<1>2. /\ t \notin arrived /\ arrived' = arrived \cup {t} /\ stopped' = stopped
      /\ queue' = [queue EXCEPT ![c] = Append(@, t)]
      /\ SameWorkers /\ SameResults /\ reply' = reply /\ pushing' = pushing
      /\ outdated' = outdated
  BY DEF Enqueue, SameWorkers, SameResults, vars, processes, results
<1>3. ~Holds(queue[c], t)
  BY <1>1, <1>2 DEF OnePlace, InQueue, Holds
<1> DEFINE q == Append(queue[c], t)
<1>4. Holds(q, t) /\ \A u : u # t => (Holds(q, u) <=> Holds(queue[c], u))
  BY <1>1, <1>3, AppendHolds
<1>5. \A d \in Channels : queue'[d] = IF d = c THEN q ELSE queue[d]
  BY <1>1, <1>2
<1> HIDE DEF q, c
<1>6. Kept(t)'
  BY <1>1, <1>4, <1>5 DEF Kept, InQueue, Holds
<1>7. ASSUME NEW u \in Tasks \ {t} PROVE Untouched(u)
  <2>1. \A d \in Channels : Holds(queue'[d], u) <=> Holds(queue[d], u)
    BY <1>4, <1>5
  <2> QED BY <1>2, <2>1 DEF Untouched, SameWorkers, SameResults
<1> QED BY <1>2, <1>6, <1>7, MoveKeeps

LEMMA PopKeeps ==
  ASSUME MasterAll, NEW c \in Channels, Pop(c) PROVE Keeps
<1> DEFINE q == Tail(queue[c])
<1>1. /\ queue[c] \in Seq(Tasks) /\ queue \in [Channels -> Seq(Tasks)]
      /\ reply \in [Channels -> Tasks \cup {NoTask}] /\ queue[c] # <<>>
      /\ NoRepeat(queue[c])
  BY DEF MasterAll, MasterInv, IntakeTypes, Pop, IntakeInv
<1>2. PICK t \in Tasks : t = Head(queue[c])
  BY <1>1, TailHolds
<1>3. \A u : u # t => (Holds(q, u) <=> Holds(queue[c], u))
  BY <1>1, <1>2, TailHolds
<1>4. /\ reply[c] = NoTask /\ reply' = [reply EXCEPT ![c] = t]
      /\ queue' = [queue EXCEPT ![c] = q]
      /\ SameWorkers /\ SameResults /\ pushing' = pushing
      /\ arrived' = arrived /\ outdated' = outdated /\ stopped' = stopped
  BY <1>2 DEF Pop, SameWorkers, SameResults, vars, processes, results
<1> HIDE DEF q
<1>5. /\ \A d \in Channels : queue'[d] = IF d = c THEN q ELSE queue[d]
      /\ \A d \in Channels : reply'[d] = IF d = c THEN t ELSE reply[d]
  BY <1>1, <1>4
<1>6. Kept(t)'
  BY <1>5 DEF Kept, InIntake
<1>7. ASSUME NEW u \in Tasks \ {t} PROVE Untouched(u)
  <2>1. \A d \in Channels : Holds(queue'[d], u) <=> Holds(queue[d], u)
    BY <1>3, <1>5
  <2>2. \A d \in Channels : reply'[d] = u <=> reply[d] = u
    BY <1>4, <1>5, SentinelAssumption
  <2> QED BY <1>4, <2>1, <2>2 DEF Untouched, SameWorkers, SameResults
<1> QED BY <1>4, <1>6, <1>7, MoveKeeps

LEMMA PushKeeps ==
  ASSUME MasterAll, NEW c \in Channels, PushTaskBack(c) PROVE Keeps
<1>0. PICK t \in Tasks : t = pushing[c]
  BY DEF MasterAll, MasterInv, PushTaskBack, PushesTask
<1> DEFINE q == Append(queue[c], t)
<1>1. /\ queue[c] \in Seq(Tasks) /\ queue \in [Channels -> Seq(Tasks)]
      /\ pushing \in [Channels -> Tasks \cup {NoTask}]
      /\ NoRepeat(queue[c]) /\ OnePlace(t) /\ t # NoTask
  BY SentinelAssumption DEF MasterAll, MasterInv, IntakeTypes, IntakeInv
<1>2. /\ pushing' = [pushing EXCEPT ![c] = NoTask]
      /\ queue' = [queue EXCEPT ![c] = q]
      /\ SameWorkers /\ SameResults /\ reply' = reply
      /\ arrived' = arrived /\ outdated' = outdated /\ stopped' = stopped
  BY <1>0 DEF PushTaskBack, SameWorkers, SameResults, vars, processes, results
<1>3. ~Holds(queue[c], t)
  BY <1>0, <1>1 DEF OnePlace, InPush, InQueue, Holds
<1>4. Holds(q, t) /\ \A u : u # t => (Holds(q, u) <=> Holds(queue[c], u))
  BY <1>1, <1>3, AppendHolds
<1> HIDE DEF q
<1>5. /\ \A d \in Channels : queue'[d] = IF d = c THEN q ELSE queue[d]
      /\ \A d \in Channels : pushing'[d] = IF d = c THEN NoTask ELSE pushing[d]
  BY <1>1, <1>2
<1>6. Kept(t)'
  BY <1>4, <1>5 DEF Kept, InQueue, Holds
<1>7. ASSUME NEW u \in Tasks \ {t} PROVE Untouched(u)
  <2>1. \A d \in Channels : Holds(queue'[d], u) <=> Holds(queue[d], u)
    BY <1>4, <1>5
  <2>2. \A d \in Channels : pushing'[d] = u <=> pushing[d] = u
    BY <1>0, <1>5, SentinelAssumption
  <2> QED BY <1>2, <2>1, <2>2 DEF Untouched, SameWorkers, SameResults
<1> QED BY <1>2, <1>6, <1>7, MoveKeeps

\* No connection fails, and no task is put back through compress()
Faultless == ~GetterFailures /\ ~(Compression /\ RateLimited)

LEMMA TakingKeeps ==
  ASSUME Faultless, MasterAll, NEW c \in Channels, NEW t \in Tasks, ReceiveTask(c, t)
  PROVE  Keeps
<1>0. /\ reply \in [Channels -> Tasks \cup {NoTask}]
      /\ pushing \in [Channels -> Tasks \cup {NoTask}]
      /\ OnePlace(t) /\ t # NoTask
  BY SentinelAssumption DEF MasterAll, MasterInv, IntakeTypes, IntakeInv
<1>1. /\ reply[c] = t /\ reply' = [reply EXCEPT ![c] = NoTask]
      /\ queue' = queue /\ arrived' = arrived /\ SameResults /\ stopped' = stopped
  BY DEF ReceiveTask, OnMalformedTask, OnOutdatedTask, OnRateLimitedTask, OnTask, Received,
         SameResults, results
<1>2. ASSUME NEW u \in Tasks \ {t}, NEW d \in Channels PROVE reply'[d] = u <=> reply[d] = u
  BY <1>0, <1>1, SentinelAssumption
<1>3. CASE OnMalformedTask(c, t)
  <2>1. pushing' = pushing /\ outdated' = outdated /\ SameWorkers /\ t \in Malformed
    BY <1>3 DEF OnMalformedTask, SameWorkers, vars, processes
  <2>2. ASSUME NEW u \in Tasks \ {t} PROVE Untouched(u)
    BY <1>1, <1>2, <2>1 DEF Untouched, SameWorkers, SameResults
  <2> QED BY <1>1, <2>1, <2>2, MoveKeeps
<1>4. CASE OnOutdatedTask(c, t)
  <2>1. pushing' = pushing /\ outdated' = outdated \cup {t} /\ SameWorkers
    BY <1>4 DEF OnOutdatedTask, SameWorkers, vars, processes
  <2>2. ASSUME NEW u \in Tasks \ {t} PROVE Untouched(u)
    BY <1>1, <1>2, <2>1 DEF Untouched, SameWorkers, SameResults
  <2>3. Kept(t)'
    BY <2>1 DEF Kept, IsFinished
  <2> QED BY <1>1, <2>2, <2>3, MoveKeeps
<1>5. CASE OnRateLimitedTask(c, t)
  <2>1. outdated' = outdated /\ SameWorkers /\ pushing' = [pushing EXCEPT ![c] = t]
    BY <1>5 DEF OnRateLimitedTask, IsAppRateLimitReached, Faultless, SameWorkers, vars, processes
  <2>2. \A d \in Channels : pushing'[d] = IF d = c THEN t ELSE pushing[d]
    BY <1>0, <2>1
  <2>3. pushing[c] = NoTask
    BY <1>0, <1>1 DEF MasterAll, ChannelInv, ReplyFits
  <2>4. \A u \in Tasks \ {t} : \A d \in Channels : pushing'[d] = u <=> pushing[d] = u
    BY <2>2, <2>3, SentinelAssumption
  <2>5. ASSUME NEW u \in Tasks \ {t} PROVE Untouched(u)
    BY <1>1, <1>2, <2>1, <2>4 DEF Untouched, SameWorkers, SameResults
  <2>6. Kept(t)'
    BY <2>2 DEF Kept, InIntake
  <2> QED BY <1>1, <2>5, <2>6, MoveKeeps
<1>6. CASE OnTask(c, t)
  <2>1. GetWorkerForTask(t) /\ pushing' = pushing /\ outdated' = outdated
    BY <1>6 DEF OnTask
  <2>2. closed' = closed
    BY <2>1 DEF GetWorkerForTask
  <2>3. GivenTo(broker.waiter, t)
    BY <2>1, RequestHolds DEF MasterAll
  <2>4. broker.waiter \in [Workers -> Tasks \cup {NoTask}]
    BY DEF MasterAll, BrokerInv, TypeOK, BrokerType
  <2>5. ~Works(t) /\ \A w \in Workers : broker.waiter[w] # t
    BY <1>0, <1>1 DEF OnePlace, InReply, Waits
  <2>6. /\ \A u \in Tasks \ {t} : \A w \in Workers :
             /\ broker'.waiter[w] = u <=> broker.waiter[w] = u
             /\ broker'.task[w] = u <=> broker.task[w] = u
        /\ Works(t)' \/ Waits(t)'
    BY <2>3, <2>4, <2>5, GivenPlaces DEF MasterAll
  <2>7. ASSUME NEW u \in Tasks \ {t} PROVE Untouched(u)
    BY <1>1, <1>2, <2>1, <2>2, <2>6 DEF Untouched, SameResults
  <2>8. Kept(t)'
    BY <2>6 DEF Kept, HasWorker, Works, Waits
  <2> QED BY <1>1, <2>7, <2>8, MoveKeeps
<1> QED BY <1>3, <1>4, <1>5, <1>6 DEF ReceiveTask

LEMMA GivingKeeps ==
  ASSUME MasterAll, NEW w \in Workers, OnStarted(w) PROVE Keeps
<1> DEFINE s == [broker.waiter EXCEPT ![w] = NoTask]
<1>0. /\ OnWorkerStarted(w) /\ SameResults /\ SameIntake /\ closed' = closed
      /\ stopped' = stopped /\ arrived' = arrived
  BY DEF OnStarted, OnWorkerStarted, OnMessage, SameResults, SameIntake, results
<1>1. /\ broker.waiter[w] = NoTask =>
           broker'.waiter = broker.waiter /\ broker'.task = broker.task
      /\ broker.waiter[w] # NoTask =>
           broker.waiter[w] \in Tasks /\ GivenTo(s, broker.waiter[w])
  BY <1>0, StartedHolds DEF MasterAll
<1>2. CASE broker.waiter[w] = NoTask
  <2>1. \A t \in Tasks : HasWorker(t)' <=> HasWorker(t)
    BY <1>1, <1>2 DEF HasWorker
  <2> QED BY <1>0, <2>1, FrameKeeps DEF SameResults
<1>3. CASE broker.waiter[w] # NoTask
  <2>1. PICK t \in Tasks : t = broker.waiter[w]
    BY <1>1, <1>3
  <2>2. /\ broker.waiter \in [Workers -> Tasks \cup {NoTask}]
        /\ OnePlace(t) /\ Waits(t)
    BY <2>1 DEF MasterAll, BrokerInv, TypeOK, BrokerType, IntakeInv, Waits
  <2>3. ~Works(t) /\ \A v \in Workers : broker.waiter[v] = t => v = w
    BY <2>1, <2>2 DEF OnePlace
  <2>4. /\ s \in [Workers -> Tasks \cup {NoTask}] /\ GivenTo(s, t) /\ t # NoTask
        /\ \A v \in Workers : s[v] = IF v = w THEN NoTask ELSE broker.waiter[v]
    BY <1>1, <1>3, <2>1, <2>2
  <2> HIDE DEF s
  <2>5. \A v \in Workers : s[v] \in {broker.waiter[v], NoTask} /\ s[v] # t
    BY <2>3, <2>4
  <2>6. /\ \A u \in Tasks \ {t} : \A v \in Workers :
             /\ broker'.waiter[v] = u <=> s[v] = u
             /\ broker'.task[v] = u <=> broker.task[v] = u
        /\ Works(t)' \/ Waits(t)'
    BY <2>3, <2>4, <2>5, GivenPlaces DEF MasterAll
  <2>7. \A u \in Tasks \ {t} : \A v \in Workers : s[v] = u <=> broker.waiter[v] = u
    BY <2>1, <2>4, SentinelAssumption
  <2>8. ASSUME NEW u \in Tasks \ {t} PROVE Untouched(u)
    BY <1>0, <2>6, <2>7 DEF Untouched, SameResults, SameIntake
  <2>9. Kept(t)'
    BY <2>6 DEF Kept, HasWorker, Works, Waits
  <2> QED BY <1>0, <2>8, <2>9, MoveKeeps
<1> QED BY <1>2, <1>3

LEMMA ResultsKeep ==
  ASSUME MasterAll, broker.stopper # "none" => stopped,
         \/ \E w \in Workers : OnTaskProcessed(w)
         \/ \E t \in Tasks : OnResultCompressed(t)
  PROVE  Keeps
<1>0. compressing \in [Tasks -> Nat] /\ published \in [Tasks -> Nat]
  BY DEF MasterAll, MasterInv, IntakeTypes
<1>1. /\ SameIntake /\ stopped' = stopped
      /\ \A u \in Tasks : HasWorker(u) => HasWorker(u)'
  <2>1. ASSUME NEW w \in Workers, OnTaskProcessed(w)
        PROVE  broker'.waiter = broker.waiter /\ broker'.task = broker.task
    BY <2>1, EventHolds DEF OnTaskProcessed, MasterAll, KeepsHolders
  <2>2. ASSUME NEW t \in Tasks, OnResultCompressed(t) PROVE broker' = broker
    BY <2>2 DEF OnResultCompressed, vars
  <2>3. broker'.waiter = broker.waiter /\ broker'.task = broker.task
    BY <2>1, <2>2
  <2> QED BY <2>3 DEF OnTaskProcessed, OnResultCompressed, intake, SameIntake, HasWorker
<1>2. ASSUME NEW u \in Tasks, published[u] + compressing[u] > 0, ~stopped
      PROVE  published'[u] + compressing'[u] > 0
  <2>1. ASSUME NEW w \in Workers, OnTaskProcessed(w)
        PROVE  published'[u] + compressing'[u] > 0
    <3>1. PICK t : t = broker.task[w]
      OBVIOUS
    <3>2. \/ compressing' = compressing /\ published' = [published EXCEPT ![t] = @ + 1]
          \/ published' = published /\ compressing' = [compressing EXCEPT ![t] = @ + 1]
      BY <1>2, <2>1, <3>1 DEF OnTaskProcessed, Publish
    <3> QED BY <1>0, <1>2, <3>2
  <2>2. ASSUME NEW t \in Tasks, OnResultCompressed(t)
        PROVE  published'[u] + compressing'[u] > 0
    <3>1. /\ compressing' = [compressing EXCEPT ![t] = @ - 1] /\ compressing[t] > 0
          /\ published' = [published EXCEPT ![t] = @ + 1]
      BY <1>2, <2>2 DEF OnResultCompressed, Publish
    <3> QED BY <1>0, <1>2, <3>1
  <2> QED BY <2>1, <2>2
<1> QED BY <1>1, <1>2, FrameKeeps

LEMMA EventsKeep ==
  ASSUME Faultless, MasterAll, SpokenInv, broker.stopper # "none" => stopped,
         \/ \E w \in Workers : OnBrokerMessage(w) \/ RunProcess(w) \/ CrashProcess(w)
         \/ OnReadyForNextTasks \/ OnReconnect \/ OnBrokerEvent \/ StopMaster \/ Exit
         \/ \E c \in Channels : OnGetterFailure(c) \/ OnTaskPushedBack(c) \/ OnCompressedReply(c)
  PROVE  Keeps
<1>0. BrokerInv
  BY DEF MasterAll
<1>1. ASSUME SameIntake, SameResults, stopped' = stopped,
             broker'.waiter = broker.waiter, broker'.task = broker.task
      PROVE  Keeps
  <2>1. \A t \in Tasks : HasWorker(t)' <=> HasWorker(t)
    BY <1>1 DEF HasWorker
  <2> QED BY <1>1, <2>1, FrameKeeps DEF SameResults
<1>2. ASSUME NEW w \in Workers, OnBrokerMessage(w) PROVE Keeps
  <2>1. SameIntake /\ SameResults /\ stopped' = stopped
    BY <1>2 DEF OnBrokerMessage, SameIntake, SameResults, intake, results
  <2>2. CASE OnWorkerCriticalError(w)
    BY <1>0, <1>1, <2>1, <2>2, EventHolds DEF KeepsHolders
  <2>3. CASE OnWorkerIdling(w)
    <3>1. /\ broker'.waiter = broker.waiter
          /\ \A v \in Workers \ {w} : broker'.task[v] = broker.task[v]
      BY <1>0, <2>3, IdlingHolds
    <3>2. pipe[w] # <<>> /\ Head(pipe[w]).type = "idling"
      BY <2>3 DEF OnWorkerIdling, OnMessage, Read
    <3>3. Answers(broker.task[w]) > 0 \/ stopped
      BY <1>0, <3>2, IdleIsAnswered DEF BrokerInv, SpokenInv
    <3>4. ASSUME NEW t \in Tasks, HasWorker(t), ~HasWorker(t)', ~stopped
          PROVE  published'[t] + compressing'[t] > 0
      <4>1. broker.task[w] = t
        BY <3>1, <3>4 DEF HasWorker
      <4>2. Answers(t) > 0
        BY <3>3, <3>4, <4>1
      <4> QED BY <2>1, <4>2 DEF Answers, SameResults
    <3>5. CASE stopped
      BY <2>1, <3>5 DEF Keeps, SameIntake
    <3>6. CASE ~stopped
      BY <2>1, <3>4, <3>6, FrameKeeps DEF SameResults
    <3> QED BY <3>5, <3>6
  <2> QED BY <1>2, <2>2, <2>3 DEF OnBrokerMessage
<1>3. ASSUME NEW w \in Workers, RunProcess(w) \/ CrashProcess(w) PROVE Keeps
  <2>1. broker' = broker
    BY <1>3 DEF RunProcess, CrashProcess, RunWorker, Boot, FinishTask, FailTask, RepeatResult,
                ReportCriticalError, ReportIdling, Crash, Send
  <2>2. SameIntake /\ SameResults /\ stopped' = stopped
    BY <1>3 DEF RunProcess, CrashProcess, SameIntake, SameResults, intake, results
  <2> QED BY <1>1, <2>1, <2>2
<1>4. CASE OnBrokerEvent \/ OnReadyForNextTasks
  <2>1. SameIntake /\ SameResults /\ stopped' = stopped
    BY <1>4 DEF OnBrokerEvent, OnReadyForNextTasks, SameIntake, SameResults, intake, results
  <2>2. KeepsHolders
    BY <1>0, <1>4, EventHolds, TimerHolds, LoopsHold DEF OnBrokerEvent, OnReadyForNextTasks
  <2> QED BY <1>1, <2>1, <2>2 DEF KeepsHolders
<1>5. CASE \/ OnReconnect \/ Exit
           \/ \E c \in Channels : OnTaskPushedBack(c) \/ OnCompressedReply(c)
  BY <1>1, <1>5 DEF OnReconnect, Exit, OnTaskPushedBack, OnCompressedReply, SameIntake,
                    SameResults, intake, results, vars
<1>6. CASE StopMaster \/ \E c \in Channels : OnGetterFailure(c)
  <2>1. stopped' /\ arrived' = arrived
    BY <1>6 DEF StopMaster, OnGetterFailure, Faultless
  <2> QED BY <2>1 DEF Keeps
<1> QED BY <1>2, <1>3, <1>4, <1>5, <1>6

LEMMA NextKeeps ==
  ASSUME Faultless, MasterAll, SpokenInv, KeptInv, [MasterNext]_masterVars
  PROVE  KeptInv'
<1>1. Keeps
  <2>1. CASE UNCHANGED masterVars
    <3>1. /\ SameIntake /\ SameResults /\ stopped' = stopped /\ broker' = broker
      BY <2>1 DEF masterVars, intake, results, vars, SameIntake, SameResults
    <3>2. \A t \in Tasks : HasWorker(t)' <=> HasWorker(t)
      BY <3>1 DEF HasWorker
    <3> QED BY <3>1, <3>2, FrameKeeps DEF SameResults
  <2>2. CASE MasterNext
    BY <2>2, EnqueueKeeps, PopKeeps, PushKeeps, TakingKeeps, GivingKeeps, ResultsKeep,
       EventsKeep DEF MasterNext, KeptInv
  <2> QED BY <2>1, <2>2
<1>2. TasksAreKept'
  <2>1. /\ IntakeTypes' /\ stopped \in BOOLEAN
    BY MasterNextInv DEF MasterAll, MasterInv, IntakeTypes
  <2> QED BY <1>1, <2>1 DEF KeptInv, TasksAreKept, Keeps, Kept, IntakeTypes
<1>3. broker'.stopper # "none" => stopped'
  <2>1. CASE StopMaster
    BY <2>1 DEF StopMaster
  <2>2. CASE KeepsStop(broker, broker')
    BY <1>1, <2>2 DEF KeepsStop, Keeps, KeptInv
  <2> QED BY <2>1, <2>2, MasterRuns, RunsKeepStop DEF MasterAll
<1> QED BY <1>2, <1>3 DEF KeptInv

\* While no connection fails and nothing is put back through compress(), the master
\* loses no task that it can read, until it is told to stop.
THEOREM TasksAreAlwaysKept ==
  ASSUME Faultless PROVE MasterSpec => []TasksAreKept
<1>1. MasterInit => KeptInv
  <2>1. MasterInit => broker.stopper = "none"
    BY DEF MasterInit, Init, KeepMinIdleWorkersCount, Fork, NewBroker
  <2> QED BY <2>1 DEF MasterInit, KeptInv, TasksAreKept
<1>2. MasterAll /\ SpokenInv /\ KeptInv /\ [MasterNext]_masterVars => KeptInv'
  BY NextKeeps
<1>3. KeptInv => TasksAreKept
  BY DEF KeptInv
<1> QED BY <1>1, <1>2, <1>3, MasterInvariant, SpokenInvariant, PTL DEF MasterSpec

----------------------------------------------------------------------------
(* A process that boots is not killed                                      *)

\* Only workers of X are killed, or get an idling timer
Touches(b, c, X) == /\ c.killed \subseteq b.killed \cup X
                    /\ c.idlingTimer \subseteq b.idlingTimer \cup X

LEMMA RelocateTouches ==
  ASSUME NEW b, BrokerOK(b), NEW w \in Workers, NEW to \in Places
  PROVE  Touches(b, RelocateWorker(b, w, to), {w})
<1> DEFINE r == RelocateWorker(b, w, to)
<1>1. /\ r.pool = MovedWorker(b, w, to).pool
      /\ r.place = [b.place EXCEPT ![w] = to]
      /\ r.appsLoad = IF "busy" \in {b.place[w], to}
                      THEN [b.appsLoad EXCEPT ![b.appId[w]] =
                              @ + (IF to = "busy" THEN 1 ELSE -1)]
                      ELSE b.appsLoad
      /\ r.killed = b.killed
  BY RelocateFrame
<1>2. r.idlingTimer \subseteq b.idlingTimer \cup {w}
  BY RelocateTimer
<1> HIDE DEF r
<1>3. Touches(b, r, {w})
  BY <1>1, <1>2 DEF Touches
<1> QED BY <1>3 DEF r

LEMMA KillTouches ==
  ASSUME NEW b, BrokerOK(b), NEW w \in Workers
  PROVE  Touches(b, KillWorker(b, w), {w})
<1> DEFINE r == RelocateWorker(b, w, "none")
<1>1. Touches(b, r, {w}) /\ BrokerOK(r)
  BY RelocateTouches, RelocateWorkerOK DEF Places
<1>2. KillWorker(b, w) = [r EXCEPT !.killed = @ \cup {w}]
  BY DEF KillWorker
<1> HIDE DEF r
<1>3. /\ KillWorker(b, w).killed = r.killed \cup {w}
      /\ KillWorker(b, w).idlingTimer = r.idlingTimer
  BY <1>1, <1>2 DEF BrokerOK, BrokerType
<1> QED BY <1>1, <1>3 DEF Touches

LEMMA ProcessTouches ==
  ASSUME NEW b, BrokerOK(b), NEW t \in Tasks, NEW w \in Workers
  PROVE  Touches(b, ProcessTask(b, t, w), {w})
<1> DEFINE d == [b EXCEPT !.expireTimer = IF t \in Timed THEN @ \cup {w} ELSE @,
                          !.task[w] = t]
<1>1. BrokerOK(d) /\ d.killed = b.killed /\ d.idlingTimer = b.idlingTimer
  BY DEF BrokerOK, BrokerType
<1>2. ProcessTask(b, t, w) = RelocateWorker(d, w, "busy") /\ "busy" \in Places
  BY DEF ProcessTask, Places, Pools
<1> HIDE DEF d
<1> QED BY <1>1, <1>2, RelocateTouches DEF Touches

\* Without a stop, a free worker is announced, or a new one starts for the task
Arms(b, c, t) ==
  c.stopper = "none" /\ IsFree(c) /\ c.forks <= MaxForks =>
    c.ready \/ \E n \in Workers \cap (c.cluster \ b.cluster) : c.waiter[n] = t

LEMMA ProcessArms ==
  ASSUME NEW b, BrokerOK(b), NEW t \in Tasks, NEW w \in Workers
  PROVE  LET c == ProcessTask(b, t, w) IN c.stopper = "none" /\ IsFree(c) => c.ready
<1> DEFINE d == [b EXCEPT !.expireTimer = IF t \in Timed THEN @ \cup {w} ELSE @,
                          !.task[w] = t]
<1>1. BrokerOK(d)
  BY DEF BrokerOK, BrokerType
<1>2. ProcessTask(b, t, w) = RelocateWorker(d, w, "busy") /\ "busy" \in Places
  BY DEF ProcessTask, Places, Pools
<1> HIDE DEF d
<1>3. "busy" \in {d.place[w], "busy"}
  OBVIOUS
<1> QED BY <1>1, <1>2, <1>3, RelocateStop

LEMMA DispatchArms ==
  ASSUME NEW b, Sound(b), Unborn(b), NEW t \in Tasks
  PROVE  LET c == Dispatch(b, t)
         IN  Arms(b, c, t) /\ Touches(b, c, {v \in Workers : b.place[v] # "none"})
<1> DEFINE cached == b.pool["cached"]
           idle   == b.pool["idle"]
           hits   == CachedFor(b, t)
           i      == CHOOSE i \in hits : \A j \in hits : i <= j
           c      == Dispatch(b, t)
           X      == {v \in Workers : b.place[v] # "none"}
<1>0. /\ BrokerOK(b) /\ Placed(b) /\ b.forks \in Nat
      /\ idle \in Seq(Workers) /\ cached \in Seq(Workers) /\ Workers \subseteq Nat
  BY DEF Sound, BrokerOK, BrokerType, Pools, Workers
<1>1. ASSUME NEW w \in Workers, NEW d, BrokerOK(d), d.killed = b.killed,
             d.idlingTimer = b.idlingTimer,
             b.place[w] \in {"idle", "cached"}, c = ProcessTask(d, t, w)
      PROVE  Arms(b, c, t) /\ Touches(b, c, X)
  <2> HIDE DEF c
  <2>1. Touches(d, c, {w})
    BY <1>1, ProcessTouches
  <2>2. c.stopper = "none" /\ IsFree(c) => c.ready
    BY <1>1, ProcessArms
  <2>3. w \in X
    BY <1>1
  <2> HIDE DEF X
  <2> QED BY <1>1, <2>1, <2>2, <2>3 DEF Touches, Arms
<1>2. CASE hits # {}
  <2>1. hits \subseteq DOMAIN cached /\ hits \in SUBSET Nat
    BY <1>0 DEF CachedFor
  <2>2. i \in hits
    BY <1>2, <2>1, FirstIndex
  <2> DEFINE w == cached[i]
  <2>3. c = ProcessTask(b, t, w)
    BY <1>2 DEF Dispatch
  <2> HIDE DEF i, c, X
  <2>4. w \in Workers /\ Holds(cached, w)
    BY <1>0, <2>1, <2>2 DEF Holds
  <2>5. b.place[w] = "cached"
    BY <1>0, <2>4 DEF Placed, Pools
  <2> HIDE DEF w
  <2>6. Arms(b, c, t) /\ Touches(b, c, X)
    BY <1>0, <1>1, <2>3, <2>4, <2>5
  <2> QED BY <2>6 DEF c, X
<1>3. CASE hits = {} /\ idle # <<>>
  <2> DEFINE d == PopIdle(b, t)
             w == idle[Len(idle)]
  <2>1. BrokerOK(d) /\ w \in Workers
    BY <1>0, <1>3, PopIdleOK
  <2>2. Holds(idle, w)
    BY <1>0, <1>3 DEF Holds
  <2>3. b.place[w] = "idle"
    BY <1>0, <2>1, <2>2 DEF Placed, Pools
  <2>4. d.killed = b.killed /\ d.idlingTimer = b.idlingTimer
    BY <1>0 DEF PopIdle, BrokerOK, BrokerType
  <2>5. c = ProcessTask(d, t, w)
    BY <1>3 DEF Dispatch
  <2> HIDE DEF c, d, w, X
  <2>6. Arms(b, c, t) /\ Touches(b, c, X)
    BY <1>1, <2>1, <2>3, <2>4, <2>5
  <2> QED BY <2>6 DEF c, X
<1>4. CASE hits = {} /\ idle = <<>>
  <2> DEFINE e == [b EXCEPT !.pool["cached"] = SubSeq(cached, 1, Len(cached) - 1)]
             v == cached[Len(cached)]
             d == EvictLeastActive(b)
             n == d.forks + 1
  <2>1. Grows(b, d)
    BY EvictBorn
  <2>2. BrokerOK(d)
    BY <1>0, EvictOK
  <2>3. c = StartWorkerFor(d, t)
    BY <1>4 DEF Dispatch
  <2>4. Touches(b, d, X)
    <3>1. CASE IsCacheEnabled /\ CacheLimit <= Len(cached)
      <4>1. cached # <<>> /\ Len(cached) \in 1 .. Len(cached)
        BY <1>0, <3>1, OptionsAssumption DEF IsCacheEnabled
      <4>2. SubSeq(cached, 1, Len(cached) - 1) \in Seq(Workers) /\ v \in Workers
        BY <1>0, <4>1
      <4>3. Holds(cached, v)
        BY <1>0, <4>1 DEF Holds
      <4>4. BrokerOK(e) /\ e.killed = b.killed /\ e.idlingTimer = b.idlingTimer
        BY <1>0, <4>2 DEF BrokerOK, BrokerType
      <4>5. d = KillWorker(e, v)
        BY <3>1 DEF EvictLeastActive
      <4> HIDE DEF d, e, v, c
      <4>6. b.place[v] = "cached"
        BY <1>0, <4>2, <4>3 DEF Placed, Pools
      <4>7. Touches(e, d, {v}) /\ v \in X
        BY <4>2, <4>4, <4>5, <4>6, KillTouches
      <4> HIDE DEF X
      <4> QED BY <4>4, <4>7 DEF Touches
    <3>2. CASE ~(IsCacheEnabled /\ CacheLimit <= Len(cached))
      BY <3>2 DEF EvictLeastActive, Touches
    <3> QED BY <3>1, <3>2
  <2> HIDE DEF c, d, X
  <2>5. d.forks \in Nat /\ d.waiter \in [Workers -> Tasks \cup {NoTask}]
    BY <2>2 DEF BrokerOK, BrokerType
  <2>6. /\ c.killed = d.killed /\ c.idlingTimer = d.idlingTimer /\ c.forks = n
        /\ c.cluster = d.cluster \cup (n .. n)
        /\ c.waiter = [w \in Workers |-> IF w = n THEN t ELSE d.waiter[w]]
    BY <2>2, <2>3, <2>5 DEF StartWorkerFor, Fork, BrokerOK, BrokerType
  <2>7. Touches(b, c, X)
    BY <2>4, <2>6 DEF Touches
  <2>8. n \in c.cluster \ b.cluster
    BY <1>0, <2>1, <2>5, <2>6 DEF Grows, BrokerOK
  <2>9. c.forks <= MaxForks => n \in Workers /\ c.waiter[n] = t
    BY <2>5, <2>6, OptionsAssumption DEF Workers
  <2>10. Arms(b, c, t)
    BY <2>8, <2>9 DEF Arms
  <2> QED BY <2>7, <2>10 DEF c, X
<1> QED BY <1>2, <1>3, <1>4

LEMMA StartedArms ==
  ASSUME BrokerInv, NEW w \in Workers, OnWorkerStarted(w)
  PROVE  /\ Touches(broker, broker', {v \in Workers : broker.place[v] # "none"} \cup {w})
         /\ broker.waiter[w] # NoTask /\ broker'.stopper = "none" /\ IsFree(broker') =>
              broker'.ready \/ \E n \in Workers : broker'.waiter[n] # NoTask
<1>0. /\ BrokerOK(broker) /\ Sound(broker) /\ Unborn(broker) /\ "idle" \in Places
      /\ Unspoilt /\ broker.forks \in Nat /\ Workers \subseteq Nat
  BY BrokerOKFromType
     DEF BrokerInv, IInv, Sound, Born, BrokerOK, BrokerType, Workers, Places, Pools
<1> DEFINE idle    == RelocateWorker(broker, w, "idle")
           started == [idle EXCEPT !.starting = @ - 1, !.waiter[w] = NoTask]
           t       == broker.waiter[w]
           X       == {v \in Workers : broker.place[v] # "none"} \cup {w}
           Y       == {v \in Workers : started.place[v] # "none"}
<1>1. /\ broker' = (IF t = NoTask THEN started ELSE Dispatch(started, t))
      /\ broker'.forks <= MaxForks /\ Read(w, "started")
  BY DEF OnWorkerStarted, OnMessage, Handled
<1>2. Touches(broker, idle, {w}) /\ BrokerOK(idle)
  BY <1>0, RelocateTouches, RelocateWorkerOK
<1>3. w <= broker.forks
  <2>1. ~(w > broker.forks)
    BY <1>0, <1>1 DEF Read, Unspoilt
  <2> QED BY <1>0, <2>1
<1>4. /\ Unborn(idle) /\ Grows(broker, idle) /\ idle.task = broker.task
      /\ idle.waiter = broker.waiter /\ idle.place = [broker.place EXCEPT ![w] = "idle"]
      /\ idle.killed = broker.killed
  BY <1>0, <1>3, RelocateBorn
<1>5. Sound(started)
  BY <1>0, <1>1, StartedState DEF BrokerInv
<1>6. t \in Tasks \cup {NoTask}
  BY <1>0 DEF BrokerOK, BrokerType
<1> HIDE DEF idle
<1>7. /\ started.killed = idle.killed /\ started.idlingTimer = idle.idlingTimer
      /\ started.place = idle.place /\ started.forks = idle.forks
      /\ started.waiter = [idle.waiter EXCEPT ![w] = NoTask]
  BY <1>2 DEF BrokerOK, BrokerType
<1> HIDE DEF started
<1>8. Unborn(started)
  BY <1>0, <1>2, <1>4, <1>7 DEF Unborn, BrokerOK, BrokerType
<1>9. Touches(broker, started, {w}) /\ w \in X
  BY <1>2, <1>7 DEF Touches
<1>10. Y \subseteq X
  BY <1>0, <1>4, <1>7 DEF BrokerOK, BrokerType
<1>11. CASE t = NoTask
  <2>1. broker' = started
    BY <1>1, <1>11
  <2> QED BY <1>9, <1>11, <2>1 DEF Touches
<1>12. CASE t # NoTask
  <2>1. broker' = Dispatch(started, t) /\ t \in Tasks
    BY <1>1, <1>6, <1>12
  <2> HIDE DEF t
  <2>2. Arms(started, broker', t) /\ Touches(started, broker', Y)
    BY <1>5, <1>8, <2>1, DispatchArms
  <2> HIDE DEF X, Y
  <2>3. Touches(broker, broker', X)
    BY <1>9, <1>10, <2>2 DEF Touches
  <2>4. broker'.stopper = "none" /\ IsFree(broker') =>
          broker'.ready \/ \E n \in Workers : broker'.waiter[n] # NoTask
    BY <1>1, <1>12, <2>2 DEF Arms
  <2> QED BY <2>3, <2>4 DEF X
<1> QED BY <1>11, <1>12

BootingSafe ==
  \A w \in Workers : proc[w] = "booting" => w \notin broker.killed \cup broker.idlingTimer

\* Who boots goes on, and so does the start of a new process
GoesOn == /\ \A w \in Workers : proc[w] = "booting" => proc'[w] = "booting" \/ Boot(w)
          /\ \A w \in Workers \cap (broker'.cluster \ broker.cluster) : proc'[w] = "booting"

LEMMA HandledBoots ==
  ASSUME BrokerInv, BootingSafe, NEW b, Handled(b), Grows(broker, b), NEW X,
         Touches(broker, b, X),
         \A w \in X \cap Workers : proc[w] # "booting" /\ w <= broker.forks
  PROVE  BootingSafe' /\ GoesOn
<1>1. /\ broker' = b
      /\ \A w \in Workers :
           proc'[w] = CASE w \in b.killed -> "dead"
                        [] w \in b.cluster \ broker.cluster -> "booting"
                        [] w \in Delivered(b) -> "running"
                        [] OTHER -> proc[w]
  BY DEF Handled
<1>2. broker.forks \in Nat /\ Workers \subseteq Nat
  BY DEF BrokerInv, TypeOK, BrokerType, Workers
<1>3. ASSUME NEW w \in Workers, proc[w] = "booting" \/ w \in b.cluster \ broker.cluster
      PROVE  w \notin b.killed \cup b.idlingTimer
  <2>1. w \notin X
    BY <1>2, <1>3 DEF Grows
  <2>2. w \notin broker.killed \cup broker.idlingTimer
    BY <1>2, <1>3 DEF Grows, BootingSafe, BrokerInv, Born, Unborn
  <2> QED BY <2>1, <2>2 DEF Touches
<1>4. ASSUME NEW w \in Workers, proc[w] = "booting" \/ w \in b.cluster \ broker.cluster
      PROVE  w \notin Delivered(b)
  BY <1>2, <1>4 DEF Delivered, Grows, BrokerInv, IInv, Unspoilt
<1>5. ASSUME NEW w \in Workers, proc[w] = "booting" \/ w \in b.cluster \ broker.cluster
      PROVE  proc'[w] = "booting"
  <2>1. w \notin b.killed
    BY <1>3, <1>5
  <2> QED BY <1>1, <1>4, <1>5, <2>1
<1>6. ASSUME NEW w \in Workers, proc'[w] = "booting" PROVE w \notin b.killed \cup b.idlingTimer
  <2>1. proc[w] = "booting" \/ w \in b.cluster \ broker.cluster
    BY <1>1, <1>6
  <2> QED BY <1>3, <2>1
<1> QED BY <1>1, <1>5, <1>6 DEF BootingSafe, GoesOn

\* A handler that only touches worker w, which does not boot
LEMMA TouchingBoots ==
  ASSUME BrokerInv, BootingSafe, \E b : Handled(b), Grows(broker, broker'),
         NEW w \in Workers, Touches(broker, broker', {w}), proc[w] # "booting",
         w <= broker.forks
  PROVE  BootingSafe' /\ GoesOn
<1>1. PICK b : Handled(b)
  OBVIOUS
<1>2. broker' = b
  BY <1>1 DEF Handled
<1> QED BY <1>1, <1>2, HandledBoots

\* A handler that kills nobody
LEMMA SparingBoots ==
  ASSUME BrokerInv, BootingSafe, \E b : Handled(b), Grows(broker, broker'),
         broker'.killed = broker.killed, broker'.idlingTimer = broker.idlingTimer
  PROVE  BootingSafe' /\ GoesOn
<1>1. PICK b : Handled(b)
  OBVIOUS
<1>2. broker' = b /\ Touches(broker, b, {})
  BY <1>1 DEF Handled, Touches
<1> QED BY <1>1, <1>2, HandledBoots

LEMMA NextBoots ==
  ASSUME ~Crashes, ~Heartbeat, BrokerInv, loop.of # "heartbeat", BootingSafe, [Next]_vars
  PROVE  BootingSafe' /\ GoesOn
<1>0. /\ BrokerOK(broker) /\ Sound(broker) /\ Placed(broker) /\ Unborn(broker)
      /\ Isolated(broker, served) /\ Unspoilt /\ broker.forks \in Nat /\ Workers \subseteq Nat
  BY BrokerOKFromType
     DEF BrokerInv, IInv, Sound, Born, BrokerOK, BrokerType, Workers
<1>1. \A w \in Workers : broker.place[w] # "none" \/ pipe[w] # <<>> =>
         proc[w] # "booting" /\ w <= broker.forks
  <2> TAKE w \in Workers
  <2>1. pipe[w] # <<>> => proc[w] # "booting" /\ ~(w > broker.forks)
    BY <1>0 DEF Unspoilt
  <2>2. broker.place[w] # "none" => proc[w] # "booting" /\ ~(w > broker.forks)
    BY <1>0 DEF Unspoilt, Unplaced
  <2> QED BY <1>0, <2>1, <2>2
<1>2. ASSUME NEW t \in Tasks, GetWorkerForTask(t) PROVE BootingSafe' /\ GoesOn
  <2> DEFINE b == Dispatch(broker, t)
             X == {v \in Workers : broker.place[v] # "none"}
  <2>1. Handled(b)
    BY <1>2 DEF GetWorkerForTask
  <2>2. Touches(broker, b, X) /\ Grows(broker, b)
    BY <1>0, DispatchArms, DispatchKeeps
  <2>3. \A w \in X \cap Workers : proc[w] # "booting" /\ w <= broker.forks
    BY <1>1
  <2> HIDE DEF b, X
  <2> QED BY <2>1, <2>2, <2>3, HandledBoots
<1>3. ASSUME NEW w \in Workers, OnWorkerStarted(w) PROVE BootingSafe' /\ GoesOn
  <2> DEFINE X == {v \in Workers : broker.place[v] # "none"} \cup {w}
  <2>1. Touches(broker, broker', X) /\ Grows(broker, broker')
    BY <1>3, StartedArms, StartedHolds
  <2>2. PICK b : Handled(b)
    BY <1>3 DEF OnWorkerStarted, OnMessage
  <2>3. broker' = b /\ pipe[w] # <<>>
    BY <1>3, <2>2 DEF OnWorkerStarted, OnMessage, Read, Handled
  <2>4. \A v \in X \cap Workers : proc[v] # "booting" /\ v <= broker.forks
    BY <1>1, <2>3
  <2> HIDE DEF X
  <2> QED BY <2>1, <2>2, <2>3, <2>4, HandledBoots
<1>4. ASSUME NEW w \in Workers,
             \/ OnWorkerTaskProcessed(w) \/ OnWorkerCriticalError(w) \/ OnDisconnect(w)
      PROVE  BootingSafe' /\ GoesOn
  <2>1. Grows(broker, broker') /\ \E b : Handled(b)
    BY <1>4, EventHolds
       DEF KeepsHolders, OnWorkerTaskProcessed, OnWorkerCriticalError, OnDisconnect, OnMessage
  <2>2. broker'.killed = broker.killed /\ broker'.idlingTimer = broker.idlingTimer
    BY <1>0, <1>4 DEF OnWorkerTaskProcessed, OnWorkerCriticalError, OnDisconnect, OnMessage,
                      Handled, BrokerOK, BrokerType
  <2> QED BY <2>1, <2>2, SparingBoots
<1>5. ASSUME NEW w \in Workers, NEW c, BrokerOK(c), c.killed = broker.killed,
             c.idlingTimer = broker.idlingTimer, NEW to \in Places,
             broker' \in {c, RelocateWorker(c, w, to), KillWorker(c, w)}
      PROVE  Touches(broker, broker', {w})
  <2>1. Touches(c, RelocateWorker(c, w, to), {w}) /\ Touches(c, KillWorker(c, w), {w})
    BY <1>5, RelocateTouches, KillTouches
  <2>2. Touches(c, c, {w})
    BY DEF Touches
  <2>3. Touches(c, broker', {w})
    BY <1>5, <2>1, <2>2
  <2> QED BY <1>5, <2>3 DEF Touches
<1>6. ASSUME NEW w \in Workers, OnWorkerIdling(w) PROVE BootingSafe' /\ GoesOn
  <2> DEFINE c == [broker EXCEPT !.task[w] = NoTask, !.expireTimer = @ \ {w}]
  <2>1. /\ BrokerOK(c) /\ c.killed = broker.killed /\ c.idlingTimer = broker.idlingTimer
        /\ "cached" \in Places
    BY <1>0 DEF BrokerOK, BrokerType, Places, Pools
  <2>2. broker' = RelocateWorker(c, w, "cached") \/ broker' = KillWorker(broker, w)
    BY <1>6 DEF OnWorkerIdling, OnMessage, Handled
  <2>3. pipe[w] # <<>> /\ \E b : Handled(b)
    BY <1>6 DEF OnWorkerIdling, OnMessage, Read
  <2>4. Grows(broker, broker')
    BY <1>6, IdlingHolds
  <2> HIDE DEF c
  <2>5. Touches(broker, broker', {w})
    BY <1>0, <1>5, <2>1, <2>2
  <2> QED BY <1>1, <2>3, <2>4, <2>5, TouchingBoots
<1>7. ASSUME NEW w \in Workers, OnWorkerExit(w) PROVE BootingSafe' /\ GoesOn
  <2> DEFINE c == [broker EXCEPT !.cluster = IF w \in closed THEN @ \ {w} ELSE @,
                                 !.expireTimer = @ \ {w}]
  <2>1. /\ BrokerOK(c) /\ c.killed = broker.killed /\ c.idlingTimer = broker.idlingTimer
        /\ "none" \in Places
    BY <1>0 DEF BrokerOK, BrokerType, Places, Pools
  <2>2. broker' \in {c, RelocateWorker(c, w, "none")}
    BY <1>7 DEF OnWorkerExit, Handled
  <2>3. proc[w] = "dead" /\ w <= broker.forks /\ \E b : Handled(b)
    BY <1>7 DEF OnWorkerExit, BrokerInv, Born
  <2>4. Grows(broker, broker')
    BY <1>7, EventHolds DEF KeepsHolders
  <2> HIDE DEF c
  <2>5. Touches(broker, broker', {w})
    BY <1>5, <2>1, <2>2
  <2> QED BY <2>3, <2>4, <2>5, TouchingBoots
<1>8. ASSUME NEW w \in Workers, OnExpirationTimer(w) \/ OnIdlingTimer(w)
      PROVE  BootingSafe' /\ GoesOn
  <2> DEFINE c == [broker EXCEPT !.expireTimer = @ \ {w}]
  <2>1. /\ BrokerOK(c) /\ c.killed = broker.killed /\ c.idlingTimer = broker.idlingTimer
        /\ "none" \in Places
    BY <1>0 DEF BrokerOK, BrokerType, Places, Pools
  <2>2. broker' = KillWorker(c, w) \/ broker' = KillWorker(broker, w)
    BY <1>8 DEF OnExpirationTimer, OnIdlingTimer, Handled
  <2>3. \E b : Handled(b)
    BY <1>8 DEF OnExpirationTimer, OnIdlingTimer
  <2>4. Grows(broker, broker')
    BY <1>8, TimerHolds DEF KeepsHolders
  <2> HIDE DEF c
  <2>5. Touches(broker, broker', {w})
    BY <1>0, <1>5, <2>1, <2>2
  <2>6. w \in broker.killed \/ w \in broker.idlingTimer \/ broker.place[w] = "busy"
    BY <1>8 DEF OnExpirationTimer, OnIdlingTimer, BrokerInv, AInv, Timely
  <2>7. proc[w] # "booting" /\ w <= broker.forks
    BY <1>0, <1>1, <2>6 DEF BootingSafe, Unborn
  <2> QED BY <2>3, <2>4, <2>5, <2>7, TouchingBoots
<1>9. CASE \/ EndHeartbeat \/ \E a \in Apps : KillAllAppWorkers(a)
           \/ EndDeploy \/ Stop \/ EmitReady
  <2>1. Grows(broker, broker') /\ \E b : Handled(b)
    BY <1>9, LoopsHold DEF KeepsHolders, EndHeartbeat, KillAllAppWorkers, EndDeploy, Stop,
       EmitReady, Loop
  <2>2. broker'.killed = broker.killed /\ broker'.idlingTimer = broker.idlingTimer
    BY <1>0, <1>9 DEF EndHeartbeat, KillAllAppWorkers, EndDeploy, Stop,
       EmitReady, Loop, Handled, BrokerOK, BrokerType
  <2> QED BY <2>1, <2>2, SparingBoots
<1>10. CASE VisitCachedWorker
  <2> DEFINE cached == broker.pool["cached"]
             v == cached[loop.at]
  <2>1. loop \in [of : {"deploy"}, app : Apps, at : Nat \ {0}, len : Nat]
    BY <1>10 DEF VisitCachedWorker, BrokerInv, TypeOK, LoopType, NoLoop
  <2>2. cached \in Seq(Workers)
    BY <1>0 DEF BrokerOK, BrokerType, Pools
  <2>3. loop.at <= Len(cached) => v \in Workers /\ Holds(cached, v)
    BY <2>1, <2>2 DEF Holds
  <2>4. loop.at <= Len(cached) => broker.place[v] = "cached"
    BY <1>0, <2>3 DEF Placed, Pools
  <2>5. broker' = broker \/ (loop.at <= Len(cached) /\ broker' = KillWorker(broker, v))
    BY <1>10 DEF VisitCachedWorker, Loop, Handled
  <2>6. Grows(broker, broker') /\ \E b : Handled(b)
    BY <1>10, LoopsHold DEF KeepsHolders, VisitCachedWorker, Loop
  <2> HIDE DEF v
  <2>7. CASE broker' = broker
    BY <2>6, <2>7, SparingBoots
  <2>8. CASE loop.at <= Len(cached) /\ broker' = KillWorker(broker, v)
    <3>1. v \in Workers /\ proc[v] # "booting" /\ v <= broker.forks
      BY <1>1, <2>3, <2>4, <2>8
    <3>2. Touches(broker, broker', {v})
      BY <1>0, <2>8, <3>1, KillTouches
    <3> QED BY <2>6, <3>1, <3>2, TouchingBoots
  <2> QED BY <2>5, <2>7, <2>8
<1>11. CASE UNCHANGED vars
  BY <1>11 DEF vars, processes, BootingSafe, GoesOn
<1>12. ASSUME NEW w \in Workers, RunWorker(w)
       PROVE  BootingSafe' /\ GoesOn
  <2>1. broker' = broker /\ \A v \in Workers : proc'[v] = "booting" => proc[v] = "booting"
    BY <1>12 DEF RunWorker, Boot, FinishTask, FailTask, RepeatResult, ReportCriticalError,
                 ReportIdling, Send, BrokerInv, TypeOK
  <2>2. \A v \in Workers : proc[v] = "booting" => proc'[v] = "booting" \/ Boot(v)
    BY <1>12 DEF RunWorker, Boot, FinishTask, FailTask, RepeatResult, ReportCriticalError,
                 ReportIdling, Send, BrokerInv, TypeOK
  <2> QED BY <2>1, <2>2 DEF BootingSafe, GoesOn
<1>13. /\ \A w \in Workers : ~KillExpiredWorker(w) /\ ~Crash(w)
       /\ ~OnHeartbeatTimer
  BY DEF KillExpiredWorker, Crash, OnHeartbeatTimer
<1> QED BY <1>2, <1>3, <1>4, <1>6, <1>7, <1>8, <1>9, <1>10, <1>11, <1>12, <1>13
        DEF Next, OnWorkerEvent

----------------------------------------------------------------------------
(* The intake is armed                                                     *)

Asking == {"getting", "decompressing", "pushing", "pushed"}

Armed == ~stopped /\ IsFree(broker) =>
  \/ request["main"] \in Asking \/ broker.ready
  \/ \E w \in Workers : broker.waiter[w] # NoTask

\* A task waits for a process that starts, a channel for one with a task
Starting ==
  /\ \A w \in Workers : broker.waiter[w] # NoTask => IsStarting(w)
  /\ \A w \in Workers : slot[w] # NoChannel => broker.waiter[w] # NoTask

ArmInv == /\ loop.of # "heartbeat" /\ (broker.stopper # "none" => stopped)
          /\ BootingSafe /\ Starting /\ Armed

LEMMA ArmedIsIntakeArmed == TypeOK /\ ArmInv => IntakeIsArmed
<1> SUFFICES ASSUME TypeOK, ArmInv, ~stopped, AvailableWorkersCount(broker) > 0
             PROVE  \/ request["main"] \in Asking \/ broker.ready
                    \/ \E w \in Workers : broker.waiter[w] # NoTask /\ IsStarting(w)
  BY DEF IntakeIsArmed, Asking
<1>1. broker.pool["busy"] \in Seq(Workers)
  BY DEF TypeOK, BrokerType, Pools
<1>2. IsFree(broker)
  BY <1>1, OptionsAssumption DEF AvailableWorkersCount, IsFree
<1> QED BY <1>2 DEF ArmInv, Armed, Starting

LEMMA RequestArms ==
  ASSUME TypeOK, ChannelInv, IntakeTypes, Starting, NEW r \in [Channels -> RequestStates],
         r["main"] \in {"none", request["main"]}, request' = Requested(r, broker),
         broker'.pool = broker.pool, broker'.waiter = broker.waiter, stopped' = stopped
  PROVE  Armed'
<1> SUFFICES ASSUME ~stopped, IsFree(broker')
             PROVE  \/ request'["main"] \in Asking
                    \/ \E w \in Workers : broker.waiter[w] # NoTask
  BY DEF Armed
<1>1. broker.pool["busy"] \in Seq(Workers) /\ "main" \in Channels
  BY DEF TypeOK, BrokerType, Pools, Channels
<1>2. IsWanted("main", broker)
  BY <1>1, OptionsAssumption DEF IsWanted, AvailableWorkersCount, IsFree
<1>3. request'["main"] = IF r["main"] = "none" THEN "getting" ELSE r["main"]
  BY <1>1, <1>2 DEF Requested
<1>4. CASE r["main"] = "none"
  BY <1>3, <1>4 DEF Asking
<1>5. CASE r["main"] # "none" /\ request["main"] # "starting"
  BY <1>1, <1>3, <1>5 DEF IntakeTypes, RequestStates, Asking
<1>6. CASE request["main"] = "starting"
  <2>1. PICK w \in Workers : slot[w] = "main"
    BY <1>1, <1>6 DEF ChannelInv
  <2> QED BY <2>1 DEF Starting, NoChannel
<1> QED BY <1>4, <1>5, <1>6

\* A turn that leaves the waiters, and reads no 'started'
ReadsNoStart ==
  \A w \in Workers :
    \/ pipe'[w] = pipe[w]
    \/ pipe[w] # <<>> /\ Head(pipe[w]).type # "started" /\ pipe'[w] = Tail(pipe[w])
    \/ \E m : pipe'[w] = Append(pipe[w], m)

LEMMA StartKept ==
  ASSUME TypeOK, Unspoilt, GoesOn, NEW w \in Workers, IsStarting(w),
         \/ pipe'[w] = pipe[w]
         \/ pipe[w] # <<>> /\ Head(pipe[w]).type # "started" /\ pipe'[w] = Tail(pipe[w])
         \/ \E m : pipe'[w] = Append(pipe[w], m)
  PROVE  IsStarting(w)'
<1>0. pipe[w] \in Seq([type : MessageTypes, task : Tasks \cup {NoTask}])
  BY DEF TypeOK
<1>1. CASE proc[w] = "booting"
  <2>1. CASE Boot(w)
    <3>1. pipe'[w] = Append(pipe[w], [type |-> "started", task |-> job[w]]) /\ pipe[w] = <<>>
      BY <1>1, <2>1 DEF Boot, Send, TypeOK, Unspoilt
    <3> DEFINE m == [type |-> "started", task |-> job[w]]
    <3>2. m.type = "started"
      OBVIOUS
    <3> HIDE DEF m
    <3>3. pipe'[w] = <<m>>
      BY <3>1 DEF m
    <3>4. 1 \in DOMAIN pipe'[w] /\ pipe'[w][1].type = "started"
      BY <3>2, <3>3
    <3> QED BY <3>4 DEF IsStarting
  <2> QED BY <1>1, <2>1 DEF GoesOn, IsStarting
<1>2. CASE HasStarted(pipe[w])
  <2>1. PICK i \in DOMAIN pipe[w] : pipe[w][i].type = "started"
    BY <1>2 DEF HasStarted
  <2>2. Len(pipe[w]) = 1 /\ i = 1 /\ pipe[w][1].type = "started"
    BY <1>0, <1>2, <2>1 DEF Unspoilt
  <2>3. CASE pipe'[w] = pipe[w]
    BY <2>1, <2>3 DEF IsStarting
  <2>4. CASE pipe[w] # <<>> /\ Head(pipe[w]).type # "started"
    BY <1>0, <2>2, <2>4
  <2>5. CASE \E m : pipe'[w] = Append(pipe[w], m)
    <3>1. PICK m : pipe'[w] = Append(pipe[w], m)
      BY <2>5
    <3>2. 1 \in DOMAIN pipe'[w] /\ pipe'[w][1] = pipe[w][1]
      BY <1>0, <2>2, <3>1
    <3> QED BY <2>2, <3>2 DEF IsStarting
  <2> QED BY <2>3, <2>4, <2>5
<1> QED BY <1>1, <1>2 DEF IsStarting, HasStarted

LEMMA StartingKept ==
  ASSUME BrokerInv, GoesOn, ReadsNoStart, broker'.waiter = broker.waiter, slot' = slot, Starting
  PROVE  Starting'
<1>1. ASSUME NEW w \in Workers, broker'.waiter[w] # NoTask PROVE IsStarting(w)'
  <2>1. IsStarting(w)
    BY <1>1 DEF Starting
  <2> QED BY <2>1, StartKept DEF BrokerInv, IInv, ReadsNoStart
<1> QED BY <1>1 DEF Starting

\* A turn that neither gives a task nor asks for one
LEMMA FrameArms ==
  ASSUME Settles(broker, broker'), broker'.waiter = broker.waiter, stopped' = stopped,
         request["main"] \in Asking => request'["main"] \in Asking,
         broker'.stopper # "none" => stopped', Armed
  PROVE  Armed'
<1> SUFFICES ASSUME ~stopped, IsFree(broker')
             PROVE  \/ request'["main"] \in Asking \/ broker'.ready
                    \/ \E w \in Workers : broker.waiter[w] # NoTask
  BY DEF Armed
<1>1. broker'.stopper = "none"
  OBVIOUS
<1>2. (IsFree(broker) \/ broker'.ready) /\ (broker.ready => broker'.ready)
  BY <1>1 DEF Settles
<1> QED BY <1>2 DEF Armed

\* A task is given to a worker, or waits for a new one
LEMMA GivingStarts ==
  ASSUME BrokerInv, GoesOn, Starting, NEW s \in [Workers -> Tasks \cup {NoTask}],
         NEW t \in Tasks, GivenTo(s, t),
         \A w \in Workers : s[w] # NoTask => broker.waiter[w] # NoTask /\ pipe'[w] = pipe[w],
         \A w \in Workers : slot'[w] # NoChannel =>
           broker'.waiter[w] = t \/ s[w] # NoTask
  PROVE  Starting'
<1>0. t # NoTask
  BY SentinelAssumption
<1>1. ASSUME NEW w \in Workers, s[w] # NoTask PROVE IsStarting(w)'
  <2>1. IsStarting(w)
    BY <1>1 DEF Starting
  <2> QED BY <1>1, <2>1, StartKept DEF BrokerInv, IInv
<1>2. CASE broker'.waiter = s
  BY <1>0, <1>1, <1>2 DEF Starting
<1>3. ASSUME NEW n \in Workers \cap (broker'.cluster \ broker.cluster),
             broker'.waiter = [s EXCEPT ![n] = t]
      PROVE  Starting'
  <2>1. \A w \in Workers : broker'.waiter[w] = IF w = n THEN t ELSE s[w]
    BY <1>3
  <2>2. IsStarting(n)'
    <3>1. CASE Boot(n)
      BY <3>1 DEF Boot, Send
    <3>2. CASE ~Boot(n)
      BY <3>2 DEF GoesOn, IsStarting
    <3> QED BY <3>1, <3>2
  <2> QED BY <1>0, <1>1, <2>1, <2>2 DEF Starting
<1> QED BY <1>2, <1>3 DEF GivenTo

LEMMA TaskArms ==
  ASSUME MasterAll, IntakeTypes', GoesOn, ArmInv, broker'.stopper # "none" => stopped',
         NEW c \in Channels, NEW t \in Tasks, OnTask(c, t)
  PROVE  Starting' /\ Armed'
<1> DEFINE b == Dispatch(broker, t)
<1>0. /\ BrokerInv /\ IntakeTypes /\ t # NoTask /\ Sound(broker) /\ Unborn(broker)
      /\ broker.waiter \in [Workers -> Tasks \cup {NoTask}]
  BY SentinelAssumption
     DEF MasterAll, MasterInv, BrokerInv, Sound, Born, TypeOK, BrokerType
<1>1. /\ GetWorkerForTask(t) /\ broker' = b /\ b.forks <= MaxForks /\ stopped' = stopped
      /\ pipe' = pipe
  BY DEF OnTask, Received, GetWorkerForTask, Handled
<1>2. GivenTo(broker.waiter, t)
  BY <1>0, <1>1, RequestHolds
<1>3. \E A \in SUBSET {w \in b.cluster \ broker.cluster : b.waiter[w] = t} :
        slot' = [w \in Workers |-> IF w \in A THEN c ELSE slot[w]]
  BY DEF OnTask
<1> HIDE DEF b
<1>4. ASSUME NEW w \in Workers, slot'[w] # NoChannel
      PROVE  broker'.waiter[w] = t \/ broker.waiter[w] # NoTask
  <2>1. broker'.waiter[w] = t \/ slot[w] # NoChannel
    BY <1>1, <1>3, <1>4
  <2> QED BY <2>1 DEF ArmInv, Starting
<1>5. Starting'
  BY <1>0, <1>1, <1>2, <1>4, GivingStarts DEF ArmInv
<1>6. Arms(broker, b, t)
  BY <1>0, DispatchArms DEF b
<1>7. Armed'
  BY <1>0, <1>1, <1>6 DEF Arms, Armed
<1> QED BY <1>5, <1>7

LEMMA StartArms ==
  ASSUME MasterAll, IntakeTypes', GoesOn, ArmInv, broker'.stopper # "none" => stopped',
         Settles(broker, broker'), NEW w \in Workers, OnStarted(w)
  PROVE  Starting' /\ Armed'
<1> DEFINE s == [broker.waiter EXCEPT ![w] = NoTask]
<1>0. /\ BrokerInv /\ IntakeTypes /\ TypeOK
      /\ broker.waiter \in [Workers -> Tasks \cup {NoTask}]
  BY DEF MasterAll, MasterInv, BrokerInv, TypeOK, BrokerType
<1>1. /\ OnWorkerStarted(w) /\ stopped' = stopped
      /\ \A c \in Channels : request'[c] = IF slot[w] = c THEN "none" ELSE request[c]
      /\ \A v \in Workers : slot'[v] = IF v = w THEN NoChannel ELSE slot[v]
  BY <1>0 DEF OnStarted, IntakeTypes
<1>2. \A v \in Workers \ {w} : pipe'[v] = pipe[v]
  BY <1>0, <1>1 DEF OnWorkerStarted, OnMessage, TypeOK
<1>3. /\ broker.waiter[w] = NoTask => broker'.waiter = broker.waiter
      /\ broker.waiter[w] # NoTask => broker.waiter[w] \in Tasks /\ GivenTo(s, broker.waiter[w])
  BY <1>0, <1>1, StartedHolds
<1>4. CASE broker.waiter[w] = NoTask
  <2>1. slot[w] = NoChannel
    BY <1>4 DEF ArmInv, Starting
  <2>2. request'["main"] = request["main"]
    BY <1>1, <2>1 DEF Channels, NoChannel
  <2>3. Armed'
    BY <1>1, <1>3, <1>4, <2>2, FrameArms DEF ArmInv
  <2>4. ASSUME NEW v \in Workers, broker.waiter[v] # NoTask PROVE IsStarting(v)'
    <3>1. v # w /\ IsStarting(v)
      BY <1>4, <2>4 DEF ArmInv, Starting
    <3> QED BY <1>0, <1>2, <3>1, StartKept DEF BrokerInv, IInv
  <2>5. Starting'
    BY <1>1, <1>3, <1>4, <2>1, <2>4 DEF ArmInv, Starting
  <2> QED BY <2>3, <2>5
<1>5. CASE broker.waiter[w] # NoTask
  <2>1. PICK t \in Tasks : t = broker.waiter[w] /\ GivenTo(s, t)
    BY <1>3, <1>5
  <2>2. /\ s \in [Workers -> Tasks \cup {NoTask}]
        /\ \A v \in Workers : s[v] = IF v = w THEN NoTask ELSE broker.waiter[v]
    BY <1>0
  <2> HIDE DEF s
  <2>3. \A v \in Workers : s[v] # NoTask => broker.waiter[v] # NoTask /\ pipe'[v] = pipe[v]
    BY <1>2, <2>2
  <2>4. \A v \in Workers : slot'[v] # NoChannel => s[v] # NoTask
    BY <1>1, <2>2 DEF ArmInv, Starting
  <2>5. Starting'
    BY <1>0, <2>1, <2>2, <2>3, <2>4, GivingStarts DEF ArmInv
  <2>6. Armed'
    BY <1>0, <1>1, <1>5, StartedArms DEF Armed
  <2> QED BY <2>5, <2>6
<1> QED BY <1>4, <1>5

LEMMA NextArms ==
  ASSUME ~Crashes, ~Heartbeat, MasterAll, IntakeTypes', ArmInv, [MasterNext]_masterVars
  PROVE  ArmInv'
<1>0. /\ BrokerInv /\ TypeOK /\ IntakeTypes /\ ChannelInv /\ Starting /\ Armed
      /\ [Next]_vars /\ BrokerOK(broker) /\ SameStop(broker, broker)
  BY MasterStepsAreSteps, BrokerOKFromType
     DEF MasterAll, MasterInv, BrokerInv, ArmInv, SameStop
<1>1. BootingSafe' /\ GoesOn
  BY <1>0, NextBoots DEF ArmInv
<1>2. StopMaster \/ KeepsStop(broker, broker')
  BY <1>0, MasterRuns, RunsKeepStop
<1>3. stopped => stopped'
  BY DEF MasterNext, masterVars, Enqueue, OnResultCompressed, Pop, OnCompressedReply,
         OnGetterFailure, PushTaskBack,
         OnTaskPushedBack, ReceiveTask, OnMalformedTask, OnOutdatedTask, OnRateLimitedTask, OnTask,
         Received, OnTaskProcessed, OnStarted, OnBrokerMessage, RunProcess, CrashProcess,
         OnReadyForNextTasks, OnReconnect, OnBrokerEvent, StopMaster, Exit
<1>4. broker'.stopper # "none" => stopped'
  BY <1>2, <1>3 DEF StopMaster, KeepsStop, ArmInv
<1>5. loop'.of # "heartbeat"
  <2>1. CASE \/ UNCHANGED vars \/ EmitReady \/ Stop
             \/ \E t \in Tasks : GetWorkerForTask(t)
             \/ \E w \in Workers : \/ OnWorkerEvent(w) \/ RunWorker(w) \/ Crash(w)
                                   \/ OnExpirationTimer(w) \/ OnIdlingTimer(w)
    <3>1. loop' = loop
      BY <2>1 DEF vars, GetWorkerForTask, OnWorkerEvent, OnWorkerStarted,
         OnWorkerTaskProcessed, OnWorkerCriticalError, OnWorkerIdling, OnMessage, OnWorkerExit,
         OnDisconnect, RunWorker, Boot, FinishTask, FailTask, RepeatResult, ReportCriticalError,
         ReportIdling, Send, Crash, OnExpirationTimer, OnIdlingTimer, Stop, EmitReady
    <3> QED BY <3>1 DEF ArmInv
  <2>2. ASSUME NEW a \in Apps, KillAllAppWorkers(a) PROVE loop'.of # "heartbeat"
    BY <2>2 DEF KillAllAppWorkers, Loop
  <2>4. ASSUME EndDeploy \/ EndHeartbeat PROVE loop'.of # "heartbeat"
    BY <2>4 DEF EndDeploy, EndHeartbeat, Loop, NoLoop
  <2>5. ~OnHeartbeatTimer /\ \A w \in Workers : ~KillExpiredWorker(w)
    BY DEF OnHeartbeatTimer, KillExpiredWorker, ArmInv
  <2>3. CASE VisitCachedWorker
    <3>1. loop \in [of : {"deploy"}, app : Apps, at : Nat \ {0}, len : Nat]
      BY <1>0, <2>3 DEF VisitCachedWorker, TypeOK, LoopType, NoLoop
    <3>2. loop' = [loop EXCEPT !.at = @ + 1]
      BY <2>3 DEF VisitCachedWorker, Loop
    <3> QED BY <3>1, <3>2
  <2> QED BY <1>0, <2>1, <2>2, <2>3, <2>4, <2>5 DEF Next
<1>6. ASSUME broker' = broker, pipe' = pipe, slot' = slot, stopped' = stopped,
             \/ request["main"] \in Asking => request'["main"] \in Asking
             \/ \E r \in [Channels -> RequestStates] :
                  r["main"] \in {"none", request["main"]} /\ request' = Requested(r, broker)
      PROVE  Starting' /\ Armed'
  <2>1. Settles(broker, broker')
    BY <1>6 DEF Settles, KeepsStop
  <2>2. Starting'
    BY <1>0, <1>1, <1>6, StartingKept DEF ReadsNoStart
  <2>3. CASE request["main"] \in Asking => request'["main"] \in Asking
    BY <1>0, <1>4, <1>6, <2>1, <2>2, <2>3, FrameArms
  <2>4. CASE \E r \in [Channels -> RequestStates] :
               r["main"] \in {"none", request["main"]} /\ request' = Requested(r, broker)
    <3>1. Armed'
      BY <1>0, <1>6, <2>4, RequestArms
    <3> QED BY <2>2, <3>1
  <2> QED BY <1>6, <2>3, <2>4
<1>7. ASSUME NEW c \in Channels PROVE \E r \in [Channels -> RequestStates] :
        r["main"] \in {"none", request["main"]} /\ NextRequest(c) = Requested(r, broker)
  <2> DEFINE r == [request EXCEPT ![c] = "none"]
  <2>1. r \in [Channels -> RequestStates] /\ "main" \in Channels
    BY <1>0 DEF IntakeTypes, RequestStates, Channels
  <2>2. r["main"] \in {"none", request["main"]}
    BY <1>0, <2>1 DEF IntakeTypes
  <2>3. NextRequest(c) = Requested(r, broker)
    BY DEF NextRequest
  <2> HIDE DEF r
  <2> QED BY <2>1, <2>2, <2>3
<1>8. ASSUME \/ UNCHANGED masterVars \/ Exit
             \/ \E t \in Tasks : Enqueue(t) \/ OnResultCompressed(t)
             \/ \E c \in Channels : Pop(c)
      PROVE  Starting' /\ Armed'
  <2>1. /\ broker' = broker /\ pipe' = pipe /\ slot' = slot /\ stopped' = stopped
        /\ request' = request
    BY <1>8 DEF masterVars, vars, processes, intake, Exit, Enqueue, OnResultCompressed, Pop
  <2> QED BY <1>6, <2>1
<1>9. ASSUME NEW c \in Channels, OnGetterFailure(c) \/ OnTaskPushedBack(c)
      PROVE  Starting' /\ Armed'
  <2>1. /\ broker' = broker /\ pipe' = pipe /\ slot' = slot /\ stopped' = stopped
        /\ request' = NextRequest(c)
    BY <1>9 DEF vars, processes, OnGetterFailure, OnTaskPushedBack
  <2> QED BY <1>6, <1>7, <2>1
<1>10. ASSUME NEW c \in Channels, PushTaskBack(c) PROVE Starting' /\ Armed'
  <2>1. /\ broker' = broker /\ pipe' = pipe /\ slot' = slot /\ stopped' = stopped
        /\ request' = [request EXCEPT ![c] = "pushed"]
    BY <1>10 DEF vars, processes, PushTaskBack
  <2>2. request["main"] \in Asking => request'["main"] \in Asking
    BY <1>0, <2>1 DEF IntakeTypes, Channels, Asking
  <2> QED BY <1>6, <2>1, <2>2
<1>22. ASSUME NEW c \in Channels, OnCompressedReply(c) PROVE Starting' /\ Armed'
  <2>1. /\ broker' = broker /\ pipe' = pipe /\ slot' = slot /\ stopped' = stopped
        /\ request' = [request EXCEPT ![c] = "decompressing"]
    BY <1>22 DEF vars, processes, OnCompressedReply
  <2>2. request["main"] \in Asking => request'["main"] \in Asking
    BY <1>0, <2>1 DEF IntakeTypes, Channels, Asking
  <2> QED BY <1>6, <2>1, <2>2
<1>11. ASSUME NEW c \in Channels, NEW t \in Tasks, ReceiveTask(c, t) PROVE Starting' /\ Armed'
  <2>1. ASSUME OnMalformedTask(c, t) \/ OnOutdatedTask(c, t) \/ OnRateLimitedTask(c, t)
        PROVE  Starting' /\ Armed'
    <3>1. /\ broker' = broker /\ pipe' = pipe /\ slot' = slot /\ stopped' = stopped
          /\ request' = NextRequest(c) \/ request' = [request EXCEPT ![c] = "pushing"]
      BY <2>1 DEF vars, processes, OnMalformedTask, OnOutdatedTask, OnRateLimitedTask, Received
    <3>2. CASE request' = NextRequest(c)
      BY <1>6, <1>7, <3>1, <3>2
    <3>3. CASE request' = [request EXCEPT ![c] = "pushing"]
      <4>1. request["main"] \in Asking => request'["main"] \in Asking
        BY <1>0, <3>3 DEF IntakeTypes, Channels, Asking
      <4> QED BY <1>6, <3>1, <4>1
    <3> QED BY <3>1, <3>2, <3>3
  <2> QED BY <1>1, <1>4, <1>11, <2>1, TaskArms DEF ReceiveTask
<1>12. ASSUME OnReconnect PROVE Starting' /\ Armed'
  <2>1. /\ broker' = broker /\ pipe' = pipe /\ slot' = slot /\ stopped' = stopped
        /\ request' = Requested(request, broker)
    BY <1>12 DEF OnReconnect, vars, processes
  <2>2. request \in [Channels -> RequestStates]
    BY <1>0 DEF IntakeTypes
  <2> QED BY <1>6, <2>1, <2>2
<1>13. ASSUME OnReadyForNextTasks PROVE Starting' /\ Armed'
  <2>1. /\ EmitReady /\ pipe' = pipe /\ slot' = slot /\ stopped' = stopped
        /\ request' = Requested(request, broker)
    BY <1>13 DEF OnReadyForNextTasks, EmitReady
  <2>2. broker'.pool = broker.pool /\ broker'.waiter = broker.waiter
    BY <1>0, <2>1 DEF EmitReady, Handled, BrokerOK, BrokerType
  <2>3. Starting'
    BY <1>0, <1>1, <2>1, <2>2, StartingKept DEF ReadsNoStart
  <2>4. request \in [Channels -> RequestStates]
    BY <1>0 DEF IntakeTypes
  <2>5. Armed'
    BY <1>0, <2>1, <2>2, <2>4, RequestArms
  <2> QED BY <2>3, <2>5
<1>14. ASSUME StopMaster PROVE Starting' /\ Armed'
  <2>1. Stop /\ pipe' = pipe /\ slot' = slot /\ stopped'
    BY <1>14 DEF StopMaster, Stop
  <2>2. broker'.waiter = broker.waiter
    BY <1>0, <2>1 DEF Stop, Handled, BrokerOK, BrokerType
  <2>3. Starting'
    BY <1>0, <1>1, <2>1, <2>2, StartingKept DEF ReadsNoStart
  <2> QED BY <2>1, <2>3 DEF Armed
<1>15. ASSUME Turns, broker'.waiter = broker.waiter, slot' = slot,
              stopped' = stopped, request' = request, ReadsNoStart
       PROVE  Starting' /\ Armed'
  <2>1. Settles(broker, broker')
    BY <1>0, <1>15, TurnsSettle
  <2>2. Starting'
    BY <1>0, <1>1, <1>15, StartingKept
  <2>3. Armed'
    BY <1>0, <1>4, <1>15, <2>1, FrameArms
  <2> QED BY <2>2, <2>3
<1>16. ASSUME NEW w \in Workers,
              \/ OnWorkerTaskProcessed(w) \/ OnWorkerCriticalError(w) \/ OnWorkerIdling(w),
              UNCHANGED <<intake, stopped, down>>
       PROVE  Starting' /\ Armed'
  <2>1. Turns
    BY <1>16 DEF Turns, OnWorkerEvent
  <2>2. broker'.waiter = broker.waiter
    BY <1>0, <1>16, EventHolds, IdlingHolds DEF KeepsHolders
  <2>3. /\ pipe[w] # <<>> /\ Head(pipe[w]).type # "started"
        /\ pipe' = [pipe EXCEPT ![w] = Tail(pipe[w])]
    BY <1>16 DEF OnWorkerTaskProcessed, OnWorkerCriticalError, OnWorkerIdling, OnMessage, Read
  <2>4. ReadsNoStart
    BY <1>0, <2>3 DEF ReadsNoStart, TypeOK
  <2> QED BY <1>15, <1>16, <2>1, <2>2, <2>4 DEF intake
<1>17. ASSUME NEW w \in Workers, RunProcess(w) PROVE Starting' /\ Armed'
  <2>1. Turns /\ broker' = broker
    BY <1>17 DEF RunProcess, Turns, RunWorker, Boot, FinishTask, FailTask, RepeatResult,
                 ReportCriticalError, ReportIdling, Send
  <2>2. \E m : pipe' = [pipe EXCEPT ![w] = Append(pipe[w], m)]
    BY <1>17 DEF RunProcess, RunWorker, Boot, FinishTask, FailTask, RepeatResult,
                 ReportCriticalError, ReportIdling, Send
  <2>3. ReadsNoStart
    BY <1>0, <2>2 DEF ReadsNoStart, TypeOK
  <2> QED BY <1>15, <1>17, <2>1, <2>3 DEF RunProcess, intake
<1>18. ASSUME OnBrokerEvent PROVE Starting' /\ Armed'
  <2>1. /\ Turns /\ pipe' = pipe
    BY <1>18 DEF OnBrokerEvent, Turns, OnWorkerEvent, OnWorkerExit, OnDisconnect,
       OnExpirationTimer, OnIdlingTimer, KillExpiredWorker, OnHeartbeatTimer, EndHeartbeat,
       KillAllAppWorkers, VisitCachedWorker, EndDeploy, Loop
  <2>2. broker'.waiter = broker.waiter
    BY <1>0, <1>18, EventHolds, TimerHolds, LoopsHold DEF OnBrokerEvent, KeepsHolders
  <2>3. ReadsNoStart
    BY <2>1 DEF ReadsNoStart
  <2> QED BY <1>15, <1>18, <2>1, <2>2, <2>3 DEF OnBrokerEvent, intake
<1>19. ASSUME NEW w \in Workers, OnStarted(w) PROVE Starting' /\ Armed'
  <2>1. Turns
    BY <1>19 DEF OnStarted, Turns, OnWorkerEvent
  <2>2. Settles(broker, broker')
    BY <1>0, <2>1, TurnsSettle
  <2> QED BY <1>1, <1>4, <1>19, <2>2, StartArms
<1>20. \A w \in Workers : ~CrashProcess(w)
  BY DEF CrashProcess, Crash
<1>21. Starting' /\ Armed'
  <2>1. ASSUME NEW w \in Workers, OnTaskProcessed(w) \/ OnBrokerMessage(w)
        PROVE  Starting' /\ Armed'
    BY <1>16, <2>1 DEF OnTaskProcessed, OnBrokerMessage
  <2> QED BY <1>8, <1>9, <1>10, <1>11, <1>12, <1>13, <1>14, <1>17, <1>18, <1>19, <1>20, <1>22, <2>1
          DEF MasterNext
<1> QED BY <1>1, <1>4, <1>5, <1>21 DEF ArmInv

LEMMA InitArms ==
  ASSUME MasterAll, MasterInit
  PROVE  ArmInv
<1> DEFINE r == [c \in Channels |-> "none"]
<1>1. /\ NewBroker.killed = {} /\ NewBroker.idlingTimer = {} /\ NewBroker.stopper = "none"
      /\ NewBroker.waiter = [w \in Workers |-> NoTask]
      /\ NewBroker.pool["busy"] = <<>>
  BY DEF NewBroker, Pools
<1>2. /\ broker.killed = {} /\ broker.idlingTimer = {} /\ broker.stopper = "none"
      /\ broker.waiter = [w \in Workers |-> NoTask]
      /\ broker.pool["busy"] = <<>>
  BY <1>1, NewBrokerOK
     DEF MasterInit, Init, KeepMinIdleWorkersCount, Fork, BrokerOK, BrokerType
<1>3. request = Requested(r, broker) /\ "main" \in Channels /\ r["main"] = "none"
  BY DEF MasterInit, Channels
<1> HIDE DEF r
<1>4. IsWanted("main", broker)
  BY <1>2, OptionsAssumption DEF IsWanted, AvailableWorkersCount
<1>5. request["main"] = "getting"
  BY <1>3, <1>4 DEF Requested, MasterInit
<1> QED BY <1>2, <1>5
        DEF ArmInv, BootingSafe, Starting, Armed, Asking, MasterInit, Init, NoLoop

\* While no worker crashes and no heartbeat kills one that starts, no wake-up of the
\* intake is lost: as long as a worker is available the master asks for a task, or a
\* READY event or the start of a worker is certain to make it ask.
THEOREM IntakeIsAlwaysArmed ==
  ASSUME ~Crashes, ~Heartbeat
  PROVE  MasterSpec => []IntakeIsArmed
<1>1. MasterAll /\ MasterInit => ArmInv
  BY InitArms
<1>2. MasterAll /\ MasterAll' /\ ArmInv /\ [MasterNext]_masterVars => ArmInv'
  BY NextArms DEF MasterAll, MasterInv
<1>3. MasterAll /\ ArmInv => IntakeIsArmed
  BY ArmedIsIntakeArmed DEF MasterAll, MasterInv, BrokerInv
<1> QED BY <1>1, <1>2, <1>3, MasterInvariant, PTL DEF MasterSpec
=============================================================================
