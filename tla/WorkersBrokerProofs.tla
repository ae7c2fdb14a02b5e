------------------------ MODULE WorkersBrokerProofs ------------------------
(* Theorems about WorkersBroker, for every value of its constants *)
EXTENDS WorkersBroker, FiniteSetTheorems, SequenceTheorems,
        WellFoundedInduction, TLAPS

\* What the methods of the broker may rely on and keep: its fields have their
\* types and cluster.workers holds forked processes.
BrokerOK(b) == b \in BrokerType /\ b.cluster \subseteq 1 .. b.forks

LEMMA ClusterFinite ==
  ASSUME NEW b, BrokerOK(b)
  PROVE  IsFiniteSet(b.cluster) /\ Cardinality(b.cluster) \in Nat
<1>1. b.cluster \subseteq 1 .. b.forks /\ b.forks \in Nat
  BY DEF BrokerOK, BrokerType
<1>2. IsFiniteSet(1 .. b.forks)
  BY <1>1, FS_Interval
<1>3. IsFiniteSet(b.cluster)
  BY <1>1, <1>2, FS_Subset
<1> QED BY <1>3, FS_CardinalityType

LEMMA ForkOK ==
  ASSUME NEW b, BrokerOK(b), NEW n \in Nat
  PROVE  BrokerOK(Fork(b, n))
<1> DEFINE new == (b.forks + 1) .. (b.forks + n)
<1>1. b.forks \in Nat /\ b.starting \in Int /\ b.cluster \subseteq 1 .. b.forks
  BY DEF BrokerOK, BrokerType
<1>2. /\ b.cluster \cup new \subseteq 1 .. (b.forks + n)
      /\ b.cluster \cup new \subseteq Nat
  BY <1>1
<1>3. b.forks + n \in Nat /\ b.starting + n \in Int
  BY <1>1
<1> HIDE DEF new
<1>4. Fork(b, n) \in BrokerType
  BY <1>2, <1>3 DEF Fork, BrokerOK, BrokerType, new
<1>5. Fork(b, n).cluster = b.cluster \cup new /\ Fork(b, n).forks = b.forks + n
  BY DEF Fork, BrokerOK, BrokerType, new
<1> QED BY <1>2, <1>4, <1>5 DEF BrokerOK

LEMMA StartWorkerForOK ==
  ASSUME NEW b, BrokerOK(b), NEW t \in Tasks
  PROVE  BrokerOK(StartWorkerFor(b, t))
<1>1. BrokerOK(Fork(b, 1))
  BY ForkOK
<1> QED BY <1>1 DEF BrokerOK, BrokerType, StartWorkerFor

LEMMA RequiredIsInteger ==
  ASSUME NEW b, BrokerOK(b)
  PROVE  MinOf(MinIdleWorkersCount - Len(b.pool["idle"]),
               ConcurrentLimit - Cardinality(b.cluster)) - b.starting \in Int
<1>1. Len(b.pool["idle"]) \in Nat
  BY DEF BrokerOK, BrokerType, Pools
<1>2. Cardinality(b.cluster) \in Nat
  BY ClusterFinite
<1>3. MinIdleWorkersCount \in Int /\ b.starting \in Int
  BY OptionsAssumption DEF MinIdleWorkersCount, MinOf, MaxOf, BrokerOK, BrokerType
<1> QED BY <1>1, <1>2, <1>3, OptionsAssumption DEF MinOf

LEMMA KeepMinIdleOK ==
  ASSUME NEW b, BrokerOK(b)
  PROVE  BrokerOK(KeepMinIdleWorkersCount(b))
<1> DEFINE n == MinOf(MinIdleWorkersCount - Len(b.pool["idle"]),
                      ConcurrentLimit - Cardinality(b.cluster)) - b.starting
<1>1. n \in Int
  BY RequiredIsInteger
<1>2. CASE n > 0
  <2>1. BrokerOK(Fork(b, n))
    BY <1>1, <1>2, ForkOK
  <2> QED BY <2>1, <1>2 DEF KeepMinIdleWorkersCount
<1>3. CASE ~(n > 0)
  BY <1>3 DEF KeepMinIdleWorkersCount
<1> QED BY <1>2, <1>3

LEMMA WithoutType ==
  ASSUME NEW S, NEW s \in Seq(S), NEW w
  PROVE  Without(s, w) \in Seq(S)
<1>1. CASE \E i \in DOMAIN s : s[i] = w
  <2> DEFINE i == CHOOSE i \in DOMAIN s : s[i] = w
  <2>1. i \in 1 .. Len(s)
    BY <1>1
  <2> HIDE DEF i
  <2>2. SubSeq(s, 1, i - 1) \in Seq(S) /\ SubSeq(s, i + 1, Len(s)) \in Seq(S)
    BY <2>1, SubSeqProperties
  <2>3. SubSeq(s, 1, i - 1) \o SubSeq(s, i + 1, Len(s)) \in Seq(S)
    BY <2>2
  <2> QED BY <1>1, <2>3 DEF Without, i
<1>2. CASE ~ \E i \in DOMAIN s : s[i] = w
  BY <1>2 DEF Without
<1> QED BY <1>1, <1>2

LEMMA MovedWorkerOK ==
  ASSUME NEW b, BrokerOK(b), NEW w \in Workers, NEW to \in Places
  PROVE  BrokerOK(MovedWorker(b, w, to))
<1> DEFINE left == [p \in Pools |-> IF p = b.place[w] THEN Without(b.pool[p], w)
                                    ELSE b.pool[p]]
           pool == [p \in Pools |-> IF p = to THEN <<w>> \o left[p] ELSE left[p]]
           timer == IF to = "cached"
                    THEN IF CachedIdleTTL THEN b.idlingTimer \cup {w} ELSE b.idlingTimer
                    ELSE IF b.place[w] = "cached" THEN b.idlingTimer \ {w}
                                                  ELSE b.idlingTimer
<1>1. left \in [Pools -> Seq(Workers)]
  BY WithoutType DEF BrokerOK, BrokerType
<1>2. pool \in [Pools -> Seq(Workers)]
  BY <1>1
<1>3. [b.place EXCEPT ![w] = to] \in [Workers -> Places]
  BY DEF BrokerOK, BrokerType
<1>4. timer \in SUBSET Workers
  BY DEF BrokerOK, BrokerType
<1>5. MovedWorker(b, w, to) =
        [b EXCEPT !.place = [b.place EXCEPT ![w] = to], !.pool = pool, !.idlingTimer = timer]
  BY DEF MovedWorker, BrokerOK, BrokerType
<1> HIDE DEF left, pool, timer
<1> QED BY <1>2, <1>3, <1>4, <1>5 DEF BrokerOK, BrokerType

LEMMA CountedWorkerOK ==
  ASSUME NEW b, BrokerOK(b), NEW w \in Workers, NEW to \in Places
  PROVE  BrokerOK(CountedWorker(b, w, to))
<1> DEFINE a == b.appId[w]
           load == [b.appsLoad EXCEPT ![a] = @ + (IF to = "busy" THEN 1 ELSE -1)]
           stopper == IF b.stopper = "waiting" /\ b.pool["busy"] = <<>> THEN "done"
                      ELSE b.stopper
           ready == b.ready \/ IsAvailableForTask(b)
<1>1. load \in [Apps \cup {NoApp} -> Int]
  BY DEF BrokerOK, BrokerType
<1>2. stopper \in {"none", "waiting", "done"}
  BY DEF BrokerOK, BrokerType
<1>3. ready \in BOOLEAN
  BY DEF IsAvailableForTask
<1>4. CountedWorker(b, w, to) =
        [b EXCEPT !.appsLoad = load, !.stopper = stopper, !.ready = ready]
  BY DEF BrokerOK, BrokerType, CountedWorker
<1> HIDE DEF load, stopper, ready
<1> QED BY <1>1, <1>2, <1>3, <1>4 DEF BrokerOK, BrokerType

LEMMA RelocateWorkerOK ==
  ASSUME NEW b, BrokerOK(b), NEW w \in Workers, NEW to \in Places
  PROVE  BrokerOK(RelocateWorker(b, w, to))
BY MovedWorkerOK, CountedWorkerOK, KeepMinIdleOK DEF RelocateWorker

LEMMA KillWorkerOK ==
  ASSUME NEW b, BrokerOK(b), NEW w \in Workers
  PROVE  BrokerOK(KillWorker(b, w))
<1>1. BrokerOK(RelocateWorker(b, w, "none"))
  BY RelocateWorkerOK DEF Places
<1> QED BY <1>1 DEF BrokerOK, BrokerType, KillWorker

LEMMA ProcessTaskOK ==
  ASSUME NEW b, BrokerOK(b), NEW t \in Tasks, NEW w \in Workers
  PROVE  BrokerOK(ProcessTask(b, t, w))
<1> DEFINE c == [b EXCEPT !.expireTimer = IF t \in Timed THEN @ \cup {w} ELSE @,
                          !.task[w] = t]
<1>1. BrokerOK(c)
  BY DEF BrokerOK, BrokerType
<1> QED BY <1>1, RelocateWorkerOK DEF ProcessTask, Places, Pools

LEMMA PopIdleOK ==
  ASSUME NEW b, BrokerOK(b), NEW t \in Tasks, b.pool["idle"] # <<>>
  PROVE  /\ BrokerOK(PopIdle(b, t))
         /\ b.pool["idle"][Len(b.pool["idle"])] \in Workers
<1> DEFINE idle == b.pool["idle"]
<1>1. idle \in Seq(Workers) /\ Len(idle) \in 1 .. Len(idle)
  BY DEF BrokerOK, BrokerType, Pools
<1>2. SubSeq(idle, 1, Len(idle) - 1) \in Seq(Workers)
  BY <1>1
<1>3. AppOf[t] \in Apps
  BY TaskAssumption
<1> DEFINE w == idle[Len(idle)]
           pool == [b.pool EXCEPT !["idle"] = SubSeq(idle, 1, Len(idle) - 1)]
           appId == [b.appId EXCEPT ![w] = IF t \in Cacheable THEN AppOf[t] ELSE @]
<1>4. w \in Workers
  BY <1>1
<1>5. pool \in [Pools -> Seq(Workers)]
  BY <1>2 DEF BrokerOK, BrokerType
<1>6. appId \in [Workers -> Apps \cup {NoApp}]
  BY <1>3, <1>4 DEF BrokerOK, BrokerType
<1>7. PopIdle(b, t) = [b EXCEPT !.pool = pool, !.appId = appId]
  BY DEF PopIdle, BrokerOK, BrokerType
<1> HIDE DEF pool, appId
<1>8. BrokerOK(PopIdle(b, t))
  BY <1>5, <1>6, <1>7 DEF BrokerOK, BrokerType
<1> QED BY <1>4, <1>8

LEMMA EvictOK ==
  ASSUME NEW b, BrokerOK(b)
  PROVE  BrokerOK(EvictLeastActive(b))
<1> DEFINE cached == b.pool["cached"]
           c == [b EXCEPT !.pool["cached"] = SubSeq(cached, 1, Len(cached) - 1)]
<1>1. cached \in Seq(Workers) /\ Len(cached) \in Nat
  BY DEF BrokerOK, BrokerType, Pools
<1>2. CASE IsCacheEnabled /\ CacheLimit <= Len(cached)
  <2>1. Len(cached) \in 1 .. Len(cached)
    BY <1>1, <1>2, OptionsAssumption DEF IsCacheEnabled
  <2>2. SubSeq(cached, 1, Len(cached) - 1) \in Seq(Workers) /\ cached[Len(cached)] \in Workers
    BY <1>1, <2>1
  <2>3. BrokerOK(c)
    BY <2>2 DEF BrokerOK, BrokerType, Pools
  <2> QED BY <1>2, <2>2, <2>3, KillWorkerOK DEF EvictLeastActive
<1>3. CASE ~(IsCacheEnabled /\ CacheLimit <= Len(cached))
  BY <1>3 DEF EvictLeastActive
<1> QED BY <1>2, <1>3

\* The first of a set of indices exists: Array.find returns an element.
LEMMA FirstIndex ==
  ASSUME NEW I \in SUBSET Nat, I # {}
  PROVE  \E i \in I : \A j \in I : i <= j
<1>1. PICK i \in I : \A j \in I : ~ (<<j, i>> \in OpToRel(<, Nat))
  BY NatLessThanWellFounded, WFMin
<1>2. OpToRel(<, Nat) = {p \in Nat \X Nat : p[1] < p[2]}
  BY Zenon DEF OpToRel
<1>3. \A j \in I : ~ (j < i)
  BY <1>1, <1>2
<1> QED BY <1>3

LEMMA DispatchOK ==
  ASSUME NEW b, BrokerOK(b), NEW t \in Tasks
  PROVE  BrokerOK(Dispatch(b, t))
<1> DEFINE cached == b.pool["cached"]
           hits == CachedFor(b, t)
           i == CHOOSE i \in hits : \A j \in hits : i <= j
<1>1. CASE hits # {}
  <2>1. hits \subseteq DOMAIN cached /\ cached \in Seq(Workers)
    BY DEF CachedFor, BrokerOK, BrokerType, Pools
  <2>2. hits \in SUBSET Nat
    BY <2>1
  <2>3. i \in hits
    BY <1>1, <2>2, FirstIndex
  <2>4. cached[i] \in Workers
    BY <2>1, <2>3
  <2> QED BY <1>1, <2>4, ProcessTaskOK DEF Dispatch
<1>2. CASE hits = {} /\ b.pool["idle"] # <<>>
  BY <1>2, PopIdleOK, ProcessTaskOK DEF Dispatch
<1>3. CASE hits = {} /\ b.pool["idle"] = <<>>
  BY <1>3, EvictOK, StartWorkerForOK DEF Dispatch
<1> QED BY <1>1, <1>2, <1>3

LEMMA NewBrokerOK == BrokerOK(NewBroker)
<1>1. [p \in Pools |-> <<>>] \in [Pools -> Seq(Workers)]
  OBVIOUS
<1> QED BY <1>1 DEF BrokerOK, BrokerType, NewBroker, Places

----------------------------------------------------------------------------
(* The types                                                               *)

\* A handler that computes a broker of the right type keeps every type.
LEMMA HandledType ==
  ASSUME TypeOK, NEW b, BrokerOK(b), Handled(b)
  PROVE  /\ broker' \in BrokerType
         /\ broker'.forks <= MaxForks /\ broker'.cluster \subseteq 1 .. broker'.forks
         /\ proc' \in [Workers -> ProcStates]
         /\ job' \in [Workers -> Tasks \cup {NoTask}]
         /\ served' \in [Workers -> SUBSET Apps]
<1>1. \A w \in Workers : w \in Delivered(b) => b.task[w] \in Tasks
  BY DEF Delivered, BrokerOK, BrokerType
<1>2. \A t \in Tasks : AppOf[t] \in Apps
  BY TaskAssumption
<1>3. proc' \in [Workers -> ProcStates]
  BY DEF Handled, TypeOK, ProcStates
<1>4. job' \in [Workers -> Tasks \cup {NoTask}]
  BY <1>1 DEF Handled, TypeOK
<1>5. served' \in [Workers -> SUBSET Apps]
  BY <1>1, <1>2 DEF Handled, TypeOK
<1> QED BY <1>3, <1>4, <1>5 DEF Handled, BrokerOK

LEMMA TailType ==
  ASSUME NEW S, NEW s \in Seq(S), s # <<>>
  PROVE  Tail(s) \in Seq(S) /\ Head(s) \in S
BY HeadTailProperties

LEMMA MessageType ==
  ASSUME TypeOK, NEW w \in Workers, NEW type, NEW b, BrokerOK(b), OnMessage(w, type, b)
  PROVE  TypeOK'
<1>1. pipe' \in [Workers -> Seq([type : MessageTypes, task : Tasks \cup {NoTask}])]
  BY TailType DEF OnMessage, Read, TypeOK
<1> QED BY <1>1, HandledType DEF OnMessage, TypeOK

\* What a process does leaves the broker alone.
LEMMA SendType ==
  ASSUME TypeOK, NEW w \in Workers, NEW type \in MessageTypes, NEW next \in ProcStates,
         Send(w, type, next), failed' \in SUBSET Workers
  PROVE  TypeOK'
<1>1. [type |-> type, task |-> job[w]] \in [type : MessageTypes, task : Tasks \cup {NoTask}]
  BY DEF TypeOK
<1>2. pipe' \in [Workers -> Seq([type : MessageTypes, task : Tasks \cup {NoTask}])]
  BY <1>1, AppendProperties DEF Send, TypeOK
<1>3. proc' \in [Workers -> ProcStates]
  BY DEF Send, TypeOK
<1> QED BY <1>2, <1>3 DEF Send, TypeOK

LEMMA ClusterOfWorkers == TypeOK => broker.cluster \subseteq Workers
<1> SUFFICES ASSUME TypeOK, NEW w \in broker.cluster PROVE w \in Workers
  OBVIOUS
<1>1. w \in 1 .. broker.forks /\ broker.forks \in Nat /\ broker.forks <= MaxForks
  BY DEF TypeOK, BrokerType
<1> QED BY <1>1, OptionsAssumption DEF Workers

LEMMA BrokerOKFromType == TypeOK => BrokerOK(broker)
BY DEF TypeOK, BrokerOK

THEOREM InitType == Init => TypeOK
<1> SUFFICES ASSUME Init PROVE TypeOK
  OBVIOUS
<1>1. BrokerOK(broker)
  BY NewBrokerOK, KeepMinIdleOK DEF Init
<1>2. pipe \in [Workers -> Seq([type : MessageTypes, task : Tasks \cup {NoTask}])]
  BY DEF Init
<1> QED BY <1>1, <1>2 DEF Init, TypeOK, BrokerOK, LoopType, ProcStates

\* A handler outside a loop that leaves pipes and exits alone.
LEMMA QuietType ==
  ASSUME TypeOK, NEW b, BrokerOK(b), Handled(b),
         UNCHANGED <<loop, failed, pipe>>,
         exited' \in SUBSET Workers, closed' \in SUBSET Workers
  PROVE  TypeOK'
BY HandledType DEF TypeOK

LEMMA LoopStepType ==
  ASSUME TypeOK, NEW b, BrokerOK(b), NEW l \in LoopType, Loop(b, l)
  PROVE  TypeOK'
BY HandledType DEF TypeOK, Loop

LEMMA EventType ==
  ASSUME TypeOK, NEW w \in Workers, OnWorkerEvent(w)
  PROVE  TypeOK'
<1> USE BrokerOKFromType
<1>1. CASE OnWorkerStarted(w)
  <2> DEFINE idle    == RelocateWorker(broker, w, "idle")
             started == [idle EXCEPT !.starting = @ - 1, !.waiter[w] = NoTask]
             t       == broker.waiter[w]
  <2>1. BrokerOK(idle)
    BY RelocateWorkerOK DEF Places, Pools
  <2> HIDE DEF idle
  <2>2. BrokerOK(started)
    <3>1. idle.starting - 1 \in Int
          /\ [idle.waiter EXCEPT ![w] = NoTask] \in [Workers -> Tasks \cup {NoTask}]
      BY <2>1 DEF BrokerOK, BrokerType
    <3>2. started = [idle EXCEPT !.starting = idle.starting - 1,
                                 !.waiter = [idle.waiter EXCEPT ![w] = NoTask]]
      OBVIOUS
    <3> HIDE DEF started
    <3> QED BY <2>1, <3>1, <3>2 DEF BrokerOK, BrokerType
  <2>3. t \in Tasks \cup {NoTask}
    BY DEF TypeOK, BrokerType
  <2>4. BrokerOK(IF t = NoTask THEN started ELSE Dispatch(started, t))
    BY <2>2, <2>3, DispatchOK
  <2> QED BY <1>1, <2>4, MessageType DEF OnWorkerStarted, idle
<1>2. CASE OnWorkerTaskProcessed(w)
  BY <1>2, MessageType DEF OnWorkerTaskProcessed
<1>3. CASE OnWorkerCriticalError(w)
  <2>1. BrokerOK([broker EXCEPT !.toBeRemoved = @ \cup {w}])
    BY DEF BrokerOK, BrokerType
  <2> QED BY <1>3, <2>1, MessageType DEF OnWorkerCriticalError
<1>4. CASE OnWorkerIdling(w)
  <2> DEFINE c == [broker EXCEPT !.task[w] = NoTask, !.expireTimer = @ \ {w}]
  <2>1. BrokerOK(c)
    BY DEF BrokerOK, BrokerType
  <2>2. BrokerOK(RelocateWorker(c, w, "cached")) /\ BrokerOK(KillWorker(broker, w))
    BY <2>1, RelocateWorkerOK, KillWorkerOK DEF Places, Pools
  <2> QED BY <1>4, <2>2, MessageType DEF OnWorkerIdling
<1>5. CASE OnWorkerExit(w)
  <2> DEFINE left == [broker EXCEPT !.cluster = IF w \in closed THEN @ \ {w} ELSE @,
                                    !.expireTimer = @ \ {w}]
  <2>1. BrokerOK(left)
    BY DEF BrokerOK, BrokerType
  <2>2. BrokerOK(IF w \in broker.killed THEN left ELSE RelocateWorker(left, w, "none"))
    BY <2>1, RelocateWorkerOK DEF Places
  <2>3. exited' \in SUBSET Workers /\ closed' \in SUBSET Workers
    BY <1>5 DEF OnWorkerExit, TypeOK
  <2> QED BY <1>5, <2>2, <2>3, QuietType DEF OnWorkerExit
<1>6. CASE OnDisconnect(w)
  <2>1. BrokerOK([broker EXCEPT !.cluster = IF w \in exited THEN @ \ {w} ELSE @])
    BY DEF BrokerOK, BrokerType
  <2>2. exited' \in SUBSET Workers /\ closed' \in SUBSET Workers
    BY <1>6 DEF OnDisconnect, TypeOK
  <2> QED BY <1>6, <2>1, <2>2, QuietType DEF OnDisconnect
<1> QED BY <1>1, <1>2, <1>3, <1>4, <1>5, <1>6 DEF OnWorkerEvent

LEMMA TimerType ==
  ASSUME TypeOK, NEW w \in Workers,
         OnExpirationTimer(w) \/ OnIdlingTimer(w) \/ KillExpiredWorker(w)
  PROVE  TypeOK'
<1> USE BrokerOKFromType
<1>1. BrokerOK([broker EXCEPT !.expireTimer = @ \ {w}])
  BY DEF BrokerOK, BrokerType
<1>2. exited \in SUBSET Workers /\ closed \in SUBSET Workers
  BY DEF TypeOK
<1>3. CASE OnExpirationTimer(w)
  BY <1>1, <1>2, <1>3, KillWorkerOK, QuietType DEF OnExpirationTimer
<1>4. CASE OnIdlingTimer(w)
  BY <1>2, <1>4, KillWorkerOK, QuietType DEF OnIdlingTimer
<1>5. CASE KillExpiredWorker(w)
  <2>1. [loop EXCEPT !.rest = {v \in loop.rest : v > w}] \in LoopType
    BY <1>5 DEF KillExpiredWorker, TypeOK, LoopType, NoLoop
  <2> QED BY <1>5, <2>1, KillWorkerOK, LoopStepType DEF KillExpiredWorker
<1> QED BY <1>3, <1>4, <1>5

LEMMA RunType ==
  ASSUME TypeOK, NEW w \in Workers, RunWorker(w) \/ Crash(w)
  PROVE  TypeOK'
<1>1. failed' \in SUBSET Workers
  BY DEF RunWorker, Crash, Boot, FinishTask, FailTask, RepeatResult,
         ReportCriticalError, ReportIdling, TypeOK
<1>2. CASE RunWorker(w)
  BY <1>1, <1>2, SendType
  DEF RunWorker, Boot, FinishTask, FailTask, RepeatResult, ReportCriticalError,
      ReportIdling, MessageTypes, ProcStates
<1>3. CASE Crash(w)
  BY <1>3 DEF Crash, TypeOK, ProcStates
<1> QED BY <1>2, <1>3

LEMMA LoopsType ==
  ASSUME TypeOK,
         \/ OnHeartbeatTimer \/ EndHeartbeat \/ \E a \in Apps : KillAllAppWorkers(a)
         \/ VisitCachedWorker \/ EndDeploy
  PROVE  TypeOK'
<1> USE BrokerOKFromType
<1>1. CASE OnHeartbeatTimer
  <2>1. [of |-> "heartbeat", rest |-> broker.cluster] \in LoopType
    BY ClusterOfWorkers DEF LoopType
  <2> QED BY <1>1, <2>1, LoopStepType DEF OnHeartbeatTimer
<1>2. CASE EndHeartbeat \/ EndDeploy
  BY <1>2, LoopStepType DEF EndHeartbeat, EndDeploy, LoopType
<1>3. ASSUME NEW a \in Apps, KillAllAppWorkers(a) PROVE TypeOK'
  <2> DEFINE marked == {w \in broker.cluster : broker.appId[w] = a}
  <2>1. marked \subseteq Workers
    BY ClusterOfWorkers
  <2>2. BrokerOK([broker EXCEPT !.toBeRemoved = @ \cup marked])
    BY <2>1 DEF BrokerOK, BrokerType
  <2>3. Len(broker.pool["cached"]) \in Nat
    BY DEF TypeOK, BrokerType, Pools
  <2>4. [of |-> "deploy", app |-> a, at |-> 1, len |-> Len(broker.pool["cached"])] \in LoopType
    BY <2>3 DEF LoopType
  <2> QED BY <1>3, <2>2, <2>4, LoopStepType DEF KillAllAppWorkers
<1>4. CASE VisitCachedWorker
  <2> DEFINE next == [loop EXCEPT !.at = @ + 1]
             cached == broker.pool["cached"]
  <2>1. loop \in [of : {"deploy"}, app : Apps, at : Nat \ {0}, len : Nat]
    BY <1>4 DEF VisitCachedWorker, TypeOK, LoopType, NoLoop
  <2>2. next \in LoopType
    BY <2>1 DEF LoopType
  <2>3. loop.at <= Len(cached) => cached[loop.at] \in Workers
    BY <2>1 DEF TypeOK, BrokerType, Pools
  <2> QED BY <1>4, <2>2, <2>3, KillWorkerOK, LoopStepType DEF VisitCachedWorker
<1> QED BY <1>1, <1>2, <1>3, <1>4

LEMMA RequestType ==
  ASSUME TypeOK, (\E t \in Tasks : GetWorkerForTask(t)) \/ Stop \/ EmitReady
  PROVE  TypeOK'
<1> USE BrokerOKFromType
<1>1. exited \in SUBSET Workers /\ closed \in SUBSET Workers
  BY DEF TypeOK
<1>2. ASSUME NEW t \in Tasks, GetWorkerForTask(t) PROVE TypeOK'
  BY <1>1, <1>2, DispatchOK, QuietType DEF GetWorkerForTask
<1>3. CASE Stop
  <2>1. BrokerOK([broker EXCEPT !.stopper = IF broker.pool["busy"] = <<>> THEN "done"
                                            ELSE "waiting"])
    BY DEF BrokerOK, BrokerType
  <2> QED BY <1>1, <1>3, <2>1, QuietType DEF Stop
<1>4. CASE EmitReady
  <2>1. BrokerOK([broker EXCEPT !.ready = FALSE])
    BY DEF BrokerOK, BrokerType
  <2> QED BY <1>1, <1>4, <2>1, QuietType DEF EmitReady
<1> QED BY <1>2, <1>3, <1>4

LEMMA NextType == TypeOK /\ [Next]_vars => TypeOK'
<1> SUFFICES ASSUME TypeOK, [Next]_vars PROVE TypeOK'
  OBVIOUS
<1>1. CASE UNCHANGED vars
  BY <1>1 DEF vars, processes, TypeOK
<1>2. CASE Next
  BY <1>2, EventType, TimerType, RunType, LoopsType, RequestType DEF Next
<1> QED BY <1>1, <1>2

\* Every variable of the broker and of the processes keeps its type.
THEOREM TypeCorrect == Spec => []TypeOK
BY InitType, NextType, PTL DEF Spec

----------------------------------------------------------------------------
(* The pools and the count of busy workers per application are what they   *)
(* claim to be.  The methods take workers out of a pool before they update *)
(* currentPlace, so each lemma about a method says which worker may be     *)
(* out of place when it is called.                                         *)

Holds(s, w) == \E i \in DOMAIN s : s[i] = w
NoRepeat(s) == \A i, j \in DOMAIN s : s[i] = s[j] => i = j

\* PoolsMatchPlaces for a broker in the middle of a method
Placed(b) ==
  \A p \in Pools : /\ NoRepeat(b.pool[p])
                   /\ \A v \in Workers : b.place[v] = p <=> Holds(b.pool[p], v)

\* Worker w may have left the pool that its currentPlace still names
PlacedExcept(b, w) ==
  \A p \in Pools : /\ NoRepeat(b.pool[p])
                   /\ \A v \in Workers : Holds(b.pool[p], v) => b.place[v] = p
                   /\ \A v \in Workers \ {w} : b.place[v] = p => Holds(b.pool[p], v)

BusyOf(b, a) == {w \in Workers : b.place[w] = "busy" /\ b.appId[w] = a}

\* AppsLoadIsExact for a broker in the middle of a method
Counted(b) == \A a \in Apps \cup {NoApp} : b.appsLoad[a] = Cardinality(BusyOf(b, a))

----------------------------------------------------------------------------
(* splice, unshift and pop                                                 *)

LEMMA WithoutHolds ==
  ASSUME NEW S, NEW s \in Seq(S), NEW w, NoRepeat(s)
  PROVE  /\ NoRepeat(Without(s, w))
         /\ \A v : Holds(Without(s, w), v) <=> v # w /\ Holds(s, v)
<1>1. CASE Holds(s, w)
  <2> DEFINE i == CHOOSE i \in DOMAIN s : s[i] = w
             l == SubSeq(s, 1, i - 1)
             r == SubSeq(s, i + 1, Len(s))
  <2>1. i \in 1 .. Len(s) /\ s[i] = w /\ Len(s) \in Nat
    BY <1>1 DEF Holds
  <2> HIDE DEF i
  <2>2. /\ l \in Seq(S) /\ Len(l) = i - 1
        /\ \A k \in 1 .. i - 1 : l[k] = s[k]
    <3>1. \A k \in 1 .. i - 1 : s[k] \in S
      BY <2>1
    <3>2. /\ l \in Seq(S) /\ Len(l) = IF 1 <= i - 1 THEN i - 1 - 1 + 1 ELSE 0
          /\ \A k \in 1 .. i - 1 - 1 + 1 : l[k] = s[1 + k - 1]
      BY <2>1, <3>1, SubSeqProperties
    <3> QED BY <2>1, <3>2
  <2>3. /\ r \in Seq(S) /\ Len(r) = Len(s) - i
        /\ \A k \in 1 .. Len(s) - i : r[k] = s[i + k]
    <3>1. \A k \in i + 1 .. Len(s) : s[k] \in S
      BY <2>1
    <3> DEFINE m == i + 1
               n == Len(s)
    <3>2. m \in Int /\ n \in Int /\ \A k \in m .. n : s[k] \in S
      BY <2>1, <3>1
    <3> HIDE DEF m, n
    <3>3. /\ SubSeq(s, m, n) \in Seq(S)
          /\ Len(SubSeq(s, m, n)) = IF m <= n THEN n - m + 1 ELSE 0
          /\ \A k \in 1 .. n - m + 1 : SubSeq(s, m, n)[k] = s[m + k - 1]
      BY <3>2, SubSeqProperties
    <3>4. \A k \in 1 .. n - m + 1 : m + k - 1 = i + k
      BY <2>1 DEF m, n
    <3>5. n - m + 1 = Len(s) - i /\ (m <= n \/ Len(s) - i = 0)
      BY <2>1 DEF m, n
    <3>6. Len(SubSeq(s, m, n)) = Len(s) - i
      BY <3>3, <3>5
    <3>7. \A k \in 1 .. Len(s) - i : SubSeq(s, m, n)[k] = s[i + k]
      BY <3>3, <3>4, <3>5
    <3>8. r = SubSeq(s, m, n)
      BY DEF m, n
    <3> HIDE DEF r
    <3> QED BY <3>3, <3>6, <3>7, <3>8
  <2> DEFINE u == l \o r
  <2> HIDE DEF l, r
  <2>9. /\ u \in Seq(S) /\ Len(u) = Len(l) + Len(r)
        /\ \A k \in 1 .. Len(l) + Len(r) :
             u[k] = IF k <= Len(l) THEN l[k] ELSE r[k - Len(l)]
    BY <2>2, <2>3, ConcatProperties
  <2> HIDE DEF u
  <2>4. u \in Seq(S) /\ Len(u) = Len(s) - 1
    BY <2>1, <2>2, <2>3, <2>9
  <2>5. \A k \in 1 .. Len(s) - 1 : u[k] = s[IF k < i THEN k ELSE k + 1]
    <3> TAKE k \in 1 .. Len(s) - 1
    <3>0. k \in 1 .. Len(l) + Len(r) /\ k \in Int /\ Len(l) = i - 1
      BY <2>1, <2>2, <2>3
    <3>3. u[k] = IF k <= Len(l) THEN l[k] ELSE r[k - Len(l)]
      BY <2>9, <3>0
    <3>1. CASE k < i
      <4>1. k <= Len(l) /\ k \in 1 .. i - 1
        BY <2>1, <3>0, <3>1
      <4> QED BY <2>2, <3>1, <3>3, <4>1
    <3>2. CASE k >= i
      <4>1. u[k] = r[k - (i - 1)]
        BY <2>1, <3>0, <3>2, <3>3
      <4>2. k - (i - 1) \in 1 .. Len(s) - i /\ i + (k - (i - 1)) = k + 1 /\ ~ (k < i)
        BY <2>1, <3>2
      <4> QED BY <2>3, <4>1, <4>2
    <3> QED BY <2>1, <3>1, <3>2
  <2>6. Without(s, w) = u
    BY <1>1 DEF Without, Holds, i, l, r, u
  <2>7. NoRepeat(u)
    BY <2>1, <2>4, <2>5, SMTT(30) DEF NoRepeat
  <2>8. ASSUME NEW v PROVE Holds(u, v) <=> v # w /\ Holds(s, v)
    <3>1. ASSUME Holds(u, v) PROVE v # w /\ Holds(s, v)
      <4>1. PICK k \in 1 .. Len(s) - 1 : u[k] = v
        BY <2>4, <3>1 DEF Holds
      <4> DEFINE m == IF k < i THEN k ELSE k + 1
      <4>2. m \in 1 .. Len(s) /\ m # i /\ s[m] = v
        BY <2>1, <2>5, <4>1
      <4> QED BY <2>1, <4>2 DEF Holds, NoRepeat
    <3>2. ASSUME v # w, Holds(s, v) PROVE Holds(u, v)
      <4>1. PICK m \in 1 .. Len(s) : s[m] = v
        BY <3>2 DEF Holds
      <4> DEFINE k == IF m < i THEN m ELSE m - 1
      <4>2. k \in 1 .. Len(s) - 1 /\ u[k] = v
        BY <2>1, <2>5, <3>2, <4>1
      <4> QED BY <2>4, <4>2 DEF Holds
    <3> QED BY <3>1, <3>2
  <2> QED BY <2>6, <2>7, <2>8
<1>2. CASE ~ Holds(s, w)
  BY <1>2 DEF Without, Holds
<1> QED BY <1>1, <1>2

LEMMA UnshiftHolds ==
  ASSUME NEW S, NEW s \in Seq(S), NEW w \in S, NoRepeat(s), ~ Holds(s, w)
  PROVE  /\ NoRepeat(<<w>> \o s)
         /\ \A v : Holds(<<w>> \o s, v) <=> v = w \/ Holds(s, v)
<1> DEFINE u == <<w>> \o s
<1>1. u \in Seq(S) /\ Len(u) = Len(s) + 1 /\ Len(s) \in Nat
  OBVIOUS
<1>2. u[1] = w /\ \A k \in 1 .. Len(s) : u[k + 1] = s[k]
  OBVIOUS
<1> HIDE DEF u
<1>3. \A k \in 1 .. Len(u) : k = 1 \/ (k - 1 \in 1 .. Len(s) /\ u[k] = s[k - 1])
  BY <1>1, <1>2
<1>4. NoRepeat(u)
  BY <1>1, <1>2, <1>3 DEF NoRepeat, Holds
<1>5. ASSUME NEW v PROVE Holds(u, v) <=> v = w \/ Holds(s, v)
  <2>1. DOMAIN u = 1 .. Len(u) /\ DOMAIN s = 1 .. Len(s)
    BY <1>1
  <2>2. ASSUME Holds(u, v) PROVE v = w \/ Holds(s, v)
    BY <1>2, <1>3, <2>1, <2>2, SMTT(30) DEF Holds
  <2>3. ASSUME Holds(s, v) PROVE Holds(u, v)
    <3>1. PICK k \in 1 .. Len(s) : s[k] = v
      BY <2>1, <2>3 DEF Holds
    <3>2. k + 1 \in DOMAIN u /\ u[k + 1] = v
      BY <1>1, <1>2, <2>1, <3>1
    <3> QED BY <3>2 DEF Holds
  <2>4. Holds(u, w)
    BY <1>1, <1>2, <2>1 DEF Holds
  <2> QED BY <2>2, <2>3, <2>4
<1> QED BY <1>4, <1>5 DEF u

LEMMA PopHolds ==
  ASSUME NEW S, NEW s \in Seq(S), s # <<>>, NoRepeat(s)
  PROVE  LET f == SubSeq(s, 1, Len(s) - 1)
         IN  /\ NoRepeat(f)
             /\ Holds(s, s[Len(s)])
             /\ \A v : Holds(f, v) <=> v # s[Len(s)] /\ Holds(s, v)
<1> DEFINE f == SubSeq(s, 1, Len(s) - 1)
<1>1. Len(s) \in Nat /\ Len(s) >= 1
  OBVIOUS
<1>2. /\ f \in Seq(S) /\ Len(f) = Len(s) - 1
      /\ \A k \in 1 .. Len(s) - 1 : f[k] = s[k]
  <2>1. \A k \in 1 .. Len(s) - 1 : s[k] \in S
    BY <1>1
  <2> DEFINE n == Len(s) - 1
  <2>2. n \in Nat /\ 1 \in Int /\ \A k \in 1 .. n : s[k] \in S
    BY <1>1, <2>1
  <2> HIDE DEF n
  <2>3. /\ SubSeq(s, 1, n) \in Seq(S)
        /\ Len(SubSeq(s, 1, n)) = IF 1 <= n THEN n - 1 + 1 ELSE 0
        /\ \A k \in 1 .. n - 1 + 1 : SubSeq(s, 1, n)[k] = s[1 + k - 1]
    BY <2>2, SubSeqProperties
  <2>4. \A k \in 1 .. n : SubSeq(s, 1, n)[k] = s[k]
    BY <2>2, <2>3
  <2>5. Len(SubSeq(s, 1, n)) = n
    BY <2>2, <2>3
  <2> QED BY <2>3, <2>4, <2>5 DEF n
<1> HIDE DEF f
<1>3. NoRepeat(f) /\ Holds(s, s[Len(s)])
  BY <1>1, <1>2 DEF NoRepeat, Holds
<1>4. ASSUME NEW v PROVE Holds(f, v) <=> v # s[Len(s)] /\ Holds(s, v)
  BY <1>1, <1>2 DEF NoRepeat, Holds
<1> QED BY <1>3, <1>4 DEF f

----------------------------------------------------------------------------
(* What the parts of relocateWorker change                                 *)

LEMMA MovedPool ==
  ASSUME NEW b, BrokerOK(b), NEW w \in Workers, NEW to \in Places
  PROVE  LET left == [p \in Pools |-> IF p = b.place[w] THEN Without(b.pool[p], w)
                                      ELSE b.pool[p]]
         IN  MovedWorker(b, w, to).pool =
               [p \in Pools |-> IF p = to THEN <<w>> \o left[p] ELSE left[p]]
BY DEF MovedWorker, BrokerOK, BrokerType

LEMMA MovedFrame ==
  ASSUME NEW b, BrokerOK(b), NEW w \in Workers, NEW to \in Places
  PROVE  LET m == MovedWorker(b, w, to)
         IN  /\ m.place = [b.place EXCEPT ![w] = to]
             /\ m.appId = b.appId /\ m.appsLoad = b.appsLoad
             /\ m.task = b.task /\ m.waiter = b.waiter /\ m.killed = b.killed
             /\ m.toBeRemoved = b.toBeRemoved /\ m.expireTimer = b.expireTimer
BY DEF MovedWorker, BrokerOK, BrokerType

LEMMA CountedFrame ==
  ASSUME NEW b, BrokerOK(b), NEW w \in Workers, NEW to \in Places
  PROVE  LET c == CountedWorker(b, w, to)
         IN  /\ c.appsLoad = [b.appsLoad EXCEPT ![b.appId[w]] =
                                @ + (IF to = "busy" THEN 1 ELSE -1)]
             /\ c.place = b.place /\ c.pool = b.pool /\ c.appId = b.appId
             /\ c.task = b.task /\ c.waiter = b.waiter /\ c.killed = b.killed
             /\ c.toBeRemoved = b.toBeRemoved /\ c.expireTimer = b.expireTimer
BY DEF CountedWorker, BrokerOK, BrokerType

LEMMA ForkFrame ==
  ASSUME NEW b, BrokerOK(b), NEW n
  PROVE  LET c == Fork(b, n)
         IN  /\ c.appsLoad = b.appsLoad
             /\ c.place = b.place /\ c.pool = b.pool /\ c.appId = b.appId
             /\ c.task = b.task /\ c.waiter = b.waiter /\ c.killed = b.killed
             /\ c.toBeRemoved = b.toBeRemoved /\ c.expireTimer = b.expireTimer
BY DEF Fork, BrokerOK, BrokerType

\* relocateWorker moves one worker and counts it; the rest of what the
\* properties are about is left alone.
LEMMA RelocateFrame ==
  ASSUME NEW b, BrokerOK(b), NEW w \in Workers, NEW to \in Places
  PROVE  LET r == RelocateWorker(b, w, to)
         IN  /\ r.pool = MovedWorker(b, w, to).pool
             /\ r.place = [b.place EXCEPT ![w] = to]
             /\ r.appsLoad = IF "busy" \in {b.place[w], to}
                             THEN [b.appsLoad EXCEPT ![b.appId[w]] =
                                     @ + (IF to = "busy" THEN 1 ELSE -1)]
                             ELSE b.appsLoad
             /\ r.appId = b.appId
             /\ r.task = b.task /\ r.waiter = b.waiter /\ r.killed = b.killed
             /\ r.toBeRemoved = b.toBeRemoved /\ r.expireTimer = b.expireTimer
<1> DEFINE from    == b.place[w]
           busy    == "busy" \in {from, to}
           moved   == MovedWorker(b, w, to)
           counted == IF busy THEN CountedWorker(moved, w, to) ELSE moved
           kept    == KeepMinIdleWorkersCount(counted)
<1>1. BrokerOK(moved) /\ BrokerOK(counted)
  BY MovedWorkerOK, CountedWorkerOK
<1>2. /\ counted.pool = moved.pool
      /\ counted.place = [b.place EXCEPT ![w] = to]
      /\ counted.appsLoad = IF busy THEN [b.appsLoad EXCEPT ![b.appId[w]] =
                                            @ + (IF to = "busy" THEN 1 ELSE -1)]
                            ELSE b.appsLoad
      /\ counted.appId = b.appId
      /\ counted.task = b.task /\ counted.waiter = b.waiter /\ counted.killed = b.killed
      /\ counted.toBeRemoved = b.toBeRemoved /\ counted.expireTimer = b.expireTimer
  <2>0. /\ moved.place = [b.place EXCEPT ![w] = to]
        /\ moved.appId = b.appId /\ moved.appsLoad = b.appsLoad
        /\ moved.task = b.task /\ moved.waiter = b.waiter /\ moved.killed = b.killed
        /\ moved.toBeRemoved = b.toBeRemoved /\ moved.expireTimer = b.expireTimer
    BY MovedFrame
  <2> HIDE DEF moved
  <2>1. CASE busy
    <3> DEFINE c == CountedWorker(moved, w, to)
    <3>1. /\ c.appsLoad = [moved.appsLoad EXCEPT ![moved.appId[w]] =
                             @ + (IF to = "busy" THEN 1 ELSE -1)]
          /\ c.place = moved.place /\ c.pool = moved.pool /\ c.appId = moved.appId
          /\ c.task = moved.task /\ c.waiter = moved.waiter /\ c.killed = moved.killed
          /\ c.toBeRemoved = moved.toBeRemoved /\ c.expireTimer = moved.expireTimer
      BY <1>1, CountedFrame
    <3>2. counted = c
      BY <2>1
    <3> HIDE DEF c, counted
    <3> QED BY <2>0, <2>1, <3>1, <3>2
  <2>2. CASE ~ busy
    <3>1. counted = moved
      BY <2>2
    <3> HIDE DEF counted
    <3> QED BY <2>0, <2>2, <3>1
  <2> QED BY <2>1, <2>2
<1> HIDE DEF counted
<1>3. /\ kept.appsLoad = counted.appsLoad
      /\ kept.place = counted.place /\ kept.pool = counted.pool
      /\ kept.appId = counted.appId
      /\ kept.task = counted.task /\ kept.waiter = counted.waiter
      /\ kept.killed = counted.killed
      /\ kept.toBeRemoved = counted.toBeRemoved /\ kept.expireTimer = counted.expireTimer
  BY <1>1, ForkFrame DEF KeepMinIdleWorkersCount
<1>4. RelocateWorker(b, w, to) \in {counted, kept}
  BY DEF RelocateWorker, counted
<1> HIDE DEF kept, moved
<1>5. CASE RelocateWorker(b, w, to) = counted
  BY <1>2, <1>5 DEF moved
<1>6. CASE RelocateWorker(b, w, to) = kept
  BY <1>2, <1>3, <1>6 DEF moved
<1> QED BY <1>4, <1>5, <1>6

----------------------------------------------------------------------------
(* The methods keep the pools and the counts                               *)

LEMMA MovedPlaced ==
  ASSUME NEW b, BrokerOK(b), NEW w \in Workers, NEW to \in Places, PlacedExcept(b, w)
  PROVE  Placed(RelocateWorker(b, w, to))
<1> DEFINE left == [p \in Pools |-> IF p = b.place[w] THEN Without(b.pool[p], w)
                                    ELSE b.pool[p]]
           r == RelocateWorker(b, w, to)
<1>1. ASSUME NEW p \in Pools
      PROVE  /\ NoRepeat(left[p]) /\ left[p] \in Seq(Workers)
             /\ \A v \in Workers : Holds(left[p], v) <=> v # w /\ b.place[v] = p
  <2>1. b.pool[p] \in Seq(Workers)
    BY DEF BrokerOK, BrokerType
  <2>2. CASE p = b.place[w]
    <3>1. /\ NoRepeat(Without(b.pool[p], w)) /\ Without(b.pool[p], w) \in Seq(Workers)
          /\ \A v : Holds(Without(b.pool[p], w), v) <=> v # w /\ Holds(b.pool[p], v)
      BY <2>1, WithoutHolds, WithoutType DEF PlacedExcept
    <3> QED BY <2>2, <3>1 DEF PlacedExcept
  <2>3. CASE p # b.place[w]
    <3>1. left[p] = b.pool[p]
      BY <2>3
    <3>2. /\ NoRepeat(b.pool[p])
          /\ \A v \in Workers : Holds(b.pool[p], v) => b.place[v] = p
          /\ \A v \in Workers \ {w} : b.place[v] = p => Holds(b.pool[p], v)
      BY DEF PlacedExcept
    <3> HIDE DEF left
    <3> QED BY <2>1, <2>3, <3>1, <3>2
  <2> QED BY <2>2, <2>3
<1>2. /\ r.place = [b.place EXCEPT ![w] = to]
      /\ r.pool = [p \in Pools |-> IF p = to THEN <<w>> \o left[p] ELSE left[p]]
  <2>1. MovedWorker(b, w, to).pool =
          [p \in Pools |-> IF p = to THEN <<w>> \o left[p] ELSE left[p]]
    BY MovedPool
  <2>2. /\ r.pool = MovedWorker(b, w, to).pool
        /\ r.place = [b.place EXCEPT ![w] = to]
        /\ r.appsLoad = IF "busy" \in {b.place[w], to}
                        THEN [b.appsLoad EXCEPT ![b.appId[w]] =
                                @ + (IF to = "busy" THEN 1 ELSE -1)]
                        ELSE b.appsLoad
    BY RelocateFrame
  <2> HIDE DEF left, r
  <2> QED BY <2>1, <2>2
<1>3. b.place \in [Workers -> Places]
  BY DEF BrokerOK, BrokerType
<1> HIDE DEF left, r
<1>4. ASSUME NEW p \in Pools
      PROVE  /\ NoRepeat(r.pool[p])
             /\ \A v \in Workers : r.place[v] = p <=> Holds(r.pool[p], v)
  <2>1. CASE p = to
    <3>1. /\ NoRepeat(<<w>> \o left[p])
          /\ \A v : Holds(<<w>> \o left[p], v) <=> v = w \/ Holds(left[p], v)
      BY <1>1, UnshiftHolds
    <3> QED BY <1>1, <1>2, <1>3, <2>1, <3>1
  <2>2. CASE p # to
    BY <1>1, <1>2, <1>3, <2>2
  <2> QED BY <2>1, <2>2
<1> QED BY <1>4 DEF Placed, r

LEMMA BusyFinite ==
  ASSUME NEW b, NEW a
  PROVE  IsFiniteSet(BusyOf(b, a)) /\ Cardinality(BusyOf(b, a)) \in Nat
<1>1. IsFiniteSet(Workers)
  BY FS_Interval, OptionsAssumption DEF Workers
<1>2. IsFiniteSet(BusyOf(b, a))
  BY <1>1, FS_Subset DEF BusyOf
<1> QED BY <1>2, FS_CardinalityType

LEMMA RelocateCounted ==
  ASSUME NEW b, BrokerOK(b), NEW w \in Workers, NEW to \in Places, Counted(b),
         ~ (b.place[w] = "busy" /\ to = "busy")
  PROVE  Counted(RelocateWorker(b, w, to))
<1> DEFINE r == RelocateWorker(b, w, to)
<1>1. /\ r.place = [b.place EXCEPT ![w] = to] /\ r.appId = b.appId
      /\ r.appsLoad = IF "busy" \in {b.place[w], to}
                      THEN [b.appsLoad EXCEPT ![b.appId[w]] =
                              @ + (IF to = "busy" THEN 1 ELSE -1)]
                      ELSE b.appsLoad
  BY RelocateFrame
<1>2. /\ b.place \in [Workers -> Places] /\ b.appId \in [Workers -> Apps \cup {NoApp}]
      /\ b.appsLoad \in [Apps \cup {NoApp} -> Int]
  BY DEF BrokerOK, BrokerType
<1> HIDE DEF r
<1>3. SUFFICES ASSUME NEW a \in Apps \cup {NoApp}
               PROVE  r.appsLoad[a] = Cardinality(BusyOf(r, a))
  BY DEF Counted, r
<1>4. b.appsLoad[a] = Cardinality(BusyOf(b, a))
  BY DEF Counted
<1>5. CASE a # b.appId[w] \/ "busy" \notin {b.place[w], to}
  <2>1. BusyOf(r, a) = BusyOf(b, a)
    BY <1>1, <1>2, <1>5 DEF BusyOf
  <2> QED BY <1>1, <1>2, <1>4, <1>5, <2>1
<1>6. CASE a = b.appId[w] /\ to = "busy"
  <2>1. BusyOf(r, a) = BusyOf(b, a) \cup {w} /\ w \notin BusyOf(b, a)
    BY <1>1, <1>2, <1>6 DEF BusyOf
  <2>2. Cardinality(BusyOf(r, a)) = Cardinality(BusyOf(b, a)) + 1
    BY <2>1, BusyFinite, FS_AddElement
  <2> QED BY <1>1, <1>2, <1>4, <1>6, <2>2
<1>7. CASE a = b.appId[w] /\ b.place[w] = "busy"
  <2>1. BusyOf(r, a) = BusyOf(b, a) \ {w} /\ w \in BusyOf(b, a)
    BY <1>1, <1>2, <1>7 DEF BusyOf
  <2>2. Cardinality(BusyOf(r, a)) = Cardinality(BusyOf(b, a)) - 1
    BY <2>1, BusyFinite, FS_RemoveElement
  <2>3. r.appsLoad[a] = b.appsLoad[a] - 1
    BY <1>1, <1>2, <1>7
  <2> QED BY <1>4, <2>2, <2>3
<1> QED BY <1>5, <1>6, <1>7

Sound(b) == BrokerOK(b) /\ Placed(b) /\ Counted(b)

LEMMA RelocateSound ==
  ASSUME NEW b, BrokerOK(b), NEW w \in Workers, NEW to \in Places,
         PlacedExcept(b, w), Counted(b), ~ (b.place[w] = "busy" /\ to = "busy")
  PROVE  Sound(RelocateWorker(b, w, to))
BY RelocateWorkerOK, MovedPlaced, RelocateCounted DEF Sound

LEMMA PlacedIsExcept ==
  ASSUME NEW b, Placed(b), NEW w
  PROVE  PlacedExcept(b, w)
BY DEF Placed, PlacedExcept

\* Fields the pools do not depend on may change freely.
LEMMA SameSound ==
  ASSUME NEW b, Sound(b), NEW c, BrokerOK(c), c.pool = b.pool, c.place = b.place,
         c.appId = b.appId, c.appsLoad = b.appsLoad
  PROVE  Sound(c)
BY DEF Sound, Placed, Counted, BusyOf

LEMMA KillSound ==
  ASSUME NEW b, BrokerOK(b), NEW w \in Workers, PlacedExcept(b, w), Counted(b)
  PROVE  Sound(KillWorker(b, w))
<1> DEFINE r == RelocateWorker(b, w, "none")
<1>1. Sound(r)
  BY RelocateSound DEF Places
<1>2. BrokerOK(KillWorker(b, w))
  BY KillWorkerOK
<1>3. BrokerOK(r)
  BY <1>1 DEF Sound
<1>4. KillWorker(b, w) = [r EXCEPT !.killed = @ \cup {w}]
  BY DEF KillWorker
<1> HIDE DEF r
<1> QED BY <1>1, <1>2, <1>3, <1>4, SameSound DEF BrokerOK, BrokerType

LEMMA ProcessTaskSound ==
  ASSUME NEW b, BrokerOK(b), NEW t \in Tasks, NEW w \in Workers,
         PlacedExcept(b, w), Counted(b), b.place[w] # "busy"
  PROVE  Sound(ProcessTask(b, t, w))
<1> DEFINE c == [b EXCEPT !.expireTimer = IF t \in Timed THEN @ \cup {w} ELSE @,
                          !.task[w] = t]
<1>1. BrokerOK(c) /\ c.pool = b.pool /\ c.place = b.place
      /\ c.appId = b.appId /\ c.appsLoad = b.appsLoad
  BY DEF BrokerOK, BrokerType
<1>2. ProcessTask(b, t, w) = RelocateWorker(c, w, "busy")
  BY DEF ProcessTask
<1> HIDE DEF c
<1>3. PlacedExcept(c, w)
  BY <1>1 DEF PlacedExcept
<1>4. Counted(c)
  BY <1>1 DEF Counted, BusyOf
<1> QED BY <1>1, <1>2, <1>3, <1>4, RelocateSound DEF Places, Pools

LEMMA PopSound ==
  ASSUME NEW b, Sound(b), NEW p \in Pools, p # "busy", b.pool[p] # <<>>,
         NEW c, BrokerOK(c), c.place = b.place, c.appsLoad = b.appsLoad,
         c.pool = [b.pool EXCEPT ![p] = SubSeq(@, 1, Len(@) - 1)],
         \A v \in Workers : b.place[v] # p => c.appId[v] = b.appId[v]
  PROVE  LET w == b.pool[p][Len(b.pool[p])]
         IN  w \in Workers /\ PlacedExcept(c, w) /\ Counted(c) /\ c.place[w] = p
<1> DEFINE s == b.pool[p]
           w == s[Len(s)]
           f == SubSeq(s, 1, Len(s) - 1)
<1>1. s \in Seq(Workers) /\ b.pool \in [Pools -> Seq(Workers)]
  BY DEF Sound, BrokerOK, BrokerType
<1>2. w \in Workers
  BY <1>1
<1>3. NoRepeat(s) /\ \A v \in Workers : b.place[v] = p <=> Holds(s, v)
  BY DEF Sound, Placed
<1>4. NoRepeat(f) /\ Holds(s, w) /\ \A v : Holds(f, v) <=> v # w /\ Holds(s, v)
  BY <1>1, <1>3, PopHolds
<1>5. \A q \in Pools : c.pool[q] = IF q = p THEN f ELSE b.pool[q]
  BY <1>1
<1> HIDE DEF s, w, f
<1>6. PlacedExcept(c, w)
  <2> SUFFICES ASSUME NEW q \in Pools
               PROVE  /\ NoRepeat(c.pool[q])
                      /\ \A v \in Workers : Holds(c.pool[q], v) => c.place[v] = q
                      /\ \A v \in Workers \ {w} : c.place[v] = q => Holds(c.pool[q], v)
    BY DEF PlacedExcept
  <2>1. CASE q = p
    BY <1>3, <1>4, <1>5, <2>1
  <2>2. CASE q # p
    <3>1. c.pool[q] = b.pool[q]
      BY <1>5, <2>2
    <3> QED BY <3>1 DEF Sound, Placed
  <2> QED BY <2>1, <2>2
<1>7. Counted(c)
  <2>1. \A a \in Apps \cup {NoApp} : BusyOf(c, a) = BusyOf(b, a)
    BY DEF BusyOf
  <2> QED BY <2>1 DEF Sound, Counted
<1> QED BY <1>2, <1>3, <1>4, <1>6, <1>7 DEF w, s

LEMMA EvictSound ==
  ASSUME NEW b, Sound(b)
  PROVE  Sound(EvictLeastActive(b))
<1> DEFINE cached == b.pool["cached"]
           w == cached[Len(cached)]
           c == [b EXCEPT !.pool["cached"] = SubSeq(cached, 1, Len(cached) - 1)]
<1>1. cached \in Seq(Workers)
  BY DEF Sound, BrokerOK, BrokerType, Pools
<1>2. CASE IsCacheEnabled /\ CacheLimit <= Len(cached)
  <2>1. cached # <<>> /\ Len(cached) \in 1 .. Len(cached)
    BY <1>1, <1>2, OptionsAssumption DEF IsCacheEnabled
  <2>2. SubSeq(cached, 1, Len(cached) - 1) \in Seq(Workers)
    BY <1>1, <2>1
  <2>3. /\ BrokerOK(c) /\ c.place = b.place /\ c.appsLoad = b.appsLoad
        /\ c.appId = b.appId
        /\ c.pool = [b.pool EXCEPT !["cached"] = SubSeq(@, 1, Len(@) - 1)]
    BY <2>2 DEF Sound, BrokerOK, BrokerType, Pools
  <2>4. EvictLeastActive(b) = KillWorker(c, w)
    BY <1>2 DEF EvictLeastActive
  <2> HIDE DEF c
  <2>5. w \in Workers /\ PlacedExcept(c, w) /\ Counted(c)
    BY <2>1, <2>3, PopSound DEF Pools
  <2> QED BY <2>3, <2>4, <2>5, KillSound
<1>3. CASE ~ (IsCacheEnabled /\ CacheLimit <= Len(cached))
  BY <1>3 DEF EvictLeastActive
<1> QED BY <1>2, <1>3

LEMMA StartWorkerForSound ==
  ASSUME NEW b, Sound(b), NEW t \in Tasks
  PROVE  Sound(StartWorkerFor(b, t))
<1>1. BrokerOK(b) /\ BrokerOK(StartWorkerFor(b, t)) /\ BrokerOK(Fork(b, 1))
  BY StartWorkerForOK, ForkOK DEF Sound
<1>2. LET c == StartWorkerFor(b, t)
      IN  c.pool = b.pool /\ c.place = b.place /\ c.appId = b.appId /\ c.appsLoad = b.appsLoad
  BY <1>1 DEF StartWorkerFor, Fork, BrokerOK, BrokerType
<1> QED BY <1>1, <1>2, SameSound

\* A task goes to a cached worker, to an idle one or to a new one, and in each
\* case the worker leaves the pool it was in.
LEMMA DispatchSound ==
  ASSUME NEW b, Sound(b), NEW t \in Tasks
  PROVE  Sound(Dispatch(b, t))
<1> DEFINE cached == b.pool["cached"]
           idle   == b.pool["idle"]
           hits   == CachedFor(b, t)
           i      == CHOOSE i \in hits : \A j \in hits : i <= j
<1>0. BrokerOK(b) /\ Placed(b) /\ Counted(b)
  BY DEF Sound
<1>1. CASE hits # {}
  <2>1. hits \subseteq DOMAIN cached /\ cached \in Seq(Workers)
    BY <1>0 DEF CachedFor, BrokerOK, BrokerType, Pools
  <2>2. hits \in SUBSET Nat
    BY <2>1
  <2>3. i \in hits
    BY <1>1, <2>2, FirstIndex
  <2>4. cached[i] \in Workers /\ Holds(cached, cached[i])
    <3>1. i \in DOMAIN cached
      BY <2>1, <2>3
    <3> HIDE DEF i, cached
    <3>2. Holds(cached, cached[i])
      BY <3>1 DEF Holds
    <3> QED BY <2>1, <3>1, <3>2
  <2>5. b.place[cached[i]] = "cached"
    BY <1>0, <2>4 DEF Placed, Pools
  <2>6. Dispatch(b, t) = ProcessTask(b, t, cached[i])
    BY <1>1 DEF Dispatch
  <2> HIDE DEF i
  <2> QED BY <1>0, <2>4, <2>5, <2>6, PlacedIsExcept, ProcessTaskSound
<1>2. CASE hits = {} /\ idle # <<>>
  <2> DEFINE c == PopIdle(b, t)
             w == idle[Len(idle)]
  <2>1. BrokerOK(c) /\ w \in Workers
    BY <1>0, <1>2, PopIdleOK
  <2>2. Holds(idle, w)
    <3>1. idle \in Seq(Workers)
      BY <1>0 DEF BrokerOK, BrokerType, Pools
    <3> QED BY <1>2, <3>1 DEF Holds
  <2>3. b.place[w] = "idle"
    BY <1>0, <2>1, <2>2 DEF Placed, Pools
  <2>4. /\ c.place = b.place /\ c.appsLoad = b.appsLoad
        /\ c.pool = [b.pool EXCEPT !["idle"] = SubSeq(@, 1, Len(@) - 1)]
        /\ \A v \in Workers : b.place[v] # "idle" => c.appId[v] = b.appId[v]
    <3>1. /\ c.place = b.place /\ c.appsLoad = b.appsLoad
          /\ c.pool = [b.pool EXCEPT !["idle"] = SubSeq(idle, 1, Len(idle) - 1)]
          /\ c.appId = [b.appId EXCEPT ![w] = IF t \in Cacheable THEN AppOf[t] ELSE @]
      BY <1>0 DEF PopIdle, BrokerOK, BrokerType
    <3>2. b.appId \in [Workers -> Apps \cup {NoApp}]
      BY <1>0 DEF BrokerOK, BrokerType
    <3> HIDE DEF c, w
    <3> QED BY <2>1, <2>3, <3>1, <3>2
  <2>5. Dispatch(b, t) = ProcessTask(c, t, w)
    BY <1>2 DEF Dispatch
  <2> HIDE DEF c
  <2>6. PlacedExcept(c, w) /\ Counted(c) /\ c.place[w] = "idle"
    BY <1>2, <2>1, <2>4, PopSound DEF Pools
  <2> QED BY <2>1, <2>5, <2>6, ProcessTaskSound
<1>3. CASE hits = {} /\ idle = <<>>
  BY <1>3, EvictSound, StartWorkerForSound DEF Dispatch
<1> QED BY <1>1, <1>2, <1>3

----------------------------------------------------------------------------
(* The handlers                                                            *)

LEMMA NewBrokerSound == Sound(NewBroker)
<1>1. /\ NewBroker.pool = [p \in Pools |-> <<>>]
      /\ NewBroker.place = [w \in Workers |-> "none"]
      /\ NewBroker.appsLoad = [a \in Apps \cup {NoApp} |-> 0]
  BY DEF NewBroker
<1>2. Placed(NewBroker)
  BY <1>1 DEF Placed, NoRepeat, Holds, Pools
<1>3. Counted(NewBroker)
  <2>1. \A a : BusyOf(NewBroker, a) = {}
    BY <1>1 DEF BusyOf
  <2> QED BY <1>1, <2>1, FS_EmptySet DEF Counted
<1> QED BY <1>2, <1>3, NewBrokerOK DEF Sound

LEMMA KeepMinIdleSound ==
  ASSUME NEW b, Sound(b)
  PROVE  Sound(KeepMinIdleWorkersCount(b))
<1>1. BrokerOK(b) /\ BrokerOK(KeepMinIdleWorkersCount(b))
  BY KeepMinIdleOK DEF Sound
<1>2. LET c == KeepMinIdleWorkersCount(b)
      IN  c.pool = b.pool /\ c.place = b.place /\ c.appId = b.appId /\ c.appsLoad = b.appsLoad
  BY <1>1, ForkFrame DEF KeepMinIdleWorkersCount
<1> QED BY <1>1, <1>2, SameSound

LEMMA EventSound ==
  ASSUME Sound(broker), NEW w \in Workers, OnWorkerEvent(w), TypeOK
  PROVE  Sound(broker')
<1>0. BrokerOK(broker) /\ Placed(broker) /\ Counted(broker)
  BY DEF Sound
<1>1. CASE OnWorkerStarted(w)
  <2> DEFINE idle    == RelocateWorker(broker, w, "idle")
             started == [idle EXCEPT !.starting = @ - 1, !.waiter[w] = NoTask]
             t       == broker.waiter[w]
  <2>1. Sound(idle)
    BY <1>0, PlacedIsExcept, RelocateSound DEF Places, Pools
  <2>2. broker' = IF t = NoTask THEN started ELSE Dispatch(started, t)
    BY <1>1 DEF OnWorkerStarted, OnMessage, Handled
  <2> HIDE DEF idle
  <2>3. Sound(started)
    <3>1. BrokerOK(idle)
      BY <2>1 DEF Sound
    <3>2. idle.starting - 1 \in Int
          /\ [idle.waiter EXCEPT ![w] = NoTask] \in [Workers -> Tasks \cup {NoTask}]
      BY <3>1 DEF BrokerOK, BrokerType
    <3>3. started = [idle EXCEPT !.starting = idle.starting - 1,
                                 !.waiter = [idle.waiter EXCEPT ![w] = NoTask]]
      OBVIOUS
    <3> HIDE DEF started
    <3>4. BrokerOK(started) /\ started.pool = idle.pool /\ started.place = idle.place
          /\ started.appId = idle.appId /\ started.appsLoad = idle.appsLoad
      BY <3>1, <3>2, <3>3 DEF BrokerOK, BrokerType
    <3> QED BY <2>1, <3>4, SameSound
  <2>4. t \in Tasks \cup {NoTask}
    BY <1>0 DEF BrokerOK, BrokerType
  <2> HIDE DEF started
  <2> QED BY <2>2, <2>3, <2>4, DispatchSound
<1>2. CASE OnWorkerTaskProcessed(w)
  BY <1>2 DEF OnWorkerTaskProcessed, OnMessage, Handled
<1>3. CASE OnWorkerCriticalError(w)
  <2> DEFINE c == [broker EXCEPT !.toBeRemoved = @ \cup {w}]
  <2>1. /\ BrokerOK(c) /\ c.pool = broker.pool /\ c.place = broker.place
        /\ c.appId = broker.appId /\ c.appsLoad = broker.appsLoad
    BY <1>0 DEF BrokerOK, BrokerType
  <2>2. broker' = c
    BY <1>3 DEF OnWorkerCriticalError, OnMessage, Handled
  <2> HIDE DEF c
  <2> QED BY <2>1, <2>2, SameSound
<1>4. CASE OnWorkerIdling(w)
  <2> DEFINE c == [broker EXCEPT !.task[w] = NoTask, !.expireTimer = @ \ {w}]
  <2>1. /\ BrokerOK(c) /\ c.pool = broker.pool /\ c.place = broker.place
        /\ c.appId = broker.appId /\ c.appsLoad = broker.appsLoad
    BY <1>0 DEF BrokerOK, BrokerType
  <2>2. broker' \in {RelocateWorker(c, w, "cached"), KillWorker(broker, w)}
    BY <1>4 DEF OnWorkerIdling, OnMessage, Handled
  <2> HIDE DEF c
  <2>3. Sound(c) /\ Placed(c) /\ Counted(c)
    BY <2>1, SameSound DEF Sound
  <2>4. Sound(RelocateWorker(c, w, "cached"))
    BY <2>1, <2>3, PlacedIsExcept, RelocateSound DEF Places, Pools
  <2>5. Sound(KillWorker(broker, w))
    BY <1>0, PlacedIsExcept, KillSound
  <2> QED BY <2>2, <2>4, <2>5
<1>5. CASE OnWorkerExit(w)
  <2> DEFINE left == [broker EXCEPT !.cluster = IF w \in closed THEN @ \ {w} ELSE @,
                                    !.expireTimer = @ \ {w}]
  <2>1. /\ BrokerOK(left) /\ left.pool = broker.pool /\ left.place = broker.place
        /\ left.appId = broker.appId /\ left.appsLoad = broker.appsLoad
    BY <1>0 DEF BrokerOK, BrokerType
  <2>2. broker' \in {left, RelocateWorker(left, w, "none")}
    BY <1>5 DEF OnWorkerExit, Handled
  <2> HIDE DEF left
  <2>3. Sound(left) /\ Placed(left) /\ Counted(left)
    BY <2>1, SameSound DEF Sound
  <2>4. Sound(RelocateWorker(left, w, "none"))
    BY <2>1, <2>3, PlacedIsExcept, RelocateSound DEF Places
  <2> QED BY <2>2, <2>3, <2>4
<1>6. CASE OnDisconnect(w)
  <2> DEFINE c == [broker EXCEPT !.cluster = IF w \in exited THEN @ \ {w} ELSE @]
  <2>1. /\ BrokerOK(c) /\ c.pool = broker.pool /\ c.place = broker.place
        /\ c.appId = broker.appId /\ c.appsLoad = broker.appsLoad
    BY <1>0 DEF BrokerOK, BrokerType
  <2>2. broker' = c
    BY <1>6 DEF OnDisconnect, Handled
  <2> HIDE DEF c
  <2> QED BY <2>1, <2>2, SameSound
<1> QED BY <1>1, <1>2, <1>3, <1>4, <1>5, <1>6 DEF OnWorkerEvent

LEMMA TimerSound ==
  ASSUME Sound(broker), NEW w \in Workers,
         OnExpirationTimer(w) \/ OnIdlingTimer(w) \/ KillExpiredWorker(w)
  PROVE  Sound(broker')
<1> DEFINE c == [broker EXCEPT !.expireTimer = @ \ {w}]
<1>0. BrokerOK(broker) /\ Placed(broker) /\ Counted(broker)
  BY DEF Sound
<1>1. /\ BrokerOK(c) /\ c.pool = broker.pool /\ c.place = broker.place
      /\ c.appId = broker.appId /\ c.appsLoad = broker.appsLoad
  BY <1>0 DEF BrokerOK, BrokerType
<1>2. broker' \in {KillWorker(c, w), KillWorker(broker, w)}
  BY DEF OnExpirationTimer, OnIdlingTimer, KillExpiredWorker, Loop, Handled
<1> HIDE DEF c
<1>3. Placed(c) /\ Counted(c)
  BY <1>1, SameSound DEF Sound
<1> QED BY <1>0, <1>1, <1>2, <1>3, PlacedIsExcept, KillSound

LEMMA LoopsSound ==
  ASSUME Sound(broker), TypeOK,
         \/ OnHeartbeatTimer \/ EndHeartbeat \/ \E a \in Apps : KillAllAppWorkers(a)
         \/ VisitCachedWorker \/ EndDeploy
  PROVE  Sound(broker')
<1>0. BrokerOK(broker) /\ Placed(broker) /\ Counted(broker)
  BY DEF Sound
<1>1. CASE OnHeartbeatTimer \/ EndHeartbeat \/ EndDeploy
  BY <1>1 DEF OnHeartbeatTimer, EndHeartbeat, EndDeploy, Loop, Handled
<1>2. ASSUME NEW a \in Apps, KillAllAppWorkers(a) PROVE Sound(broker')
  <2> DEFINE marked == {w \in broker.cluster : broker.appId[w] = a}
             c == [broker EXCEPT !.toBeRemoved = @ \cup marked]
  <2>1. marked \subseteq Workers
    BY ClusterOfWorkers
  <2>2. /\ BrokerOK(c) /\ c.pool = broker.pool /\ c.place = broker.place
        /\ c.appId = broker.appId /\ c.appsLoad = broker.appsLoad
    BY <1>0, <2>1 DEF BrokerOK, BrokerType
  <2>3. broker' = c
    BY <1>2 DEF KillAllAppWorkers, Loop, Handled
  <2> HIDE DEF c
  <2> QED BY <2>2, <2>3, SameSound
<1>3. CASE VisitCachedWorker
  <2> DEFINE cached == broker.pool["cached"]
             v == cached[loop.at]
  <2>1. loop \in [of : {"deploy"}, app : Apps, at : Nat \ {0}, len : Nat]
    BY <1>3 DEF VisitCachedWorker, TypeOK, LoopType, NoLoop
  <2>2. loop.at <= Len(cached) => v \in Workers
    BY <1>0, <2>1 DEF BrokerOK, BrokerType, Pools
  <2>3. broker' = broker \/ (loop.at <= Len(cached) /\ broker' = KillWorker(broker, v))
    BY <1>3 DEF VisitCachedWorker, Loop, Handled
  <2> QED BY <1>0, <2>2, <2>3, PlacedIsExcept, KillSound
<1> QED BY <1>1, <1>2, <1>3

LEMMA RequestSound ==
  ASSUME Sound(broker), (\E t \in Tasks : GetWorkerForTask(t)) \/ Stop \/ EmitReady
  PROVE  Sound(broker')
<1>0. BrokerOK(broker)
  BY DEF Sound
<1>1. ASSUME NEW t \in Tasks, GetWorkerForTask(t) PROVE Sound(broker')
  BY <1>1, DispatchSound DEF GetWorkerForTask, Handled
<1>2. CASE Stop
  <2> DEFINE c == [broker EXCEPT !.stopper = IF broker.pool["busy"] = <<>> THEN "done"
                                             ELSE "waiting"]
  <2>1. /\ BrokerOK(c) /\ c.pool = broker.pool /\ c.place = broker.place
        /\ c.appId = broker.appId /\ c.appsLoad = broker.appsLoad
    BY <1>0 DEF BrokerOK, BrokerType
  <2>2. broker' = c
    BY <1>2 DEF Stop, Handled
  <2> HIDE DEF c
  <2> QED BY <2>1, <2>2, SameSound
<1>3. CASE EmitReady
  <2> DEFINE c == [broker EXCEPT !.ready = FALSE]
  <2>1. /\ BrokerOK(c) /\ c.pool = broker.pool /\ c.place = broker.place
        /\ c.appId = broker.appId /\ c.appsLoad = broker.appsLoad
    BY <1>0 DEF BrokerOK, BrokerType
  <2>2. broker' = c
    BY <1>3 DEF EmitReady, Handled
  <2> HIDE DEF c
  <2> QED BY <2>1, <2>2, SameSound
<1> QED BY <1>1, <1>2, <1>3

LEMMA InitSound == Init => Sound(broker)
BY NewBrokerSound, KeepMinIdleSound DEF Init

LEMMA NextSound == TypeOK /\ Sound(broker) /\ [Next]_vars => Sound(broker')
<1> SUFFICES ASSUME TypeOK, Sound(broker), [Next]_vars PROVE Sound(broker')
  OBVIOUS
<1>1. CASE UNCHANGED vars
  BY <1>1 DEF vars
<1>2. ASSUME NEW w \in Workers, RunWorker(w) \/ Crash(w) PROVE Sound(broker')
  BY <1>2 DEF RunWorker, Crash, Boot, FinishTask, FailTask, RepeatResult,
              ReportCriticalError, ReportIdling, Send
<1>3. CASE Next
  BY <1>2, <1>3, EventSound, TimerSound, LoopsSound, RequestSound DEF Next
<1> QED BY <1>1, <1>3

LEMMA SoundInvariant == Spec => [](TypeOK /\ Sound(broker))
<1>1. Init => TypeOK /\ Sound(broker)
  BY InitType, InitSound
<1>2. TypeOK /\ Sound(broker) /\ [Next]_vars => TypeOK' /\ Sound(broker')
  BY NextType, NextSound
<1>3. Sound(broker)' <=> Sound(broker')
  BY DEF Sound, BrokerOK, Placed, Counted, BusyOf
<1> QED BY <1>1, <1>2, <1>3, PTL DEF Spec

\* Whatever order the messages, exits, timers and deploys come in, each worker
\* is in exactly the pool its currentPlace names.
THEOREM PoolsAlwaysMatchPlaces == Spec => []PoolsMatchPlaces
<1>1. Sound(broker) => PoolsMatchPlaces
  BY DEF Sound, Placed, NoRepeat, Holds, PoolsMatchPlaces
<1> QED BY <1>1, SoundInvariant, PTL

\* The rate limit compares with the true number of busy workers.
THEOREM AppsLoadAlwaysExact == Spec => []AppsLoadIsExact
<1>1. Sound(broker) => AppsLoadIsExact
  BY DEF Sound, Counted, BusyOf, AppsLoadIsExact
<1> QED BY <1>1, SoundInvariant, PTL


----------------------------------------------------------------------------
(***************************************************************************)
(* No process of WorkersBroker runs the code of two applications, for      *)
(* every value of the constants.                                           *)
(*                                                                         *)
(* OneAppPerProcess is not inductive: that a worker taken from a pool may  *)
(* run the task rests on what each pool promises (Isolated), and that a    *)
(* worker enters the idle pool unused rests on its 'started' message being *)
(* the first and only one before it is placed (Unspoilt), whether the      *)
(* process is still alive when the message is read or not.                 *)
(***************************************************************************)

\* What a pool promises about the applications s[w] its workers have run, and
\* what a task that a worker holds says about them
Isolated(b, s) ==
  \A w \in Workers :
    /\ b.place[w] = "idle" => b.task[w] = NoTask /\ s[w] = {}
    /\ b.place[w] = "cached" => b.task[w] = NoTask /\ s[w] \subseteq {b.appId[w]}
    /\ b.task[w] # NoTask =>
         /\ s[w] \subseteq {AppOf[b.task[w]]}
         /\ b.task[w] \in Cacheable => b.appId[w] = AppOf[b.task[w]]

OneApp(s) == \A w \in Workers : \A x, y \in s[w] : x = y

HasStarted(q) == \E i \in DOMAIN q : q[i].type = "started"

\* Not yet forked, booting, or with a 'started' message the master has not read
Unplaced(w) ==
  proc[w] \in {"none", "booting"} \/ HasStarted(pipe[w]) \/ w > broker.forks

Unspoilt ==
  \A w \in Workers :
    /\ proc[w] \in {"none", "booting"} => pipe[w] = <<>>
    /\ HasStarted(pipe[w]) => Len(pipe[w]) = 1 /\ proc[w] \in {"waiting", "dead"}
    /\ w > broker.forks => pipe[w] = <<>> /\ proc[w] \in {"none", "dead"}
    /\ Unplaced(w) => broker.place[w] = "none" /\ broker.task[w] = NoTask /\ served[w] = {}

IInv == Isolated(broker, served) /\ OneApp(served) /\ Unspoilt

----------------------------------------------------------------------------
(* What a method of the broker may do to the workers                       *)

\* New workers have numbers that were not given before
Grows(b, c) == b.forks <= c.forks /\ \A w \in c.cluster \ b.cluster : w > b.forks

\* A worker nobody has placed stays where it is
LeavesUnplaced(b, c) ==
  \A w \in Workers : b.place[w] = "none" /\ b.task[w] = NoTask =>
                       c.place[w] = "none" /\ c.task[w] = NoTask

\* FreshOrOwnCache for a method
HandsOut(b, c, s) ==
  \A w \in Workers :
    b.task[w] = NoTask /\ c.task[w] # NoTask =>
      \/ s[w] = {}
      \/ c.task[w] \in Cacheable /\ s[w] = {AppOf[c.task[w]]}

LEMMA ForkGrows ==
  ASSUME NEW b, BrokerOK(b), NEW n \in Nat
  PROVE  Grows(b, Fork(b, n))
<1>1. /\ Fork(b, n).forks = b.forks + n
      /\ Fork(b, n).cluster = b.cluster \cup ((b.forks + 1) .. (b.forks + n))
  BY DEF Fork, BrokerOK, BrokerType
<1>2. b.forks \in Nat
  BY DEF BrokerOK, BrokerType
<1> QED BY <1>1, <1>2 DEF Grows

LEMMA KeepMinIdleGrows ==
  ASSUME NEW b, BrokerOK(b)
  PROVE  Grows(b, KeepMinIdleWorkersCount(b))
<1> DEFINE n == MinOf(MinIdleWorkersCount - Len(b.pool["idle"]),
                      ConcurrentLimit - Cardinality(b.cluster)) - b.starting
<1>1. n \in Int
  BY RequiredIsInteger
<1> HIDE DEF n
<1>2. CASE n > 0
  <2>1. n \in Nat
    BY <1>1, <1>2
  <2> QED BY <1>2, <2>1, ForkGrows DEF KeepMinIdleWorkersCount, n
<1>3. CASE ~ (n > 0)
  <2>1. KeepMinIdleWorkersCount(b) = b
    BY <1>3 DEF KeepMinIdleWorkersCount, n
  <2>2. b.forks \in Nat
    BY DEF BrokerOK, BrokerType
  <2> QED BY <2>1, <2>2 DEF Grows
<1> QED BY <1>2, <1>3

LEMMA RelocateGrows ==
  ASSUME NEW b, BrokerOK(b), NEW w \in Workers, NEW to \in Places
  PROVE  Grows(b, RelocateWorker(b, w, to))
<1> DEFINE moved   == MovedWorker(b, w, to)
           counted == IF "busy" \in {b.place[w], to} THEN CountedWorker(moved, w, to)
                      ELSE moved
<1>1. BrokerOK(moved) /\ BrokerOK(counted)
  BY MovedWorkerOK, CountedWorkerOK
<1>2. moved.forks = b.forks /\ moved.cluster = b.cluster
  BY DEF MovedWorker, BrokerOK, BrokerType
<1>3. RelocateWorker(b, w, to) \in {counted, KeepMinIdleWorkersCount(counted)}
  BY DEF RelocateWorker
<1> HIDE DEF moved
<1>4. counted.forks = b.forks /\ counted.cluster = b.cluster
  BY <1>1, <1>2 DEF CountedWorker, BrokerOK, BrokerType
<1>5. b.forks \in Nat
  BY DEF BrokerOK, BrokerType
<1> HIDE DEF counted
<1> QED BY <1>1, <1>3, <1>4, <1>5, KeepMinIdleGrows DEF Grows

----------------------------------------------------------------------------
(* The methods keep the promises of the pools                              *)

LEMMA RelocatePlaces ==
  ASSUME NEW b, BrokerOK(b), NEW w \in Workers, NEW to \in Places
  PROVE  /\ RelocateWorker(b, w, to).place = [b.place EXCEPT ![w] = to]
         /\ RelocateWorker(b, w, to).appId = b.appId
         /\ RelocateWorker(b, w, to).task = b.task
<1> DEFINE r == RelocateWorker(b, w, to)
<1>1. /\ r.pool = MovedWorker(b, w, to).pool
      /\ r.place = [b.place EXCEPT ![w] = to]
      /\ r.appsLoad = IF "busy" \in {b.place[w], to}
                      THEN [b.appsLoad EXCEPT ![b.appId[w]] =
                              @ + (IF to = "busy" THEN 1 ELSE -1)]
                      ELSE b.appsLoad
      /\ r.appId = b.appId
      /\ r.task = b.task
  BY RelocateFrame
<1> QED BY <1>1

\* A worker enters the idle pool unused and the cached one with its own code.
LEMMA RelocateIsolated ==
  ASSUME NEW b, BrokerOK(b), NEW s, Isolated(b, s), NEW w \in Workers, NEW to \in Places,
         to = "idle" => b.task[w] = NoTask /\ s[w] = {},
         to = "cached" => b.task[w] = NoTask /\ s[w] \subseteq {b.appId[w]}
  PROVE  Isolated(RelocateWorker(b, w, to), s)
<1> DEFINE r == RelocateWorker(b, w, to)
<1>1. r.place = [b.place EXCEPT ![w] = to] /\ r.appId = b.appId /\ r.task = b.task
  BY RelocatePlaces
<1>2. b.place \in [Workers -> Places]
  BY DEF BrokerOK, BrokerType
<1> HIDE DEF r
<1>3. Isolated(r, s)
  BY <1>1, <1>2 DEF Isolated
<1> QED BY <1>3 DEF r

LEMMA KillKeeps ==
  ASSUME NEW b, BrokerOK(b), NEW s, Isolated(b, s), NEW w \in Workers
  PROVE  LET c == KillWorker(b, w)
         IN  /\ Grows(b, c) /\ Isolated(c, s)
             /\ c.place = [b.place EXCEPT ![w] = "none"] /\ c.task = b.task
<1> DEFINE r == RelocateWorker(b, w, "none")
           c == KillWorker(b, w)
<1>0. "none" \in Places
  BY DEF Places
<1>1. Grows(b, r) /\ Isolated(r, s) /\ BrokerOK(r)
  BY <1>0, RelocateGrows, RelocateIsolated, RelocateWorkerOK
<1>2. r.place = [b.place EXCEPT ![w] = "none"] /\ r.task = b.task
  BY <1>0, RelocatePlaces
<1>3. c = [r EXCEPT !.killed = @ \cup {w}]
  BY DEF KillWorker
<1> HIDE DEF r
<1>4. /\ c.forks = r.forks /\ c.cluster = r.cluster /\ c.place = r.place
      /\ c.task = r.task /\ c.appId = r.appId
  BY <1>1, <1>3 DEF BrokerOK, BrokerType
<1> HIDE DEF c
<1>5. Grows(b, c) /\ Isolated(c, s) /\ c.place = [b.place EXCEPT ![w] = "none"]
      /\ c.task = b.task
  BY <1>1, <1>2, <1>4 DEF Grows, Isolated
<1> QED BY <1>5 DEF c

\* processTask: whatever the worker did, the task must go with it.
LEMMA ProcessTaskKeeps ==
  ASSUME NEW b, BrokerOK(b), NEW s, Isolated(b, s), NEW t \in Tasks, NEW w \in Workers,
         s[w] \subseteq {AppOf[t]}, t \in Cacheable => b.appId[w] = AppOf[t]
  PROVE  LET c == ProcessTask(b, t, w)
         IN  /\ Grows(b, c) /\ Isolated(c, s)
             /\ c.place = [b.place EXCEPT ![w] = "busy"]
             /\ c.task = [b.task EXCEPT ![w] = t]
<1> DEFINE d == [b EXCEPT !.expireTimer = IF t \in Timed THEN @ \cup {w} ELSE @,
                          !.task[w] = t]
           c == ProcessTask(b, t, w)
<1>1. /\ BrokerOK(d) /\ d.place = b.place /\ d.appId = b.appId
      /\ d.task = [b.task EXCEPT ![w] = t]
      /\ d.forks = b.forks /\ d.cluster = b.cluster
  BY DEF BrokerOK, BrokerType
<1>2. c = RelocateWorker(d, w, "busy")
  BY DEF ProcessTask
<1> HIDE DEF d, c
<1>3. "busy" \in Places
  BY DEF Places, Pools
<1>4. Grows(d, c)
  BY <1>1, <1>2, <1>3, RelocateGrows
<1>5. /\ c.place = [b.place EXCEPT ![w] = "busy"] /\ c.appId = b.appId
      /\ c.task = [b.task EXCEPT ![w] = t]
  BY <1>1, <1>2, <1>3, RelocatePlaces
<1>6. /\ b.place \in [Workers -> Places] /\ b.task \in [Workers -> Tasks \cup {NoTask}]
  BY DEF BrokerOK, BrokerType
<1>7. Isolated(c, s)
  BY <1>5, <1>6 DEF Isolated
<1>8. Grows(b, c)
  BY <1>1, <1>4 DEF Grows
<1> QED BY <1>5, <1>7, <1>8 DEF c

LEMMA EvictKeeps ==
  ASSUME NEW b, Sound(b), NEW s, Isolated(b, s)
  PROVE  LET c == EvictLeastActive(b)
         IN  /\ Grows(b, c) /\ Isolated(c, s) /\ c.task = b.task
             /\ \A w \in Workers : b.place[w] = "none" => c.place[w] = "none"
<1> DEFINE cached == b.pool["cached"]
           v == cached[Len(cached)]
           d == [b EXCEPT !.pool["cached"] = SubSeq(cached, 1, Len(cached) - 1)]
           c == EvictLeastActive(b)
<1>0. BrokerOK(b)
  BY DEF Sound
<1>1. cached \in Seq(Workers)
  BY <1>0 DEF BrokerOK, BrokerType, Pools
<1>2. CASE IsCacheEnabled /\ CacheLimit <= Len(cached)
  <2>1. cached # <<>> /\ Len(cached) \in 1 .. Len(cached)
    BY <1>1, <1>2, OptionsAssumption DEF IsCacheEnabled
  <2>2. SubSeq(cached, 1, Len(cached) - 1) \in Seq(Workers) /\ v \in Workers
    BY <1>1, <2>1
  <2>3. /\ BrokerOK(d) /\ d.place = b.place /\ d.task = b.task /\ d.appId = b.appId
        /\ d.forks = b.forks /\ d.cluster = b.cluster
    BY <1>0, <2>2 DEF BrokerOK, BrokerType
  <2>4. c = KillWorker(d, v)
    BY <1>2 DEF EvictLeastActive
  <2>5. Isolated(d, s)
    BY <2>3 DEF Isolated
  <2> HIDE DEF d, c, v
  <2>6. /\ Grows(d, c) /\ Isolated(c, s)
        /\ c.place = [d.place EXCEPT ![v] = "none"] /\ c.task = d.task
    BY <2>2, <2>3, <2>4, <2>5, KillKeeps
  <2>7. b.place \in [Workers -> Places]
    BY <1>0 DEF BrokerOK, BrokerType
  <2>8. /\ Grows(b, c) /\ c.task = b.task
        /\ \A w \in Workers : b.place[w] = "none" => c.place[w] = "none"
    BY <2>3, <2>6, <2>7 DEF Grows
  <2> QED BY <2>6, <2>8 DEF c
<1>3. CASE ~ (IsCacheEnabled /\ CacheLimit <= Len(cached))
  <2>1. EvictLeastActive(b) = b
    BY <1>3 DEF EvictLeastActive
  <2>2. b.forks \in Nat
    BY <1>0 DEF BrokerOK, BrokerType
  <2> QED BY <2>1, <2>2 DEF Grows
<1> QED BY <1>2, <1>3

\* A task goes to a cached worker of its own application, to an unused one or
\* to a new one.
LEMMA DispatchKeeps ==
  ASSUME NEW b, Sound(b), NEW s, Isolated(b, s), NEW t \in Tasks
  PROVE  LET c == Dispatch(b, t)
         IN  Grows(b, c) /\ Isolated(c, s) /\ LeavesUnplaced(b, c) /\ HandsOut(b, c, s)
<1> DEFINE cached == b.pool["cached"]
           idle   == b.pool["idle"]
           hits   == CachedFor(b, t)
           i      == CHOOSE i \in hits : \A j \in hits : i <= j
           c      == Dispatch(b, t)
<1>0. /\ BrokerOK(b) /\ Placed(b)
      /\ b.place \in [Workers -> Places] /\ b.task \in [Workers -> Tasks \cup {NoTask}]
      /\ b.appId \in [Workers -> Apps \cup {NoApp}]
      /\ idle \in Seq(Workers) /\ cached \in Seq(Workers)
  BY DEF Sound, BrokerOK, BrokerType, Pools
<1>1. CASE hits # {}
  <2>1. hits \subseteq DOMAIN cached /\ hits \in SUBSET Nat
    BY <1>0 DEF CachedFor
  <2>2. i \in hits
    BY <1>1, <2>1, FirstIndex
  <2> DEFINE w == cached[i]
  <2> HIDE DEF i
  <2>3. w \in Workers /\ Holds(cached, w)
    BY <1>0, <2>1, <2>2 DEF Holds
  <2>4. b.place[w] = "cached"
    BY <1>0, <2>3 DEF Placed, Pools
  <2>5. t \in Cacheable /\ b.appId[w] = AppOf[t]
    BY <2>2 DEF CachedFor, IsKept
  <2>6. b.task[w] = NoTask /\ s[w] \subseteq {AppOf[t]}
    BY <2>3, <2>4, <2>5 DEF Isolated
  <2>7. c = ProcessTask(b, t, w)
    BY <1>1 DEF Dispatch, i
  <2> HIDE DEF c, w
  <2>8. /\ Grows(b, c) /\ Isolated(c, s)
        /\ c.place = [b.place EXCEPT ![w] = "busy"] /\ c.task = [b.task EXCEPT ![w] = t]
    BY <1>0, <2>3, <2>5, <2>6, <2>7, ProcessTaskKeeps
  <2>9. LeavesUnplaced(b, c)
    BY <1>0, <2>4, <2>8 DEF LeavesUnplaced
  <2>10. HandsOut(b, c, s)
    BY <1>0, <2>3, <2>5, <2>6, <2>8 DEF HandsOut
  <2> QED BY <2>8, <2>9, <2>10 DEF c
<1>2. CASE hits = {} /\ idle # <<>>
  <2> DEFINE d == PopIdle(b, t)
             w == idle[Len(idle)]
  <2>1. BrokerOK(d) /\ w \in Workers
    BY <1>0, <1>2, PopIdleOK
  <2>2. Holds(idle, w)
    BY <1>0, <1>2 DEF Holds
  <2>3. b.place[w] = "idle"
    BY <1>0, <2>1, <2>2 DEF Placed, Pools
  <2>4. /\ d.place = b.place /\ d.task = b.task
        /\ d.forks = b.forks /\ d.cluster = b.cluster
        /\ d.appId = [b.appId EXCEPT ![w] = IF t \in Cacheable THEN AppOf[t] ELSE @]
    BY <1>0 DEF PopIdle, BrokerOK, BrokerType
  <2>5. c = ProcessTask(d, t, w)
    BY <1>2 DEF Dispatch
  <2> HIDE DEF c, d, w
  <2>6. b.task[w] = NoTask /\ s[w] = {}
    BY <2>1, <2>3 DEF Isolated
  <2>7. Isolated(d, s)
    BY <1>0, <2>1, <2>3, <2>4, <2>6 DEF Isolated
  <2>8. t \in Cacheable => d.appId[w] = AppOf[t]
    BY <1>0, <2>1, <2>4
  <2>9. /\ Grows(d, c) /\ Isolated(c, s)
        /\ c.place = [d.place EXCEPT ![w] = "busy"] /\ c.task = [d.task EXCEPT ![w] = t]
    BY <2>1, <2>5, <2>6, <2>7, <2>8, ProcessTaskKeeps
  <2>10. LeavesUnplaced(b, c)
    BY <1>0, <2>3, <2>4, <2>9 DEF LeavesUnplaced
  <2>11. HandsOut(b, c, s)
    BY <1>0, <2>1, <2>4, <2>6, <2>9 DEF HandsOut
  <2>12. Grows(b, c)
    BY <2>4, <2>9 DEF Grows
  <2> QED BY <2>9, <2>10, <2>11, <2>12 DEF c
<1>3. CASE hits = {} /\ idle = <<>>
  <2> DEFINE d == EvictLeastActive(b)
  <2>1. /\ Grows(b, d) /\ Isolated(d, s) /\ d.task = b.task
        /\ \A w \in Workers : b.place[w] = "none" => d.place[w] = "none"
    BY EvictKeeps
  <2>2. BrokerOK(d)
    BY <1>0, EvictOK
  <2>3. c = StartWorkerFor(d, t)
    BY <1>3 DEF Dispatch
  <2> HIDE DEF c, d
  <2>4. Grows(d, Fork(d, 1)) /\ BrokerOK(Fork(d, 1))
    BY <2>2, ForkGrows, ForkOK
  <2>5. /\ c.place = d.place /\ c.task = d.task /\ c.appId = d.appId
        /\ c.forks = Fork(d, 1).forks /\ c.cluster = Fork(d, 1).cluster
    BY <2>2, <2>3 DEF StartWorkerFor, Fork, BrokerOK, BrokerType
  <2>6. b.forks \in Nat /\ d.forks \in Nat /\ c.forks \in Nat
        /\ b.cluster \subseteq Nat /\ c.cluster \subseteq Nat
    BY <1>0, <2>2, <2>4, <2>5 DEF BrokerOK, BrokerType
  <2>7. Grows(b, c)
    BY <2>1, <2>4, <2>5, <2>6 DEF Grows
  <2>8. Isolated(c, s) /\ LeavesUnplaced(b, c) /\ HandsOut(b, c, s)
    BY <2>1, <2>5 DEF Isolated, LeavesUnplaced, HandsOut
  <2> QED BY <2>7, <2>8 DEF c
<1> QED BY <1>1, <1>2, <1>3

----------------------------------------------------------------------------
(* The handlers                                                            *)

\* What a worker receives it has been handed by the broker, so that its history
\* is what the task it now holds allows.
LEMMA HandledIsolated ==
  ASSUME TypeOK, OneApp(served), NEW b, BrokerOK(b), Handled(b), Isolated(b, served)
  PROVE  /\ Isolated(broker', served') /\ OneApp(served')
         /\ \A w \in Workers : served'[w] = served[w] \/ w \in Delivered(b)
<1>1. /\ broker' = b
      /\ \A w \in Workers :
           served'[w] = IF w \in Delivered(b) THEN served[w] \cup {AppOf[b.task[w]]}
                        ELSE served[w]
  BY DEF Handled
<1>2. \A w \in Delivered(b) : b.task[w] # NoTask
  BY DEF Delivered
<1>3. ASSUME NEW w \in Workers
      PROVE  served'[w] = served[w]
             \/ (b.task[w] # NoTask /\ served'[w] = {AppOf[b.task[w]]})
  <2>1. CASE w \in Delivered(b)
    <3>1. b.task[w] # NoTask /\ served[w] \subseteq {AppOf[b.task[w]]}
      BY <1>2, <2>1 DEF Isolated
    <3> QED BY <1>1, <2>1, <3>1
  <2>2. CASE w \notin Delivered(b)
    BY <1>1, <2>2
  <2> QED BY <2>1, <2>2
<1>4. Isolated(b, served')
  BY <1>3 DEF Isolated
<1>5. OneApp(served')
  BY <1>3 DEF OneApp
<1> QED BY <1>1, <1>4, <1>5

\* A handler leaves every pipe alone, or takes the first message of one of them;
\* only the worker of that message may be placed for the first time.
LEMMA HandledUnspoilt ==
  ASSUME TypeOK, Unspoilt, NEW b, BrokerOK(b), Handled(b), Grows(broker, b),
         \A w \in Workers : served'[w] = served[w] \/ w \in Delivered(b),
         \A w \in Workers :
           \/ /\ pipe'[w] = pipe[w]
              /\ broker.place[w] = "none" /\ broker.task[w] = NoTask =>
                   b.place[w] = "none" /\ b.task[w] = NoTask
           \/ pipe[w] # <<>> /\ pipe'[w] = Tail(pipe[w])
  PROVE  Unspoilt'
<1>1. /\ broker' = b
      /\ \A w \in Workers :
           proc'[w] = CASE w \in b.killed -> "dead"
                        [] w \in b.cluster \ broker.cluster -> "booting"
                        [] w \in Delivered(b) -> "running"
                        [] OTHER -> proc[w]
  BY DEF Handled
<1>2. /\ b.forks \in Nat /\ broker.forks \in Nat /\ broker.forks <= b.forks
      /\ \A w \in Workers : w > b.forks => w > broker.forks /\ w \notin b.cluster
      /\ \A w \in b.cluster \ broker.cluster : w > broker.forks
  BY DEF BrokerOK, BrokerType, TypeOK, Grows, Workers
<1>3. ASSUME NEW w \in Workers
      PROVE  /\ proc'[w] \in {"none", "booting"} => pipe'[w] = <<>>
             /\ HasStarted(pipe'[w]) => Len(pipe'[w]) = 1 /\ proc'[w] \in {"waiting", "dead"}
             /\ w > b.forks => pipe'[w] = <<>> /\ proc'[w] \in {"none", "dead"}
             /\ proc'[w] \in {"none", "booting"} \/ HasStarted(pipe'[w]) \/ w > b.forks =>
                  b.place[w] = "none" /\ b.task[w] = NoTask /\ served'[w] = {}
  <2>1. /\ proc[w] \in {"none", "booting"} => pipe[w] = <<>>
        /\ HasStarted(pipe[w]) => Len(pipe[w]) = 1 /\ proc[w] \in {"waiting", "dead"}
        /\ w > broker.forks => pipe[w] = <<>> /\ proc[w] \in {"none", "dead"}
        /\ Unplaced(w) => broker.place[w] = "none" /\ broker.task[w] = NoTask /\ served[w] = {}
    BY DEF Unspoilt
  <2>2. ~ HasStarted(<<>>)
    BY DEF HasStarted
  <2>3. w \in Delivered(b) => b.task[w] # NoTask
    BY DEF Delivered
  <2>4. CASE pipe'[w] = pipe[w]
             /\ (broker.place[w] = "none" /\ broker.task[w] = NoTask =>
                   b.place[w] = "none" /\ b.task[w] = NoTask)
    <3>1. CASE Unplaced(w)
      <4>1. /\ b.place[w] = "none" /\ b.task[w] = NoTask
            /\ w \notin Delivered(b) /\ served'[w] = {}
        BY <2>1, <2>3, <2>4, <3>1
      <4>2. proc'[w] \in {"dead", "booting", proc[w]}
        BY <1>1, <4>1
      <4>3. proc'[w] = "booting" => proc[w] = "booting" \/ w > broker.forks
        BY <1>1, <1>2, <4>1
      <4>4. w > b.forks => proc'[w] \in {"dead", proc[w]} /\ w > broker.forks
        BY <1>1, <1>2, <4>1
      <4> QED BY <2>1, <2>2, <2>4, <4>1, <4>2, <4>3, <4>4
    <3>2. CASE ~ Unplaced(w)
      <4>1. /\ proc[w] \notin {"none", "booting"} /\ ~ HasStarted(pipe[w])
            /\ ~ (w > broker.forks) /\ ~ (w > b.forks)
        BY <1>2, <3>2 DEF Unplaced
      <4>2. proc'[w] \notin {"none", "booting"}
        BY <1>1, <1>2, <4>1
      <4> QED BY <2>4, <4>1, <4>2
    <3> QED BY <3>1, <3>2
  <2>5. CASE pipe[w] # <<>> /\ pipe'[w] = Tail(pipe[w])
    <3>1. proc[w] \notin {"none", "booting"} /\ ~ (w > broker.forks) /\ ~ (w > b.forks)
      BY <1>2, <2>1, <2>5
    <3>2. proc'[w] \notin {"none", "booting"}
      BY <1>1, <1>2, <3>1
    <3>3. ~ HasStarted(Tail(pipe[w]))
      <4>1. pipe[w] \in Seq([type : MessageTypes, task : Tasks \cup {NoTask}])
        BY DEF TypeOK
      <4>2. /\ Len(Tail(pipe[w])) = Len(pipe[w]) - 1 /\ Len(pipe[w]) \in Nat
            /\ DOMAIN Tail(pipe[w]) = 1 .. Len(Tail(pipe[w]))
            /\ \A k \in 1 .. Len(Tail(pipe[w])) : Tail(pipe[w])[k] = pipe[w][k + 1]
            /\ DOMAIN pipe[w] = 1 .. Len(pipe[w])
        BY <2>5, <4>1
      <4>3. HasStarted(Tail(pipe[w])) => HasStarted(pipe[w]) /\ Len(pipe[w]) # 1
        BY <4>2 DEF HasStarted
      <4> QED BY <2>1, <4>3
    <3> QED BY <2>5, <3>1, <3>2, <3>3
  <2> QED BY <2>4, <2>5
<1> QED BY <1>1, <1>3 DEF Unspoilt, Unplaced

LEMMA HandledKeeps ==
  ASSUME TypeOK, IInv, NEW b, BrokerOK(b), Handled(b), Grows(broker, b), Isolated(b, served),
         \A w \in Workers :
           \/ /\ pipe'[w] = pipe[w]
              /\ broker.place[w] = "none" /\ broker.task[w] = NoTask =>
                   b.place[w] = "none" /\ b.task[w] = NoTask
           \/ pipe[w] # <<>> /\ pipe'[w] = Tail(pipe[w])
  PROVE  IInv'
<1>1. /\ Isolated(broker', served') /\ OneApp(served')
      /\ \A w \in Workers : served'[w] = served[w] \/ w \in Delivered(b)
  BY HandledIsolated DEF IInv
<1>2. Unspoilt'
  BY <1>1, HandledUnspoilt DEF IInv
<1>3. IInv' <=> Isolated(broker', served') /\ OneApp(served') /\ Unspoilt'
  BY DEF IInv, Isolated, OneApp
<1> QED BY <1>1, <1>2, <1>3

\* Fields the promises do not depend on may change freely.
LEMMA SameKeeps ==
  ASSUME NEW b, BrokerOK(b), NEW s, Isolated(b, s), NEW c,
         c.place = b.place, c.task = b.task, c.appId = b.appId,
         c.forks = b.forks, c.cluster \subseteq b.cluster
  PROVE  Grows(b, c) /\ Isolated(c, s)
<1>1. b.forks \in Nat
  BY DEF BrokerOK, BrokerType
<1> QED BY <1>1 DEF Grows, Isolated

\* A handler that leaves the pipes alone and gives no task to anyone.
LEMMA QuietKeeps ==
  ASSUME TypeOK, IInv, NEW b, BrokerOK(b), Handled(b), Grows(broker, b), Isolated(b, served),
         b.task = broker.task, pipe' = pipe,
         \A w \in Workers : broker.place[w] = "none" => b.place[w] = "none"
  PROVE  IInv' /\ HandsOut(broker, broker', served)
<1>1. IInv'
  BY HandledKeeps
<1>2. broker' = b
  BY DEF Handled
<1> QED BY <1>1, <1>2 DEF HandsOut

LEMMA MessageKeeps ==
  ASSUME TypeOK, IInv, NEW w \in Workers, NEW type, NEW b, BrokerOK(b), OnMessage(w, type, b),
         Grows(broker, b), Isolated(b, served),
         \A v \in Workers \ {w} : broker.place[v] = "none" /\ broker.task[v] = NoTask =>
                                    b.place[v] = "none" /\ b.task[v] = NoTask
  PROVE  IInv'
<1>1. /\ Handled(b) /\ pipe[w] # <<>>
      /\ pipe' = [pipe EXCEPT ![w] = Tail(pipe[w])]
  BY DEF OnMessage, Read
<1>2. \A v \in Workers : pipe'[v] = IF v = w THEN Tail(pipe[w]) ELSE pipe[v]
  BY <1>1 DEF TypeOK
<1> QED BY <1>1, <1>2, HandledKeeps

\* The 'started' message is the one place where a worker enters the idle pool.
LEMMA StartedState ==
  ASSUME TypeOK, Sound(broker), IInv, NEW w \in Workers, Read(w, "started")
  PROVE  LET idle    == RelocateWorker(broker, w, "idle")
             started == [idle EXCEPT !.starting = @ - 1, !.waiter[w] = NoTask]
         IN  /\ broker.place[w] = "none" /\ broker.task[w] = NoTask
             /\ Sound(started) /\ Isolated(started, served) /\ Grows(broker, started)
             /\ started.place = [broker.place EXCEPT ![w] = "idle"]
             /\ started.task = broker.task
             /\ started.killed = idle.killed /\ started.expireTimer = idle.expireTimer
<1> DEFINE idle    == RelocateWorker(broker, w, "idle")
           started == [idle EXCEPT !.starting = @ - 1, !.waiter[w] = NoTask]
<1>0. /\ BrokerOK(broker) /\ Placed(broker) /\ Counted(broker) /\ "idle" \in Places
      /\ broker.place \in [Workers -> Places]
  BY DEF Sound, BrokerOK, BrokerType, Places, Pools
<1>1. broker.place[w] = "none" /\ broker.task[w] = NoTask /\ served[w] = {}
  <2>1. pipe[w] # <<>> /\ pipe[w] \in Seq([type : MessageTypes, task : Tasks \cup {NoTask}])
        /\ Head(pipe[w]).type = "started"
    BY DEF Read, TypeOK
  <2>2. HasStarted(pipe[w])
    BY <2>1 DEF HasStarted
  <2> QED BY <2>2 DEF IInv, Unspoilt, Unplaced
<1>2. /\ Sound(idle) /\ BrokerOK(idle)
      /\ idle.place = [broker.place EXCEPT ![w] = "idle"]
      /\ idle.task = broker.task /\ idle.appId = broker.appId
      /\ Grows(broker, idle) /\ Isolated(idle, served)
  <2>1. Sound(idle)
    BY <1>0, PlacedIsExcept, RelocateSound
  <2>2. /\ idle.place = [broker.place EXCEPT ![w] = "idle"]
        /\ idle.task = broker.task /\ idle.appId = broker.appId
    BY <1>0, RelocatePlaces
  <2>3. Grows(broker, idle)
    BY <1>0, RelocateGrows
  <2>4. Isolated(idle, served)
    BY <1>0, <1>1, RelocateIsolated DEF IInv
  <2> QED BY <2>1, <2>2, <2>3, <2>4 DEF Sound
<1> HIDE DEF idle
<1>3. /\ Sound(started)
      /\ started.place = idle.place /\ started.task = idle.task
      /\ started.appId = idle.appId
      /\ started.killed = idle.killed /\ started.expireTimer = idle.expireTimer
      /\ started.forks = idle.forks /\ started.cluster = idle.cluster
  <2>1. idle.starting - 1 \in Int
        /\ [idle.waiter EXCEPT ![w] = NoTask] \in [Workers -> Tasks \cup {NoTask}]
    BY <1>2 DEF BrokerOK, BrokerType
  <2>2. started = [idle EXCEPT !.starting = idle.starting - 1,
                               !.waiter = [idle.waiter EXCEPT ![w] = NoTask]]
    OBVIOUS
  <2> HIDE DEF started
  <2>3. /\ BrokerOK(started) /\ started.pool = idle.pool /\ started.appsLoad = idle.appsLoad
        /\ started.place = idle.place /\ started.task = idle.task
        /\ started.appId = idle.appId
        /\ started.killed = idle.killed /\ started.expireTimer = idle.expireTimer
        /\ started.forks = idle.forks /\ started.cluster = idle.cluster
    BY <1>2, <2>1, <2>2 DEF BrokerOK, BrokerType
  <2> QED BY <1>2, <2>3, SameSound
<1> HIDE DEF started
<1>4. /\ Isolated(started, served) /\ Grows(broker, started)
      /\ started.place = [broker.place EXCEPT ![w] = "idle"] /\ started.task = broker.task
  BY <1>2, <1>3 DEF Isolated, Grows
<1> QED BY <1>1, <1>3, <1>4 DEF started, idle

\* The task that waits for the new worker may take it, or any other one, at once.
LEMMA StartedKeeps ==
  ASSUME TypeOK, Sound(broker), IInv, NEW w \in Workers, OnWorkerStarted(w)
  PROVE  IInv' /\ HandsOut(broker, broker', served)
<1> DEFINE idle    == RelocateWorker(broker, w, "idle")
           started == [idle EXCEPT !.starting = @ - 1, !.waiter[w] = NoTask]
           t       == broker.waiter[w]
           b       == IF t = NoTask THEN started ELSE Dispatch(started, t)
<1>0. /\ BrokerOK(broker) /\ broker.place \in [Workers -> Places]
      /\ t \in Tasks \cup {NoTask}
  BY DEF Sound, BrokerOK, BrokerType
<1>1. OnMessage(w, "started", b)
  BY DEF OnWorkerStarted
<1>2. Read(w, "started")
  BY <1>1 DEF OnMessage
<1>3. /\ Sound(started) /\ Isolated(started, served) /\ Grows(broker, started)
      /\ started.place = [broker.place EXCEPT ![w] = "idle"]
      /\ started.task = broker.task
  BY <1>2, StartedState
<1> HIDE DEF started
<1>4. BrokerOK(started)
  BY <1>3 DEF Sound
<1>5. \A v \in Workers : (v # w /\ broker.place[v] = "none") => started.place[v] = "none"
  BY <1>0, <1>3
<1>6. /\ BrokerOK(b) /\ Grows(broker, b) /\ Isolated(b, served)
      /\ \A v \in Workers \ {w} : broker.place[v] = "none" /\ broker.task[v] = NoTask =>
                                    b.place[v] = "none" /\ b.task[v] = NoTask
      /\ HandsOut(broker, b, served)
  <2>1. CASE t = NoTask
    <3>1. b = started
      BY <2>1
    <3> HIDE DEF b
    <3>2. HandsOut(broker, b, served)
      BY <1>3, <3>1 DEF HandsOut
    <3> QED BY <1>3, <1>4, <1>5, <3>1, <3>2
  <2>2. CASE t # NoTask
    <3>1. b = Dispatch(started, t) /\ t \in Tasks
      BY <1>0, <2>2
    <3> HIDE DEF b, t
    <3>2. /\ Grows(started, b) /\ Isolated(b, served)
          /\ LeavesUnplaced(started, b) /\ HandsOut(started, b, served)
      BY <1>3, <3>1, DispatchKeeps
    <3>3. BrokerOK(b)
      BY <1>4, <3>1, DispatchOK
    <3>4. Grows(broker, b)
      <4>1. /\ broker.forks \in Nat /\ started.forks \in Nat /\ b.forks \in Nat
            /\ b.cluster \subseteq Nat
        BY <1>0, <1>4, <3>3 DEF BrokerOK, BrokerType
      <4> QED BY <1>3, <3>2, <4>1 DEF Grows
    <3>5. \A v \in Workers \ {w} : broker.place[v] = "none" /\ broker.task[v] = NoTask =>
                                    b.place[v] = "none" /\ b.task[v] = NoTask
      BY <1>3, <1>5, <3>2 DEF LeavesUnplaced
    <3>6. HandsOut(broker, b, served)
      BY <1>3, <3>2 DEF HandsOut
    <3> QED BY <3>2, <3>3, <3>4, <3>5, <3>6
  <2> QED BY <2>1, <2>2
<1> HIDE DEF b
<1>7. IInv'
  BY <1>1, <1>6, MessageKeeps
<1>8. broker' = b
  BY <1>1 DEF OnMessage, Handled
<1> QED BY <1>6, <1>7, <1>8

LEMMA IdlingKeeps ==
  ASSUME TypeOK, IInv, NEW w \in Workers, OnWorkerIdling(w)
  PROVE  IInv' /\ HandsOut(broker, broker', served)
<1> DEFINE t    == broker.task[w]
           kept == t # NoTask /\ IsKept(t) /\ w \notin broker.toBeRemoved
           c    == [broker EXCEPT !.task[w] = NoTask, !.expireTimer = @ \ {w}]
           r    == RelocateWorker(c, w, "cached")
           b    == IF kept THEN r ELSE KillWorker(broker, w)
<1>0. /\ BrokerOK(broker) /\ "cached" \in Places /\ Isolated(broker, served)
      /\ broker.place \in [Workers -> Places] /\ broker.task \in [Workers -> Tasks \cup {NoTask}]
  BY BrokerOKFromType DEF BrokerOK, BrokerType, Places, Pools, IInv
<1>1. OnMessage(w, "idling", b)
  BY DEF OnWorkerIdling
<1>2. /\ BrokerOK(b) /\ Grows(broker, b) /\ Isolated(b, served)
      /\ \A v \in Workers \ {w} : broker.place[v] = "none" => b.place[v] = "none"
      /\ \A v \in Workers : broker.task[v] = NoTask => b.task[v] = NoTask
  <2>1. CASE kept
    <3>1. /\ BrokerOK(c) /\ c.place = broker.place /\ c.appId = broker.appId
          /\ c.task = [broker.task EXCEPT ![w] = NoTask]
          /\ c.forks = broker.forks /\ c.cluster = broker.cluster
      BY <1>0 DEF BrokerOK, BrokerType
    <3>2. t \in Cacheable /\ t # NoTask
      BY <2>1 DEF IsKept
    <3>3. b = r
      BY <2>1
    <3> HIDE DEF b, c, kept
    <3>4. Isolated(c, served) /\ c.task[w] = NoTask /\ served[w] \subseteq {c.appId[w]}
      BY <1>0, <3>1, <3>2 DEF Isolated
    <3>5. /\ BrokerOK(r) /\ Grows(c, r) /\ Isolated(r, served)
          /\ r.place = [c.place EXCEPT ![w] = "cached"] /\ r.task = c.task
      <4>1. BrokerOK(r) /\ Grows(c, r)
        BY <1>0, <3>1, RelocateWorkerOK, RelocateGrows
      <4>2. Isolated(r, served)
        BY <1>0, <3>1, <3>4, RelocateIsolated
      <4>3. r.place = [c.place EXCEPT ![w] = "cached"] /\ r.task = c.task
        BY <1>0, <3>1, RelocatePlaces
      <4> QED BY <4>1, <4>2, <4>3
    <3> HIDE DEF r
    <3>6. Grows(broker, r)
      BY <3>1, <3>5 DEF Grows
    <3> QED BY <1>0, <3>1, <3>3, <3>5, <3>6
  <2>2. CASE ~ kept
    <3>1. b = KillWorker(broker, w)
      BY <2>2
    <3> HIDE DEF b, kept
    <3>2. BrokerOK(b)
      BY <1>0, <3>1, KillWorkerOK
    <3>3. /\ Grows(broker, b) /\ Isolated(b, served)
          /\ b.place = [broker.place EXCEPT ![w] = "none"] /\ b.task = broker.task
      BY <1>0, <3>1, KillKeeps
    <3> QED BY <1>0, <3>2, <3>3
  <2> QED BY <2>1, <2>2
<1> HIDE DEF b
<1>3. IInv'
  BY <1>1, <1>2, MessageKeeps
<1>4. broker' = b
  BY <1>1 DEF OnMessage, Handled
<1> QED BY <1>2, <1>3, <1>4 DEF HandsOut

LEMMA EventKeeps ==
  ASSUME TypeOK, Sound(broker), IInv, NEW w \in Workers, OnWorkerEvent(w)
  PROVE  IInv' /\ HandsOut(broker, broker', served)
<1>0. /\ BrokerOK(broker) /\ "none" \in Places /\ Isolated(broker, served)
      /\ broker.place \in [Workers -> Places]
  BY DEF Sound, BrokerOK, BrokerType, Places, IInv
<1>1. CASE OnWorkerStarted(w)
  BY <1>1, StartedKeeps
<1>2. CASE OnWorkerTaskProcessed(w) \/ OnWorkerCriticalError(w)
  <2> DEFINE c == [broker EXCEPT !.toBeRemoved = @ \cup {w}]
  <2>1. PICK b \in {broker, c}, type \in MessageTypes : OnMessage(w, type, b)
    BY <1>2 DEF OnWorkerTaskProcessed, OnWorkerCriticalError, MessageTypes
  <2>2. /\ BrokerOK(b) /\ b.place = broker.place /\ b.task = broker.task
        /\ b.appId = broker.appId /\ b.forks = broker.forks /\ b.cluster = broker.cluster
    <3>1. /\ BrokerOK(c) /\ c.place = broker.place /\ c.task = broker.task
          /\ c.appId = broker.appId /\ c.forks = broker.forks /\ c.cluster = broker.cluster
      BY <1>0 DEF BrokerOK, BrokerType
    <3> HIDE DEF c
    <3> QED BY <1>0, <2>1, <3>1
  <2>3. Grows(broker, b) /\ Isolated(b, served)
    BY <1>0, <2>2, SameKeeps
  <2>4. IInv'
    BY <2>1, <2>2, <2>3, MessageKeeps
  <2>5. broker' = b
    BY <2>1 DEF OnMessage, Handled
  <2> QED BY <2>2, <2>4, <2>5 DEF HandsOut
<1>3. CASE OnWorkerIdling(w)
  BY <1>3, IdlingKeeps
<1>4. CASE OnWorkerExit(w)
  <2> DEFINE left == [broker EXCEPT !.cluster = IF w \in closed THEN @ \ {w} ELSE @,
                                    !.expireTimer = @ \ {w}]
             r == RelocateWorker(left, w, "none")
             b == IF w \in broker.killed THEN left ELSE r
  <2>1. /\ BrokerOK(left) /\ left.place = broker.place /\ left.task = broker.task
        /\ left.appId = broker.appId /\ left.forks = broker.forks
        /\ left.cluster \subseteq broker.cluster
    BY <1>0 DEF BrokerOK, BrokerType
  <2>2. Handled(b) /\ pipe' = pipe
    BY <1>4 DEF OnWorkerExit
  <2>3. b \in {left, r}
    OBVIOUS
  <2> HIDE DEF b, left
  <2>4. Grows(broker, left) /\ Isolated(left, served)
    BY <1>0, <2>1, SameKeeps
  <2>5. /\ BrokerOK(r) /\ Grows(left, r) /\ Isolated(r, served)
        /\ r.place = [left.place EXCEPT ![w] = "none"] /\ r.task = left.task
    BY <1>0, <2>1, <2>4, RelocateWorkerOK, RelocateGrows, RelocateIsolated, RelocatePlaces
  <2> HIDE DEF r
  <2>6. Grows(broker, r)
    BY <2>1, <2>5 DEF Grows
  <2>7. \A v \in Workers : broker.place[v] = "none" => b.place[v] = "none"
    BY <1>0, <2>1, <2>3, <2>5
  <2> QED BY <2>1, <2>2, <2>3, <2>4, <2>5, <2>6, <2>7, QuietKeeps
<1>5. CASE OnDisconnect(w)
  <2> DEFINE b == [broker EXCEPT !.cluster = IF w \in exited THEN @ \ {w} ELSE @]
  <2>1. /\ BrokerOK(b) /\ b.place = broker.place /\ b.task = broker.task
        /\ b.appId = broker.appId /\ b.forks = broker.forks
        /\ b.cluster \subseteq broker.cluster
    BY <1>0 DEF BrokerOK, BrokerType
  <2>2. Handled(b) /\ pipe' = pipe
    BY <1>5 DEF OnDisconnect
  <2> HIDE DEF b
  <2>3. Grows(broker, b) /\ Isolated(b, served)
    BY <1>0, <2>1, SameKeeps
  <2> QED BY <2>1, <2>2, <2>3, QuietKeeps
<1> QED BY <1>1, <1>2, <1>3, <1>4, <1>5 DEF OnWorkerEvent

LEMMA KillingKeeps ==
  ASSUME TypeOK, IInv, NEW w \in Workers, NEW c, BrokerOK(c), c.place = broker.place,
         c.task = broker.task, c.appId = broker.appId, c.forks = broker.forks,
         c.cluster = broker.cluster, Handled(KillWorker(c, w)), pipe' = pipe
  PROVE  IInv' /\ HandsOut(broker, broker', served)
<1> DEFINE b == KillWorker(c, w)
<1>0. BrokerOK(broker) /\ Isolated(broker, served) /\ broker.place \in [Workers -> Places]
  BY BrokerOKFromType DEF BrokerOK, BrokerType, IInv
<1>1. Isolated(c, served)
  BY <1>0, SameKeeps
<1>2. /\ BrokerOK(b) /\ Grows(c, b) /\ Isolated(b, served)
      /\ b.place = [c.place EXCEPT ![w] = "none"] /\ b.task = c.task
  BY <1>1, KillWorkerOK, KillKeeps
<1> HIDE DEF b
<1>3. Grows(broker, b)
  BY <1>2 DEF Grows
<1>4. \A v \in Workers : broker.place[v] = "none" => b.place[v] = "none"
  BY <1>0, <1>2
<1>5. Handled(b)
  BY DEF b
<1> QED BY <1>2, <1>3, <1>4, <1>5, QuietKeeps

LEMMA TimerKeeps ==
  ASSUME TypeOK, IInv, NEW w \in Workers,
         OnExpirationTimer(w) \/ OnIdlingTimer(w) \/ KillExpiredWorker(w)
  PROVE  IInv' /\ HandsOut(broker, broker', served)
<1> DEFINE c == [broker EXCEPT !.expireTimer = @ \ {w}]
<1>0. BrokerOK(broker)
  BY BrokerOKFromType
<1>1. /\ BrokerOK(c) /\ c.place = broker.place /\ c.task = broker.task
      /\ c.appId = broker.appId /\ c.forks = broker.forks /\ c.cluster = broker.cluster
  BY <1>0 DEF BrokerOK, BrokerType
<1>2. pipe' = pipe /\ (Handled(KillWorker(c, w)) \/ Handled(KillWorker(broker, w)))
  BY DEF OnExpirationTimer, OnIdlingTimer, KillExpiredWorker, Loop
<1> HIDE DEF c
<1> QED BY <1>0, <1>1, <1>2, KillingKeeps

\* The marks, the end of a loop and the flags of the broker move no worker.
LEMMA MarkingKeeps ==
  ASSUME TypeOK, IInv, NEW b, BrokerOK(b), Handled(b), pipe' = pipe,
         b.place = broker.place, b.task = broker.task, b.appId = broker.appId,
         b.forks = broker.forks, b.cluster = broker.cluster
  PROVE  IInv' /\ HandsOut(broker, broker', served)
<1>1. Grows(broker, b) /\ Isolated(b, served)
  BY BrokerOKFromType, SameKeeps DEF IInv
<1> QED BY <1>1, QuietKeeps

LEMMA LoopsKeep ==
  ASSUME TypeOK, IInv,
         \/ OnHeartbeatTimer \/ EndHeartbeat \/ \E a \in Apps : KillAllAppWorkers(a)
         \/ VisitCachedWorker \/ EndDeploy
  PROVE  IInv' /\ HandsOut(broker, broker', served)
<1>0. BrokerOK(broker)
  BY BrokerOKFromType
<1>1. CASE OnHeartbeatTimer \/ EndHeartbeat \/ EndDeploy
  <2>1. Handled(broker) /\ pipe' = pipe
    BY <1>1 DEF OnHeartbeatTimer, EndHeartbeat, EndDeploy, Loop
  <2> QED BY <1>0, <2>1, MarkingKeeps
<1>2. ASSUME NEW a \in Apps, KillAllAppWorkers(a)
      PROVE  IInv' /\ HandsOut(broker, broker', served)
  <2> DEFINE marked == {w \in broker.cluster : broker.appId[w] = a}
             c == [broker EXCEPT !.toBeRemoved = @ \cup marked]
  <2>1. marked \subseteq Workers
    BY ClusterOfWorkers
  <2>2. /\ BrokerOK(c) /\ c.place = broker.place /\ c.task = broker.task
        /\ c.appId = broker.appId /\ c.forks = broker.forks /\ c.cluster = broker.cluster
    BY <1>0, <2>1 DEF BrokerOK, BrokerType
  <2>3. Handled(c) /\ pipe' = pipe
    BY <1>2 DEF KillAllAppWorkers, Loop
  <2> HIDE DEF c
  <2> QED BY <2>2, <2>3, MarkingKeeps
<1>3. CASE VisitCachedWorker
  <2> DEFINE cached == broker.pool["cached"]
             v == cached[loop.at]
  <2>1. loop \in [of : {"deploy"}, app : Apps, at : Nat \ {0}, len : Nat]
    BY <1>3 DEF VisitCachedWorker, TypeOK, LoopType, NoLoop
  <2>2. loop.at <= Len(cached) => v \in Workers
    BY <1>0, <2>1 DEF BrokerOK, BrokerType, Pools
  <2>3. /\ pipe' = pipe
        /\ Handled(broker) \/ (loop.at <= Len(cached) /\ Handled(KillWorker(broker, v)))
    BY <1>3 DEF VisitCachedWorker, Loop
  <2> QED BY <1>0, <2>2, <2>3, MarkingKeeps, KillingKeeps
<1> QED BY <1>1, <1>2, <1>3

LEMMA RequestKeeps ==
  ASSUME TypeOK, Sound(broker), IInv, (\E t \in Tasks : GetWorkerForTask(t)) \/ Stop \/ EmitReady
  PROVE  IInv' /\ HandsOut(broker, broker', served)
<1>0. BrokerOK(broker)
  BY BrokerOKFromType
<1>1. ASSUME NEW t \in Tasks, GetWorkerForTask(t)
      PROVE  IInv' /\ HandsOut(broker, broker', served)
  <2> DEFINE b == Dispatch(broker, t)
  <2>1. Handled(b) /\ pipe' = pipe /\ broker' = b
    BY <1>1 DEF GetWorkerForTask, Handled
  <2>2. Isolated(broker, served) /\ BrokerOK(b)
    BY <1>0, DispatchOK DEF IInv
  <2>3. Grows(broker, b) /\ Isolated(b, served) /\ LeavesUnplaced(broker, b)
        /\ HandsOut(broker, b, served)
    BY <2>2, DispatchKeeps
  <2> HIDE DEF b
  <2>4. IInv'
    BY <2>1, <2>2, <2>3, HandledKeeps DEF LeavesUnplaced
  <2> QED BY <2>1, <2>3, <2>4
<1>2. CASE Stop \/ EmitReady
  <2>1. PICK b : /\ Handled(b) /\ pipe' = pipe
                 /\ \/ b = [broker EXCEPT !.stopper = IF broker.pool["busy"] = <<>> THEN "done"
                                                      ELSE "waiting"]
                    \/ b = [broker EXCEPT !.ready = FALSE]
    BY <1>2 DEF Stop, EmitReady
  <2>2. /\ BrokerOK(b) /\ b.place = broker.place /\ b.task = broker.task
        /\ b.appId = broker.appId /\ b.forks = broker.forks /\ b.cluster = broker.cluster
    BY <1>0, <2>1, ZenonT(30) DEF BrokerOK, BrokerType
  <2> QED BY <2>1, <2>2, MarkingKeeps
<1> QED BY <1>1, <1>2

----------------------------------------------------------------------------
(* The processes                                                           *)

\* A process announces itself once, when nobody has used it yet, and whatever
\* it sends later is no 'started' message.
LEMMA SendKeeps ==
  ASSUME TypeOK, IInv, NEW w \in Workers, NEW type \in MessageTypes,
         NEW next \in ProcStates \ {"none", "booting"}, Send(w, type, next),
         \/ proc[w] = "booting" /\ type = "started" /\ next = "waiting"
         \/ proc[w] \notin {"none", "booting", "waiting", "dead"} /\ type # "started"
  PROVE  Unspoilt'
<1> DEFINE Messages == [type : MessageTypes, task : Tasks \cup {NoTask}]
           m == [type |-> type, task |-> job[w]]
<1>0. pipe[w] \in Seq(Messages) /\ m \in Messages /\ m.type = type
  BY DEF TypeOK
<1>1. /\ broker' = broker /\ served' = served
      /\ \A v \in Workers : pipe'[v] = IF v = w THEN Append(pipe[w], m) ELSE pipe[v]
      /\ \A v \in Workers : proc'[v] = IF v = w THEN next ELSE proc[v]
  BY DEF Send, TypeOK
<1> HIDE DEF m, Messages
<1>2. pipe'[w] = Append(pipe[w], m)
  BY <1>1
<1>3. \A v \in Workers :
        /\ proc[v] \in {"none", "booting"} => pipe[v] = <<>>
        /\ HasStarted(pipe[v]) => Len(pipe[v]) = 1 /\ proc[v] \in {"waiting", "dead"}
        /\ v > broker.forks => pipe[v] = <<>> /\ proc[v] \in {"none", "dead"}
        /\ Unplaced(v) => broker.place[v] = "none" /\ broker.task[v] = NoTask /\ served[v] = {}
  BY DEF IInv, Unspoilt
<1>4. ~ (w > broker.forks)
  BY <1>3
<1>5. CASE proc[w] = "booting" /\ type = "started" /\ next = "waiting"
  <2>1. broker.place[w] = "none" /\ broker.task[w] = NoTask /\ served[w] = {}
    BY <1>3, <1>5 DEF Unplaced
  <2>2. pipe[w] = <<>> /\ proc'[w] = "waiting"
    BY <1>1, <1>3, <1>5
  <2>3. Len(pipe'[w]) = 1
    BY <1>0, <1>2, <2>2
  <2> QED BY <1>1, <1>3, <1>4, <2>1, <2>2, <2>3 DEF Unspoilt, Unplaced
<1>6. CASE proc[w] \notin {"none", "booting", "waiting", "dead"} /\ type # "started"
  <2>1. ~ HasStarted(pipe[w])
    BY <1>3, <1>6
  <2>2. ~ HasStarted(pipe'[w])
    <3>1. /\ Len(pipe[w]) \in Nat /\ DOMAIN pipe[w] = 1 .. Len(pipe[w])
          /\ DOMAIN pipe'[w] = 1 .. (Len(pipe[w]) + 1)
          /\ \A k \in 1 .. Len(pipe[w]) : pipe'[w][k] = pipe[w][k]
          /\ pipe'[w][Len(pipe[w]) + 1].type = type
      BY <1>0, <1>2
    <3>2. ASSUME NEW k \in DOMAIN pipe'[w] PROVE pipe'[w][k].type # "started"
      <4>1. k \in 1 .. Len(pipe[w]) \/ k = Len(pipe[w]) + 1
        BY <3>1
      <4> QED BY <1>6, <2>1, <3>1, <4>1 DEF HasStarted
    <3> QED BY <3>2 DEF HasStarted
  <2>3. proc'[w] \notin {"none", "booting"}
    BY <1>1
  <2> QED BY <1>1, <1>3, <1>4, <2>2, <2>3 DEF Unspoilt, Unplaced
<1> QED BY <1>5, <1>6

LEMMA ProcessKeeps ==
  ASSUME TypeOK, IInv, NEW w \in Workers, RunWorker(w) \/ Crash(w)
  PROVE  IInv' /\ HandsOut(broker, broker', served)
<1>1. broker' = broker /\ served' = served
  BY DEF RunWorker, Crash, Boot, FinishTask, FailTask, RepeatResult,
         ReportCriticalError, ReportIdling, Send
<1>2. CASE RunWorker(w)
  <2>1. PICK type \in MessageTypes, next \in ProcStates \ {"none", "booting"} :
          /\ Send(w, type, next)
          /\ \/ proc[w] = "booting" /\ type = "started" /\ next = "waiting"
             \/ proc[w] \notin {"none", "booting", "waiting", "dead"} /\ type # "started"
    BY <1>2 DEF RunWorker, Boot, FinishTask, FailTask, RepeatResult,
                ReportCriticalError, ReportIdling, ProcStates, MessageTypes
  <2> QED BY <1>1, <2>1, SendKeeps DEF IInv, Isolated, OneApp, HandsOut
<1>3. CASE Crash(w)
  <2>1. /\ pipe' = pipe /\ proc[w] # "none"
        /\ \A v \in Workers : proc'[v] = IF v = w THEN "dead" ELSE proc[v]
    BY <1>3 DEF Crash, TypeOK
  <2>2. Unspoilt'
    BY <1>1, <2>1 DEF IInv, Unspoilt, Unplaced
  <2> QED BY <1>1, <2>2 DEF IInv, Isolated, OneApp, HandsOut
<1> QED BY <1>2, <1>3

----------------------------------------------------------------------------
(* The theorems                                                            *)

LEMMA InitIsolated == Init => IInv
<1> SUFFICES ASSUME Init PROVE IInv
  OBVIOUS
<1>1. /\ NewBroker.place = [w \in Workers |-> "none"]
      /\ NewBroker.task = [w \in Workers |-> NoTask]
      /\ NewBroker.forks = 0 /\ NewBroker.cluster = {}
  BY DEF NewBroker
<1>2. /\ broker = KeepMinIdleWorkersCount(NewBroker) /\ BrokerOK(broker)
      /\ BrokerOK(NewBroker)
  BY NewBrokerOK, KeepMinIdleOK DEF Init
<1>3. broker.place = NewBroker.place /\ broker.task = NewBroker.task
  BY <1>2, ForkFrame DEF KeepMinIdleWorkersCount
<1>4. /\ \A w \in Workers : /\ pipe[w] = <<>> /\ served[w] = {}
                            /\ broker.place[w] = "none" /\ broker.task[w] = NoTask
      /\ \A w \in Workers : w > broker.forks => proc[w] = "none"
  <2>1. \A w \in Workers : w > broker.forks => w \notin broker.cluster
    BY <1>2 DEF BrokerOK, BrokerType, Workers
  <2> QED BY <1>1, <1>3, <2>1 DEF Init
<1>5. ~ HasStarted(<<>>)
  BY DEF HasStarted
<1>6. Isolated(broker, served) /\ OneApp(served)
  BY <1>4 DEF Isolated, OneApp
<1> QED BY <1>4, <1>5, <1>6 DEF IInv, Unspoilt

LEMMA NextIsolated ==
  TypeOK /\ Sound(broker) /\ IInv /\ [Next]_vars =>
    IInv' /\ HandsOut(broker, broker', served)
<1> SUFFICES ASSUME TypeOK, Sound(broker), IInv, [Next]_vars
             PROVE  IInv' /\ HandsOut(broker, broker', served)
  OBVIOUS
<1>1. CASE UNCHANGED vars
  BY <1>1 DEF vars, processes, IInv, Isolated, OneApp, Unspoilt, Unplaced, HandsOut
<1>2. CASE Next
  BY <1>2, EventKeeps, TimerKeeps, LoopsKeep, RequestKeeps, ProcessKeeps DEF Next
<1> QED BY <1>1, <1>2

LEMMA IsolationInvariant == Spec => [](TypeOK /\ Sound(broker) /\ IInv)
<1>1. TypeOK /\ Sound(broker) /\ IInv /\ [Next]_vars => IInv'
  BY NextIsolated
<1> QED BY <1>1, InitIsolated, SoundInvariant, PTL DEF Spec

\* A process runs the code of one application in its whole life: getWorkerForTask
\* never hands a worker that has run code to a task of another application.
THEOREM ProcessesStayIsolated == Spec => []OneAppPerProcess
<1>1. ASSUME OneApp(served) PROVE OneAppPerProcess
  <2>1. ASSUME NEW w \in Workers PROVE Cardinality(served[w]) <= 1
    <3>1. CASE served[w] = {}
      BY <3>1, FS_EmptySet
    <3>2. CASE served[w] # {}
      <4>1. PICK a : served[w] = {a}
        BY <1>1, <3>2 DEF OneApp
      <4> QED BY <4>1, FS_Singleton
    <3> QED BY <3>1, <3>2
  <2> QED BY <2>1 DEF OneAppPerProcess
<1>2. IInv => OneAppPerProcess
  BY <1>1 DEF IInv
<1> QED BY <1>2, IsolationInvariant, PTL

\* A task gets an unused process, or, when it is cacheable, one that has run only
\* the code of the task's own application.
THEOREM TasksGetFreshOrOwnCache == Spec => FreshOrOwnCache
<1>1. TypeOK /\ Sound(broker) /\ IInv /\ [Next]_vars =>
        [\A w \in Workers :
           broker.task[w] = NoTask /\ broker.task'[w] # NoTask =>
             \/ served[w] = {}
             \/ /\ broker.task'[w] \in Cacheable
                /\ served[w] = {AppOf[broker.task'[w]]}]_vars
  BY NextIsolated DEF HandsOut
<1> QED BY <1>1, IsolationInvariant, PTL DEF Spec, FreshOrOwnCache

=============================================================================
