---------------------------- MODULE AnswerProofs ----------------------------
(***************************************************************************)
(* Answers and timers of WorkersBroker belong to the task that the master  *)
(* holds for the worker, and a marked worker is not cached again, for      *)
(* every value of the constants.                                           *)
(*                                                                         *)
(* AnswersMatchTask rests on what a process works on while it works        *)
(* (Answering), and on 'idling' being its last word: only then may the     *)
(* broker forget the task, and nothing is left in the pipe.                *)
(*                                                                         *)
(* The next part follows the tasks and the processes of the broker: who    *)
(* may be given a task, and that a process that is gone stays gone         *)
(* (BrokerInvariant). The proofs about the master rest on it. So does the  *)
(* last theorem: a process that has failed is not reused.                  *)
(***************************************************************************)
EXTENDS WorkersBrokerProofs

\* TimerBelongsToTask for a broker in the middle of a method, w left aside
TimelyExcept(b, w) ==
  \A v \in (b.expireTimer \ b.killed) \ {w} : b.place[v] = "busy" /\ b.task[v] \in Timed

Timely(b) ==
  \A v \in b.expireTimer \ b.killed : b.place[v] = "busy" /\ b.task[v] \in Timed

\* No task is taken away or exchanged, and no worker enters the cache
OnlyGives(b, c) ==
  \A w \in Workers : /\ b.task[w] # NoTask => c.task[w] = b.task[w]
                     /\ c.place[w] = "cached" => b.place[w] = "cached"

\* A worker enters the cache only by the 'idling' it has sent, and unmarked
CachesIdling(b, c) ==
  \A w \in Workers : b.place[w] # "cached" /\ c.place[w] = "cached" =>
    w \notin b.toBeRemoved /\ pipe[w] # <<>> /\ Head(pipe[w]).type = "idling"

Working == {"running", "processed", "answered", "flushing"}

\* Between the task and its 'idling' a process works on the task that the broker
\* has for it, and so do the messages it has sent
Answering ==
  \A w \in Workers :
    /\ \A i \in DOMAIN pipe[w] :
         /\ pipe[w][i].type # "started" =>
              pipe[w][i].task = broker.task[w] /\ broker.task[w] # NoTask
         /\ pipe[w][i].type = "idling" => i = Len(pipe[w]) /\ proc[w] \notin Working
    /\ proc[w] \in Working =>
         job[w] = broker.task[w] /\ broker.task[w] # NoTask

AInv == Answering /\ Timely(broker)

LEMMA RelocateTimely ==
  ASSUME NEW b, BrokerOK(b), NEW w \in Workers, NEW to \in Places, TimelyExcept(b, w),
         w \in b.expireTimer \ b.killed => to = "busy" /\ b.task[w] \in Timed
  PROVE  /\ Timely(RelocateWorker(b, w, to))
         /\ RelocateWorker(b, w, to).task = b.task
         /\ RelocateWorker(b, w, to).place = [b.place EXCEPT ![w] = to]
<1> DEFINE r == RelocateWorker(b, w, to)
<1>1. /\ r.pool = MovedWorker(b, w, to).pool
      /\ r.place = [b.place EXCEPT ![w] = to]
      /\ r.appsLoad = IF "busy" \in {b.place[w], to}
                      THEN [b.appsLoad EXCEPT ![b.appId[w]] =
                              @ + (IF to = "busy" THEN 1 ELSE -1)]
                      ELSE b.appsLoad
      /\ r.appId = b.appId /\ r.task = b.task
      /\ r.killed = b.killed /\ r.expireTimer = b.expireTimer
  BY RelocateFrame
<1>2. b.place \in [Workers -> Places] /\ b.expireTimer \subseteq Workers
  BY DEF BrokerOK, BrokerType
<1> HIDE DEF r
<1>3. Timely(r)
  BY <1>1, <1>2 DEF Timely, TimelyExcept
<1> QED BY <1>1, <1>3 DEF r

\* What is killed has no timer that counts.
LEMMA KillTimely ==
  ASSUME NEW b, BrokerOK(b), NEW w \in Workers, TimelyExcept(b, w)
  PROVE  /\ Timely(KillWorker(b, w)) /\ KillWorker(b, w).task = b.task
         /\ KillWorker(b, w).place = [b.place EXCEPT ![w] = "none"]
<1> DEFINE r == RelocateWorker(b, w, "none")
           c == KillWorker(b, w)
<1>0. "none" \in Places
  BY DEF Places
<1>1. /\ r.pool = MovedWorker(b, w, "none").pool
      /\ r.place = [b.place EXCEPT ![w] = "none"]
      /\ r.appsLoad = IF "busy" \in {b.place[w], "none"}
                      THEN [b.appsLoad EXCEPT ![b.appId[w]] =
                              @ + (IF "none" = "busy" THEN 1 ELSE -1)]
                      ELSE b.appsLoad
      /\ r.appId = b.appId /\ r.task = b.task
      /\ r.killed = b.killed /\ r.expireTimer = b.expireTimer
  BY <1>0, RelocateFrame
<1>2. BrokerOK(r) /\ b.place \in [Workers -> Places] /\ b.expireTimer \subseteq Workers
  BY RelocateWorkerOK DEF BrokerOK, BrokerType, Places
<1>3. c = [r EXCEPT !.killed = @ \cup {w}]
  BY DEF KillWorker
<1> HIDE DEF r
<1>4. /\ c.place = r.place /\ c.task = r.task
      /\ c.killed = b.killed \cup {w} /\ c.expireTimer = r.expireTimer
  BY <1>1, <1>2, <1>3 DEF BrokerOK, BrokerType
<1> HIDE DEF c
<1>5. Timely(c) /\ c.task = b.task /\ c.place = [b.place EXCEPT ![w] = "none"]
  BY <1>1, <1>2, <1>4 DEF Timely, TimelyExcept
<1> QED BY <1>5 DEF c

\* processTask arms the timer of the worker that becomes busy with the task.
LEMMA ProcessTimely ==
  ASSUME NEW b, BrokerOK(b), NEW t \in Tasks, NEW w \in Workers, Timely(b),
         b.place[w] # "busy"
  PROVE  /\ Timely(ProcessTask(b, t, w))
         /\ ProcessTask(b, t, w).task = [b.task EXCEPT ![w] = t]
         /\ ProcessTask(b, t, w).place = [b.place EXCEPT ![w] = "busy"]
<1> DEFINE d == [b EXCEPT !.expireTimer = IF t \in Timed THEN @ \cup {w} ELSE @,
                          !.task[w] = t]
           c == ProcessTask(b, t, w)
<1>1. /\ BrokerOK(d) /\ d.place = b.place /\ d.task = [b.task EXCEPT ![w] = t]
      /\ d.killed = b.killed
      /\ d.expireTimer = IF t \in Timed THEN b.expireTimer \cup {w} ELSE b.expireTimer
  BY DEF BrokerOK, BrokerType
<1>2. c = RelocateWorker(d, w, "busy") /\ "busy" \in Places
  BY DEF ProcessTask, Places, Pools
<1>3. b.task \in [Workers -> Tasks \cup {NoTask}] /\ b.expireTimer \subseteq Workers
  BY DEF BrokerOK, BrokerType
<1> HIDE DEF d, c
<1>4. TimelyExcept(d, w) /\ (w \in d.expireTimer \ d.killed => d.task[w] \in Timed)
  BY <1>1, <1>3 DEF Timely, TimelyExcept
<1>5. Timely(c)
  BY <1>1, <1>2, <1>4, RelocateTimely
<1>6. c.task = d.task /\ c.place = [d.place EXCEPT ![w] = "busy"]
  BY <1>1, <1>2, RelocatePlaces
<1> QED BY <1>1, <1>5, <1>6 DEF c

LEMMA DispatchTimely ==
  ASSUME NEW b, Sound(b), NEW s, Isolated(b, s), NEW t \in Tasks, Timely(b)
  PROVE  Timely(Dispatch(b, t)) /\ OnlyGives(b, Dispatch(b, t))
<1> DEFINE cached == b.pool["cached"]
           idle   == b.pool["idle"]
           hits   == CachedFor(b, t)
           i      == CHOOSE i \in hits : \A j \in hits : i <= j
           c      == Dispatch(b, t)
<1>0. /\ BrokerOK(b) /\ Placed(b)
      /\ b.place \in [Workers -> Places] /\ b.task \in [Workers -> Tasks \cup {NoTask}]
      /\ idle \in Seq(Workers) /\ cached \in Seq(Workers)
  BY DEF Sound, BrokerOK, BrokerType, Pools
<1>1. ASSUME NEW w \in Workers, NEW d, BrokerOK(d), d.place = b.place, d.task = b.task,
             d.killed = b.killed, d.expireTimer = b.expireTimer,
             b.place[w] \in {"idle", "cached"}, c = ProcessTask(d, t, w)
      PROVE  Timely(c) /\ OnlyGives(b, c)
  <2> HIDE DEF c
  <2>1. Timely(d)
    BY <1>1 DEF Timely
  <2>2. /\ Timely(c) /\ c.task = [d.task EXCEPT ![w] = t]
        /\ c.place = [d.place EXCEPT ![w] = "busy"]
    BY <1>1, <2>1, ProcessTimely
  <2>3. b.task[w] = NoTask
    BY <1>1 DEF Isolated
  <2> QED BY <1>0, <1>1, <2>2, <2>3 DEF OnlyGives
<1>2. CASE hits # {}
  <2>1. hits \subseteq DOMAIN cached /\ hits \in SUBSET Nat
    BY <1>0 DEF CachedFor
  <2>2. i \in hits
    BY <1>2, <2>1, FirstIndex
  <2> DEFINE w == cached[i]
  <2>3. c = ProcessTask(b, t, w)
    BY <1>2 DEF Dispatch
  <2> HIDE DEF i, c
  <2>4. w \in Workers /\ Holds(cached, w)
    BY <1>0, <2>1, <2>2 DEF Holds
  <2>5. b.place[w] = "cached"
    BY <1>0, <2>4 DEF Placed, Pools
  <2> HIDE DEF w
  <2>6. Timely(c) /\ OnlyGives(b, c)
    BY <1>0, <1>1, <2>3, <2>4, <2>5
  <2> QED BY <2>6 DEF c
<1>3. CASE hits = {} /\ idle # <<>>
  <2> DEFINE d == PopIdle(b, t)
             w == idle[Len(idle)]
  <2>1. BrokerOK(d) /\ w \in Workers
    BY <1>0, <1>3, PopIdleOK
  <2>2. Holds(idle, w)
    BY <1>0, <1>3 DEF Holds
  <2>3. b.place[w] = "idle"
    BY <1>0, <2>1, <2>2 DEF Placed, Pools
  <2>4. /\ d.place = b.place /\ d.task = b.task
        /\ d.killed = b.killed /\ d.expireTimer = b.expireTimer
    BY <1>0 DEF PopIdle, BrokerOK, BrokerType
  <2>5. c = ProcessTask(d, t, w)
    BY <1>3 DEF Dispatch
  <2> HIDE DEF c, d, w
  <2>6. Timely(c) /\ OnlyGives(b, c)
    BY <1>1, <2>1, <2>3, <2>4, <2>5
  <2> QED BY <2>6 DEF c
<1>4. CASE hits = {} /\ idle = <<>>
  <2> DEFINE d == EvictLeastActive(b)
  <2>1. /\ Timely(d) /\ d.task = b.task
        /\ \A w \in Workers : d.place[w] = "cached" => b.place[w] = "cached"
    <3> DEFINE v == cached[Len(cached)]
               e == [b EXCEPT !.pool["cached"] = SubSeq(cached, 1, Len(cached) - 1)]
    <3>1. CASE IsCacheEnabled /\ CacheLimit <= Len(cached)
      <4>1. cached # <<>> /\ Len(cached) \in 1 .. Len(cached)
        BY <1>0, <3>1, OptionsAssumption DEF IsCacheEnabled
      <4>2. SubSeq(cached, 1, Len(cached) - 1) \in Seq(Workers) /\ v \in Workers
        BY <1>0, <4>1
      <4>3. /\ BrokerOK(e) /\ e.place = b.place /\ e.task = b.task
            /\ e.killed = b.killed /\ e.expireTimer = b.expireTimer
        BY <1>0, <4>2 DEF BrokerOK, BrokerType
      <4>4. d = KillWorker(e, v)
        BY <3>1 DEF EvictLeastActive
      <4> HIDE DEF d, e, v
      <4>5. TimelyExcept(e, v)
        BY <4>3 DEF Timely, TimelyExcept
      <4>6. Timely(d) /\ d.task = e.task /\ d.place = [e.place EXCEPT ![v] = "none"]
        BY <4>2, <4>3, <4>4, <4>5, KillTimely
      <4> QED BY <1>0, <4>2, <4>3, <4>6
    <3>2. CASE ~ (IsCacheEnabled /\ CacheLimit <= Len(cached))
      BY <3>2 DEF EvictLeastActive
    <3> QED BY <3>1, <3>2
  <2>2. BrokerOK(d)
    BY <1>0, EvictOK
  <2>3. c = StartWorkerFor(d, t)
    BY <1>4 DEF Dispatch
  <2> HIDE DEF c, d
  <2>4. /\ c.place = d.place /\ c.task = d.task
        /\ c.killed = d.killed /\ c.expireTimer = d.expireTimer
    BY <2>2, <2>3 DEF StartWorkerFor, Fork, BrokerOK, BrokerType
  <2>5. Timely(c) /\ OnlyGives(b, c)
    BY <2>1, <2>4 DEF Timely, OnlyGives
  <2> QED BY <2>5 DEF c
<1> QED BY <1>2, <1>3, <1>4

----------------------------------------------------------------------------
(* One step of the master                                                  *)

\* A handler takes at most the first message of a pipe, exchanges no task, and
\* forgets one only when it reads 'idling'
MasterStep(b) ==
  /\ Handled(b) /\ Timely(b)
  /\ \A w \in Workers :
       \/ /\ pipe'[w] = pipe[w] \/ (pipe[w] # <<>> /\ pipe'[w] = Tail(pipe[w]))
          /\ broker.task[w] # NoTask => b.task[w] = broker.task[w]
       \/ /\ pipe[w] # <<>> /\ Head(pipe[w]).type = "idling" /\ pipe'[w] = Tail(pipe[w])
          /\ b.task[w] = NoTask

LEMMA MasterStepAnswers ==
  ASSUME TypeOK, AInv, NEW b, MasterStep(b)
  PROVE  AInv'
<1>1. /\ broker' = b
      /\ \A w \in Workers :
           /\ proc'[w] = CASE w \in b.killed -> "dead"
                           [] w \in b.cluster \ broker.cluster -> "booting"
                           [] w \in Delivered(b) -> "running"
                           [] OTHER -> proc[w]
           /\ job'[w] = IF w \in Delivered(b) THEN b.task[w] ELSE job[w]
  BY DEF MasterStep, Handled
<1>2. ASSUME NEW w \in Workers
      PROVE  /\ \A i \in DOMAIN pipe'[w] :
                  /\ pipe'[w][i].type # "started" =>
                       pipe'[w][i].task = b.task[w] /\ b.task[w] # NoTask
                  /\ pipe'[w][i].type = "idling" =>
                       i = Len(pipe'[w]) /\ proc'[w] \notin Working
             /\ proc'[w] \in Working => job'[w] = b.task[w] /\ b.task[w] # NoTask
  <2> DEFINE q == pipe[w]
  <2>0. /\ q \in Seq([type : MessageTypes, task : Tasks \cup {NoTask}])
        /\ Len(q) \in Nat /\ DOMAIN q = 1 .. Len(q)
    <3> DEFINE M == [type : MessageTypes, task : Tasks \cup {NoTask}]
    <3>1. q \in Seq(M)
      BY DEF TypeOK
    <3> HIDE DEF M, q
    <3>2. Len(q) \in Nat /\ DOMAIN q = 1 .. Len(q)
      BY <3>1
    <3> QED BY <3>1, <3>2 DEF M
  <2>1. /\ \A i \in DOMAIN q :
             /\ q[i].type # "started" => q[i].task = broker.task[w] /\ broker.task[w] # NoTask
             /\ q[i].type = "idling" => i = Len(q) /\ proc[w] \notin Working
        /\ proc[w] \in Working => job[w] = broker.task[w] /\ broker.task[w] # NoTask
    BY DEF AInv, Answering
  <2>2. w \in Delivered(b) => broker.task[w] = NoTask /\ b.task[w] # NoTask
    BY DEF Delivered
  <2>3. proc'[w] \in Working => w \in Delivered(b) \/ (proc[w] \in Working /\ proc'[w] = proc[w])
    BY <1>1 DEF Working
  <2>4. ASSUME q # <<>>
        PROVE  /\ Len(q) > 0 /\ Head(q) = q[1]
               /\ DOMAIN Tail(q) = 1 .. (Len(q) - 1) /\ Len(Tail(q)) = Len(q) - 1
               /\ \A k \in 1 .. (Len(q) - 1) : Tail(q)[k] = q[k + 1]
    <3> DEFINE M == [type : MessageTypes, task : Tasks \cup {NoTask}]
    <3>1. q \in Seq(M)
      BY <2>0
    <3> HIDE DEF M, q
    <3> QED BY <2>0, <2>4, <3>1
  <2>5. CASE /\ pipe'[w] = q \/ (q # <<>> /\ pipe'[w] = Tail(q))
             /\ broker.task[w] # NoTask => b.task[w] = broker.task[w]
    <3>1. proc'[w] \in Working => job'[w] = b.task[w] /\ b.task[w] # NoTask
      BY <1>1, <2>1, <2>2, <2>3, <2>5
    <3>2. ASSUME NEW i \in DOMAIN q
          PROVE  /\ q[i].type # "started" => q[i].task = b.task[w] /\ b.task[w] # NoTask
                 /\ q[i].type = "idling" => i = Len(q) /\ proc'[w] \notin Working
      <4>1. q[i].type # "started" => q[i].task = b.task[w] /\ b.task[w] # NoTask
        BY <2>1, <2>5, <3>2
      <4>2. q[i].type = "idling" => i = Len(q) /\ proc'[w] \notin Working
        BY <2>1, <2>2, <2>3, <3>2
      <4> QED BY <4>1, <4>2
    <3>3. CASE pipe'[w] = q
      BY <3>1, <3>2, <3>3
    <3>4. CASE q # <<>> /\ pipe'[w] = Tail(q)
      <4>1. ASSUME NEW k \in DOMAIN Tail(q)
            PROVE  k + 1 \in DOMAIN q /\ Tail(q)[k] = q[k + 1]
                   /\ (k + 1 = Len(q) => k = Len(Tail(q)))
        BY <2>0, <2>4, <3>4, <4>1
      <4> HIDE DEF q
      <4> QED BY <3>1, <3>2, <3>4, <4>1
    <3> QED BY <2>5, <3>3, <3>4
  <2>6. CASE /\ q # <<>> /\ Head(q).type = "idling" /\ pipe'[w] = Tail(q)
             /\ b.task[w] = NoTask
    <3>0. 1 \in DOMAIN q /\ q[1].type = "idling"
      BY <2>0, <2>4, <2>6
    <3>1. Len(q) = 1 /\ proc[w] \notin Working
      BY <2>1, <3>0
    <3>2. DOMAIN pipe'[w] = 1 .. 0
      BY <2>4, <2>6, <3>1
    <3>3. proc'[w] \notin Working
      BY <2>2, <2>3, <2>6, <3>1
    <3> QED BY <3>2, <3>3
  <2> QED BY <2>5, <2>6 DEF MasterStep
<1>3. Answering'
  BY <1>1, <1>2 DEF Answering
<1>4. Timely(broker')
  BY <1>1 DEF MasterStep
<1> QED BY <1>3, <1>4 DEF AInv, Timely

\* A handler that reads no message.
LEMMA QuietAnswers ==
  ASSUME TypeOK, AInv, NEW b, Handled(b), Timely(b), OnlyGives(broker, b), pipe' = pipe
  PROVE  AInv' /\ CachesIdling(broker, broker')
<1>1. MasterStep(b)
  BY DEF MasterStep, OnlyGives
<1>2. CachesIdling(broker, broker')
  BY DEF CachesIdling, OnlyGives, Handled, TypeOK, BrokerType
<1> QED BY <1>1, <1>2, MasterStepAnswers

LEMMA MessageAnswers ==
  ASSUME TypeOK, AInv, NEW w \in Workers, NEW type, NEW b, OnMessage(w, type, b), Timely(b),
         \/ OnlyGives(broker, b)
         \/ /\ type = "idling" /\ b.task = [broker.task EXCEPT ![w] = NoTask]
            /\ w \notin broker.toBeRemoved /\ b.place = [broker.place EXCEPT ![w] = "cached"]
  PROVE  AInv' /\ CachesIdling(broker, broker')
<1>1. /\ Handled(b) /\ pipe[w] # <<>> /\ Head(pipe[w]).type = type
      /\ \A v \in Workers : pipe'[v] = IF v = w THEN Tail(pipe[w]) ELSE pipe[v]
  BY DEF OnMessage, Read, TypeOK
<1>2. /\ broker.task \in [Workers -> Tasks \cup {NoTask}]
      /\ broker.place \in [Workers -> Places] /\ broker.toBeRemoved \subseteq Workers
  BY DEF TypeOK, BrokerType
<1>3. MasterStep(b)
  BY <1>1, <1>2 DEF MasterStep, OnlyGives
<1>4. CachesIdling(broker, broker')
  BY <1>1, <1>2 DEF CachesIdling, OnlyGives, Handled
<1> QED BY <1>3, <1>4, MasterStepAnswers

LEMMA StartedAnswers ==
  ASSUME TypeOK, Sound(broker), IInv, AInv, NEW w \in Workers, OnWorkerStarted(w)
  PROVE  AInv' /\ CachesIdling(broker, broker')
<1> DEFINE idle    == RelocateWorker(broker, w, "idle")
           started == [idle EXCEPT !.starting = @ - 1, !.waiter[w] = NoTask]
           t       == broker.waiter[w]
           b       == IF t = NoTask THEN started ELSE Dispatch(started, t)
<1>0. /\ BrokerOK(broker) /\ "idle" \in Places /\ t \in Tasks \cup {NoTask}
  BY DEF Sound, BrokerOK, BrokerType, Places, Pools
<1>1. OnMessage(w, "started", b)
  BY DEF OnWorkerStarted
<1>2. Read(w, "started")
  BY <1>1 DEF OnMessage
<1>3. /\ broker.place[w] = "none"
      /\ Sound(started) /\ Isolated(started, served)
      /\ started.place = [broker.place EXCEPT ![w] = "idle"]
      /\ started.task = broker.task
      /\ started.killed = idle.killed /\ started.expireTimer = idle.expireTimer
  BY <1>2, StartedState
<1>4. Timely(idle)
  <2>1. TimelyExcept(broker, w) /\ w \notin broker.expireTimer \ broker.killed
    BY <1>3 DEF AInv, Timely, TimelyExcept
  <2> QED BY <1>0, <2>1, RelocateTimely
<1>5. idle.place = [broker.place EXCEPT ![w] = "idle"] /\ idle.task = broker.task
  BY <1>0, RelocatePlaces
<1> HIDE DEF started, idle
<1>6. Timely(started)
  BY <1>3, <1>4, <1>5 DEF Timely
<1>7. Timely(b) /\ OnlyGives(broker, b)
  <2>0. \A v \in Workers : started.place[v] = "cached" => broker.place[v] = "cached"
    BY <1>0, <1>3 DEF BrokerOK, BrokerType
  <2>1. CASE t = NoTask
    <3>1. b = started
      BY <2>1
    <3> HIDE DEF b
    <3> QED BY <1>3, <1>6, <2>0, <3>1 DEF OnlyGives
  <2>2. CASE t # NoTask
    <3>1. b = Dispatch(started, t) /\ t \in Tasks
      BY <1>0, <2>2
    <3> HIDE DEF b, t
    <3>2. Timely(b) /\ OnlyGives(started, b)
      BY <1>3, <1>6, <3>1, DispatchTimely
    <3> QED BY <1>3, <2>0, <3>2 DEF OnlyGives
  <2> QED BY <2>1, <2>2
<1> HIDE DEF b
<1> QED BY <1>1, <1>7, MessageAnswers

\* Only here is a task forgotten, and its timer with it.
LEMMA IdlingAnswers ==
  ASSUME TypeOK, AInv, NEW w \in Workers, OnWorkerIdling(w)
  PROVE  AInv' /\ CachesIdling(broker, broker')
<1> DEFINE t    == broker.task[w]
           kept == t # NoTask /\ IsKept(t) /\ w \notin broker.toBeRemoved
           c    == [broker EXCEPT !.task[w] = NoTask, !.expireTimer = @ \ {w}]
           r    == RelocateWorker(c, w, "cached")
           b    == IF kept THEN r ELSE KillWorker(broker, w)
<1>0. BrokerOK(broker) /\ "cached" \in Places /\ Timely(broker)
  BY BrokerOKFromType DEF Places, Pools, AInv
<1>1. OnMessage(w, "idling", b)
  BY DEF OnWorkerIdling
<1>2. CASE kept
  <2>1. /\ BrokerOK(c) /\ c.place = broker.place /\ c.killed = broker.killed
        /\ c.task = [broker.task EXCEPT ![w] = NoTask]
        /\ c.expireTimer = broker.expireTimer \ {w}
    BY <1>0 DEF BrokerOK, BrokerType
  <2>2. b = r
    BY <1>2
  <2> HIDE DEF b, c, kept
  <2>3. TimelyExcept(c, w) /\ w \notin c.expireTimer
    BY <1>0, <2>1 DEF Timely, TimelyExcept, BrokerOK, BrokerType
  <2>4. Timely(r) /\ r.task = c.task /\ r.place = [c.place EXCEPT ![w] = "cached"]
    BY <1>0, <2>1, <2>3, RelocateTimely
  <2>5. w \notin broker.toBeRemoved
    BY <1>2 DEF kept
  <2> HIDE DEF r
  <2> QED BY <1>1, <2>1, <2>2, <2>4, <2>5, MessageAnswers
<1>3. CASE ~ kept
  <2>1. b = KillWorker(broker, w)
    BY <1>3
  <2> HIDE DEF b, kept
  <2>2. /\ Timely(b) /\ b.task = broker.task
        /\ b.place = [broker.place EXCEPT ![w] = "none"]
    BY <1>0, <2>1, KillTimely DEF Timely, TimelyExcept
  <2>3. OnlyGives(broker, b)
    BY <1>0, <2>2 DEF OnlyGives, BrokerOK, BrokerType
  <2> QED BY <1>1, <2>2, <2>3, MessageAnswers
<1> QED BY <1>2, <1>3

\* Fields the timers do not depend on may change freely, and a timer may go.
LEMMA SameTimely ==
  ASSUME NEW b, Timely(b), NEW c, c.place = b.place, c.task = b.task,
         c.killed = b.killed, c.expireTimer \subseteq b.expireTimer
  PROVE  Timely(c) /\ OnlyGives(b, c)
BY DEF Timely, OnlyGives

LEMMA EventAnswers ==
  ASSUME TypeOK, Sound(broker), IInv, AInv, NEW w \in Workers, OnWorkerEvent(w)
  PROVE  AInv' /\ CachesIdling(broker, broker')
<1>0. BrokerOK(broker) /\ Timely(broker) /\ "none" \in Places
  BY BrokerOKFromType DEF AInv, Places
<1>1. CASE OnWorkerStarted(w)
  BY <1>1, StartedAnswers
<1>2. CASE OnWorkerTaskProcessed(w)
  <2>1. OnMessage(w, "processed", broker)
    BY <1>2 DEF OnWorkerTaskProcessed
  <2> QED BY <1>0, <2>1, SameTimely, MessageAnswers
<1>3. CASE OnWorkerCriticalError(w)
  <2> DEFINE c == [broker EXCEPT !.toBeRemoved = @ \cup {w}]
  <2>1. /\ c.place = broker.place /\ c.task = broker.task
        /\ c.killed = broker.killed /\ c.expireTimer = broker.expireTimer
    BY <1>0 DEF BrokerOK, BrokerType
  <2>2. OnMessage(w, "criticalError", c)
    BY <1>3 DEF OnWorkerCriticalError
  <2> HIDE DEF c
  <2> QED BY <1>0, <2>1, <2>2, SameTimely, MessageAnswers
<1>4. CASE OnWorkerIdling(w)
  BY <1>4, IdlingAnswers
<1>5. CASE OnWorkerExit(w)
  <2> DEFINE left == [broker EXCEPT !.cluster = IF w \in closed THEN @ \ {w} ELSE @,
                                    !.expireTimer = @ \ {w}]
             r == RelocateWorker(left, w, "none")
             b == IF w \in broker.killed THEN left ELSE r
  <2>1. /\ BrokerOK(left) /\ left.place = broker.place /\ left.task = broker.task
        /\ left.killed = broker.killed /\ left.expireTimer = broker.expireTimer \ {w}
    BY <1>0 DEF BrokerOK, BrokerType
  <2>2. Handled(b) /\ pipe' = pipe
    BY <1>5 DEF OnWorkerExit
  <2>3. b \in {left, r}
    OBVIOUS
  <2> HIDE DEF b, left
  <2>4. Timely(left) /\ OnlyGives(broker, left)
    BY <1>0, <2>1, SameTimely
  <2>5. Timely(r) /\ r.task = left.task /\ r.place = [left.place EXCEPT ![w] = "none"]
    BY <1>0, <2>1, <2>4, RelocateTimely DEF Timely, TimelyExcept
  <2> HIDE DEF r
  <2>6. OnlyGives(broker, r)
    BY <1>0, <2>1, <2>5 DEF OnlyGives, BrokerOK, BrokerType
  <2> QED BY <2>2, <2>3, <2>4, <2>5, <2>6, QuietAnswers
<1>6. CASE OnDisconnect(w)
  <2> DEFINE b == [broker EXCEPT !.cluster = IF w \in exited THEN @ \ {w} ELSE @]
  <2>1. /\ b.place = broker.place /\ b.task = broker.task
        /\ b.killed = broker.killed /\ b.expireTimer = broker.expireTimer
    BY <1>0 DEF BrokerOK, BrokerType
  <2>2. Handled(b) /\ pipe' = pipe
    BY <1>6 DEF OnDisconnect
  <2> HIDE DEF b
  <2> QED BY <1>0, <2>1, <2>2, SameTimely, QuietAnswers
<1> QED BY <1>1, <1>2, <1>3, <1>4, <1>5, <1>6 DEF OnWorkerEvent

LEMMA KillingAnswers ==
  ASSUME TypeOK, AInv, NEW w \in Workers, NEW c, BrokerOK(c), c.place = broker.place,
         c.task = broker.task, c.killed = broker.killed,
         c.expireTimer \subseteq broker.expireTimer,
         Handled(KillWorker(c, w)), pipe' = pipe
  PROVE  AInv' /\ CachesIdling(broker, broker')
<1>1. TimelyExcept(c, w)
  BY DEF AInv, Timely, TimelyExcept
<1>2. /\ Timely(KillWorker(c, w)) /\ KillWorker(c, w).task = broker.task
      /\ KillWorker(c, w).place = [broker.place EXCEPT ![w] = "none"]
  BY <1>1, KillTimely
<1>3. OnlyGives(broker, KillWorker(c, w))
  BY <1>2 DEF OnlyGives, TypeOK, BrokerType
<1> QED BY <1>2, <1>3, QuietAnswers

LEMMA TimerAnswers ==
  ASSUME TypeOK, AInv, NEW w \in Workers,
         OnExpirationTimer(w) \/ OnIdlingTimer(w) \/ KillExpiredWorker(w)
  PROVE  AInv' /\ CachesIdling(broker, broker')
<1> DEFINE c == [broker EXCEPT !.expireTimer = @ \ {w}]
<1>0. BrokerOK(broker)
  BY BrokerOKFromType
<1>1. /\ BrokerOK(c) /\ c.place = broker.place /\ c.task = broker.task
      /\ c.killed = broker.killed /\ c.expireTimer \subseteq broker.expireTimer
  BY <1>0 DEF BrokerOK, BrokerType
<1>2. pipe' = pipe /\ (Handled(KillWorker(c, w)) \/ Handled(KillWorker(broker, w)))
  BY DEF OnExpirationTimer, OnIdlingTimer, KillExpiredWorker, Loop
<1> HIDE DEF c
<1> QED BY <1>0, <1>1, <1>2, KillingAnswers

LEMMA LoopsAnswer ==
  ASSUME TypeOK, AInv,
         \/ OnHeartbeatTimer \/ EndHeartbeat \/ \E a \in Apps : KillAllAppWorkers(a)
         \/ VisitCachedWorker \/ EndDeploy
  PROVE  AInv' /\ CachesIdling(broker, broker')
<1>0. BrokerOK(broker) /\ Timely(broker) /\ OnlyGives(broker, broker)
  BY BrokerOKFromType DEF AInv, OnlyGives
<1>1. CASE OnHeartbeatTimer \/ EndHeartbeat \/ EndDeploy
  <2>1. Handled(broker) /\ pipe' = pipe
    BY <1>1 DEF OnHeartbeatTimer, EndHeartbeat, EndDeploy, Loop
  <2> QED BY <1>0, <2>1, QuietAnswers
<1>2. ASSUME NEW a \in Apps, KillAllAppWorkers(a)
      PROVE  AInv' /\ CachesIdling(broker, broker')
  <2> DEFINE c == [broker EXCEPT !.toBeRemoved =
                                   @ \cup {w \in broker.cluster : broker.appId[w] = a}]
  <2>1. /\ c.place = broker.place /\ c.task = broker.task
        /\ c.killed = broker.killed /\ c.expireTimer = broker.expireTimer
    BY <1>0 DEF BrokerOK, BrokerType
  <2>2. Handled(c) /\ pipe' = pipe
    BY <1>2 DEF KillAllAppWorkers, Loop
  <2> HIDE DEF c
  <2> QED BY <1>0, <2>1, <2>2, SameTimely, QuietAnswers
<1>3. CASE VisitCachedWorker
  <2> DEFINE cached == broker.pool["cached"]
             v == cached[loop.at]
  <2>1. loop \in [of : {"deploy"}, app : Apps, at : Nat \ {0}, len : Nat]
    BY <1>3 DEF VisitCachedWorker, TypeOK, LoopType, NoLoop
  <2>2. loop.at <= Len(cached) => v \in Workers
    BY <1>0, <2>1 DEF BrokerOK, BrokerType, Pools
  <2>3. /\ pipe' = pipe
        /\ Handled(broker) \/ (loop.at <= Len(cached) /\ Handled(KillWorker(broker, v)))
    BY <1>3 DEF VisitCachedWorker, Loop
  <2> HIDE DEF v
  <2> QED BY <1>0, <2>2, <2>3, QuietAnswers, KillingAnswers
<1> QED BY <1>1, <1>2, <1>3

LEMMA RequestAnswers ==
  ASSUME TypeOK, Sound(broker), IInv, AInv,
         (\E t \in Tasks : GetWorkerForTask(t)) \/ Stop \/ EmitReady
  PROVE  AInv' /\ CachesIdling(broker, broker')
<1>0. BrokerOK(broker) /\ Timely(broker) /\ Isolated(broker, served)
  BY BrokerOKFromType DEF AInv, IInv
<1>1. ASSUME NEW t \in Tasks, GetWorkerForTask(t)
      PROVE  AInv' /\ CachesIdling(broker, broker')
  <2>1. Handled(Dispatch(broker, t)) /\ pipe' = pipe
    BY <1>1 DEF GetWorkerForTask
  <2>2. Timely(Dispatch(broker, t)) /\ OnlyGives(broker, Dispatch(broker, t))
    BY <1>0, DispatchTimely
  <2> QED BY <2>1, <2>2, QuietAnswers
<1>2. CASE Stop \/ EmitReady
  <2>1. PICK b : /\ Handled(b) /\ pipe' = pipe
                 /\ \/ b = [broker EXCEPT !.stopper = IF broker.pool["busy"] = <<>> THEN "done"
                                                      ELSE "waiting"]
                    \/ b = [broker EXCEPT !.ready = FALSE]
    BY <1>2 DEF Stop, EmitReady
  <2>2. /\ b.place = broker.place /\ b.task = broker.task
        /\ b.killed = broker.killed /\ b.expireTimer = broker.expireTimer
    BY <1>0, <2>1 DEF BrokerOK, BrokerType
  <2> QED BY <1>0, <2>1, <2>2, SameTimely, QuietAnswers
<1> QED BY <1>1, <1>2

\* What a process sends while it works carries the task it works on, and after
\* 'idling' it sends nothing before it has the next one.
LEMMA SendAnswers ==
  ASSUME TypeOK, IInv, AInv, NEW w \in Workers, NEW type \in MessageTypes,
         NEW next \in ProcStates, Send(w, type, next),
         \/ proc[w] = "booting" /\ type = "started" /\ next = "waiting"
         \/ /\ proc[w] \in Working /\ type # "started"
            /\ IF type = "idling" THEN next = "waiting" ELSE next \in Working
  PROVE  AInv' /\ CachesIdling(broker, broker')
<1> DEFINE q == pipe[w]
           m == [type |-> type, task |-> job[w]]
<1>0. /\ Len(q) \in Nat /\ DOMAIN q = 1 .. Len(q)
      /\ DOMAIN Append(q, m) = 1 .. (Len(q) + 1) /\ Len(Append(q, m)) = Len(q) + 1
      /\ \A k \in 1 .. Len(q) : Append(q, m)[k] = q[k]
      /\ Append(q, m)[Len(q) + 1] = m
  <2> DEFINE M == [type : MessageTypes, task : Tasks \cup {NoTask}]
  <2>1. q \in Seq(M) /\ m \in M
    BY DEF TypeOK
  <2> HIDE DEF M, q, m
  <2> QED BY <2>1
<1>1. /\ broker' = broker /\ job' = job
      /\ \A v \in Workers : pipe'[v] = IF v = w THEN Append(q, m) ELSE pipe[v]
      /\ \A v \in Workers : proc'[v] = IF v = w THEN next ELSE proc[v]
  BY DEF Send, TypeOK
<1>2. \A v \in Workers :
        /\ \A i \in DOMAIN pipe[v] :
             /\ pipe[v][i].type # "started" =>
                  pipe[v][i].task = broker.task[v] /\ broker.task[v] # NoTask
             /\ pipe[v][i].type = "idling" => i = Len(pipe[v]) /\ proc[v] \notin Working
        /\ proc[v] \in Working => job[v] = broker.task[v] /\ broker.task[v] # NoTask
  BY DEF AInv, Answering
<1>3. /\ \A i \in DOMAIN Append(q, m) :
           /\ Append(q, m)[i].type # "started" =>
                Append(q, m)[i].task = broker.task[w] /\ broker.task[w] # NoTask
           /\ Append(q, m)[i].type = "idling" =>
                i = Len(Append(q, m)) /\ next \notin Working
      /\ next \in Working => job[w] = broker.task[w] /\ broker.task[w] # NoTask
  <2>1. m.type = type /\ m.task = job[w]
    OBVIOUS
  <2>2. CASE proc[w] = "booting" /\ type = "started" /\ next = "waiting"
    <3>1. q = <<>>
      BY <2>2 DEF IInv, Unspoilt
    <3>2. Len(q) = 0
      BY <3>1
    <3>3. next \notin Working
      BY <2>2 DEF Working
    <3> HIDE DEF q, m
    <3> QED BY <1>0, <2>1, <2>2, <3>2, <3>3
  <2>3. CASE /\ proc[w] \in Working /\ type # "started"
             /\ IF type = "idling" THEN next = "waiting" ELSE next \in Working
    <3>1. /\ job[w] = broker.task[w] /\ broker.task[w] # NoTask
          /\ \A i \in DOMAIN q : /\ q[i].type # "idling"
                                 /\ q[i].type # "started" => q[i].task = broker.task[w]
      BY <1>2, <2>3
    <3>2. type = "idling" => next \notin Working
      BY <2>3 DEF Working
    <3> HIDE DEF q, m
    <3>3. ASSUME NEW i \in DOMAIN Append(q, m)
          PROVE  /\ Append(q, m)[i].type # "started" => Append(q, m)[i].task = broker.task[w]
                 /\ Append(q, m)[i].type = "idling" =>
                      i = Len(Append(q, m)) /\ next \notin Working
      <4>1. i \in DOMAIN q \/ i = Len(q) + 1
        BY <1>0
      <4>2. CASE i \in DOMAIN q
        BY <1>0, <3>1, <4>2
      <4>3. CASE i = Len(q) + 1
        BY <1>0, <2>1, <3>1, <3>2, <4>3
      <4> QED BY <4>1, <4>2, <4>3
    <3> QED BY <3>1, <3>3
  <2> QED BY <2>2, <2>3
<1> HIDE DEF q, m
<1>4. ASSUME NEW v \in Workers
      PROVE  /\ \A i \in DOMAIN pipe'[v] :
                  /\ pipe'[v][i].type # "started" =>
                       pipe'[v][i].task = broker.task[v] /\ broker.task[v] # NoTask
                  /\ pipe'[v][i].type = "idling" =>
                       i = Len(pipe'[v]) /\ proc'[v] \notin Working
             /\ proc'[v] \in Working => job[v] = broker.task[v] /\ broker.task[v] # NoTask
  <2>1. CASE v = w
    <3>1. pipe'[v] = Append(q, m) /\ proc'[v] = next
      BY <1>1, <2>1
    <3> QED BY <1>3, <2>1, <3>1
  <2>2. CASE v # w
    <3>1. pipe'[v] = pipe[v] /\ proc'[v] = proc[v]
      BY <1>1, <2>2
    <3> QED BY <1>2, <3>1
  <2> QED BY <2>1, <2>2
<1>5. Answering'
  BY <1>1, <1>4 DEF Answering
<1> QED BY <1>1, <1>5 DEF AInv, Timely, CachesIdling

LEMMA ProcessAnswers ==
  ASSUME TypeOK, IInv, AInv, NEW w \in Workers, RunWorker(w) \/ Crash(w)
  PROVE  AInv' /\ CachesIdling(broker, broker')
<1>1. CASE RunWorker(w)
  <2>1. PICK type \in MessageTypes, next \in ProcStates :
          /\ Send(w, type, next)
          /\ \/ proc[w] = "booting" /\ type = "started" /\ next = "waiting"
             \/ /\ proc[w] \in Working /\ type # "started"
                /\ IF type = "idling" THEN next = "waiting" ELSE next \in Working
    BY <1>1 DEF RunWorker, Boot, FinishTask, FailTask, RepeatResult,
                ReportCriticalError, ReportIdling, ProcStates, MessageTypes, Working
  <2> QED BY <2>1, SendAnswers
<1>2. CASE Crash(w)
  <2>1. /\ broker' = broker /\ pipe' = pipe /\ job' = job
        /\ \A v \in Workers : proc'[v] = IF v = w THEN "dead" ELSE proc[v]
    BY <1>2 DEF Crash, TypeOK
  <2>2. Answering'
    BY <2>1 DEF AInv, Answering, Working
  <2> QED BY <2>1, <2>2 DEF AInv, Timely, CachesIdling
<1> QED BY <1>1, <1>2

LEMMA InitAnswers == Init => AInv
<1> SUFFICES ASSUME Init PROVE AInv
  OBVIOUS
<1>1. \A w \in Workers : pipe[w] = <<>> /\ proc[w] \in {"booting", "none"}
  BY DEF Init
<1>2. Answering
  BY <1>1 DEF Answering, Working
<1>3. broker.expireTimer = NewBroker.expireTimer
  BY NewBrokerOK, ForkFrame DEF Init, KeepMinIdleWorkersCount
<1>4. NewBroker.expireTimer = {}
  BY DEF NewBroker
<1> QED BY <1>2, <1>3, <1>4 DEF AInv, Timely

LEMMA NextAnswers ==
  TypeOK /\ Sound(broker) /\ IInv /\ AInv /\ [Next]_vars =>
    AInv' /\ CachesIdling(broker, broker')
<1> SUFFICES ASSUME TypeOK, Sound(broker), IInv, AInv, [Next]_vars
             PROVE  AInv' /\ CachesIdling(broker, broker')
  OBVIOUS
<1>1. CASE UNCHANGED vars
  BY <1>1 DEF vars, processes, AInv, Answering, Timely, CachesIdling
<1>2. CASE Next
  BY <1>2, EventAnswers, TimerAnswers, LoopsAnswer, RequestAnswers, ProcessAnswers DEF Next
<1> QED BY <1>1, <1>2

LEMMA AnswersInvariant == Spec => [](TypeOK /\ Sound(broker) /\ IInv /\ AInv)
<1>1. TypeOK /\ Sound(broker) /\ IInv /\ AInv /\ [Next]_vars => AInv'
  BY NextAnswers
<1> QED BY <1>1, InitAnswers, IsolationInvariant, PTL DEF Spec

\* Whatever a worker reports is about the task the broker holds for it, so that
\* onWorkerTaskProcessed answers the right one.
THEOREM AnswersAlwaysMatchTask == Spec => []AnswersMatchTask
<1>1. AInv => AnswersMatchTask
  BY DEF AInv, Answering, AnswersMatchTask
<1> QED BY <1>1, AnswersInvariant, PTL

\* A timer that can still kill a worker is the one of the task it is busy with.
THEOREM TimersAlwaysBelongToTask == Spec => []TimerBelongsToTask
<1>1. AInv => TimerBelongsToTask
  BY DEF AInv, Timely, TimerBelongsToTask
<1> QED BY <1>1, AnswersInvariant, PTL

\* After a deployment or a critical error a worker ends the task it has and never
\* serves another one from the cache.
THEOREM MarkedStayUncached == Spec => MarkedNeverRecached
<1>1. TypeOK /\ Sound(broker) /\ IInv /\ AInv /\ [Next]_vars =>
        [\A w \in broker.toBeRemoved :
           broker.place'[w] = "cached" => broker.place[w] = "cached"]_vars
  BY NextAnswers DEF CachesIdling, TypeOK, BrokerType
<1> QED BY <1>1, AnswersInvariant, PTL DEF Spec, MarkedNeverRecached

----------------------------------------------------------------------------
(* What the intake needs of the broker: a task goes to one worker, or       *)
(* waits for one new process, and a process that is gone stays gone.        *)

\* Nothing is known of a process that is yet to be forked
Unborn(b) ==
  \A w \in Workers : w > b.forks =>
    /\ b.place[w] = "none" /\ b.waiter[w] = NoTask
    /\ w \notin b.killed /\ w \notin b.idlingTimer

\* Task t is given to a worker that has none, or waits for a new process
Takes(b, c, t) ==
  \/ /\ c.waiter = b.waiter
     /\ \E w \in Workers : b.task[w] = NoTask /\ c.task = [b.task EXCEPT ![w] = t]
  \/ /\ c.task = b.task
     /\ \E n \in c.cluster \ b.cluster :
          /\ b.forks < n /\ n <= c.forks
          /\ c.waiter = [w \in Workers |-> IF w = n THEN t ELSE b.waiter[w]]

LEMMA RelocateTimer ==
  ASSUME NEW b, BrokerOK(b), NEW w \in Workers, NEW to \in Places
  PROVE  RelocateWorker(b, w, to).idlingTimer \subseteq b.idlingTimer \cup {w}
<1> DEFINE moved   == MovedWorker(b, w, to)
           counted == IF "busy" \in {b.place[w], to} THEN CountedWorker(moved, w, to)
                      ELSE moved
           kept    == KeepMinIdleWorkersCount(counted)
<1>1. BrokerOK(moved) /\ BrokerOK(counted)
  BY MovedWorkerOK, CountedWorkerOK
<1>2. moved.idlingTimer \subseteq b.idlingTimer \cup {w}
  BY DEF MovedWorker, BrokerOK, BrokerType
<1> HIDE DEF moved
<1>3. counted.idlingTimer = moved.idlingTimer
  BY <1>1 DEF CountedWorker, BrokerOK, BrokerType
<1>4. RelocateWorker(b, w, to) \in {counted, kept}
  BY DEF RelocateWorker, moved
<1> HIDE DEF counted
<1>5. kept.idlingTimer = counted.idlingTimer
  BY <1>1 DEF KeepMinIdleWorkersCount, Fork, BrokerOK, BrokerType
<1> QED BY <1>2, <1>3, <1>4, <1>5

LEMMA RelocateBorn ==
  ASSUME NEW b, BrokerOK(b), Unborn(b), NEW w \in Workers, w <= b.forks, NEW to \in Places
  PROVE  LET r == RelocateWorker(b, w, to)
         IN  /\ Unborn(r) /\ Grows(b, r) /\ r.task = b.task /\ r.waiter = b.waiter
             /\ r.place = [b.place EXCEPT ![w] = to] /\ r.killed = b.killed
<1> DEFINE r == RelocateWorker(b, w, to)
<1>1. /\ r.pool = MovedWorker(b, w, to).pool
      /\ r.place = [b.place EXCEPT ![w] = to]
      /\ r.appsLoad = IF "busy" \in {b.place[w], to}
                      THEN [b.appsLoad EXCEPT ![b.appId[w]] =
                              @ + (IF to = "busy" THEN 1 ELSE -1)]
                      ELSE b.appsLoad
      /\ r.appId = b.appId
      /\ r.task = b.task /\ r.waiter = b.waiter /\ r.killed = b.killed
  BY RelocateFrame
<1>2. r.idlingTimer \subseteq b.idlingTimer \cup {w}
  BY RelocateTimer
<1>3. Grows(b, r) /\ BrokerOK(r)
  BY RelocateGrows, RelocateWorkerOK
<1> HIDE DEF r
<1>4. b.forks \in Nat /\ r.forks \in Nat /\ b.forks <= r.forks /\ Workers \subseteq Nat
      /\ b.place \in [Workers -> Places]
  BY <1>3 DEF Grows, BrokerOK, BrokerType, Workers
<1>5. Unborn(r)
  BY <1>1, <1>2, <1>4 DEF Unborn
<1> QED BY <1>1, <1>3, <1>5 DEF r

LEMMA KillBorn ==
  ASSUME NEW b, BrokerOK(b), Unborn(b), NEW w \in Workers, w <= b.forks
  PROVE  LET c == KillWorker(b, w)
         IN  Unborn(c) /\ Grows(b, c) /\ c.task = b.task /\ c.waiter = b.waiter
<1> DEFINE r == RelocateWorker(b, w, "none")
           c == KillWorker(b, w)
<1>0. "none" \in Places
  BY DEF Places
<1>1. Unborn(r) /\ Grows(b, r) /\ r.task = b.task /\ r.waiter = b.waiter
      /\ r.place = [b.place EXCEPT ![w] = "none"] /\ r.killed = b.killed
  BY <1>0, RelocateBorn
<1>2. BrokerOK(r)
  BY <1>0, RelocateWorkerOK
<1>3. c = [r EXCEPT !.killed = @ \cup {w}]
  BY DEF KillWorker
<1> HIDE DEF r
<1>4. /\ c.place = r.place /\ c.task = r.task /\ c.waiter = r.waiter
      /\ c.killed = r.killed \cup {w} /\ c.idlingTimer = r.idlingTimer
      /\ c.forks = r.forks /\ c.cluster = r.cluster
  BY <1>2, <1>3 DEF BrokerOK, BrokerType
<1> HIDE DEF c
<1>5. b.forks \in Nat /\ r.forks \in Nat /\ b.forks <= r.forks /\ Workers \subseteq Nat
  BY <1>1, <1>2 DEF Grows, BrokerOK, BrokerType, Workers
<1>6. Unborn(c) /\ Grows(b, c)
  BY <1>1, <1>4, <1>5 DEF Unborn, Grows
<1> QED BY <1>1, <1>4, <1>6 DEF c

LEMMA ProcessBorn ==
  ASSUME NEW b, BrokerOK(b), Unborn(b), NEW t \in Tasks, NEW w \in Workers, w <= b.forks
  PROVE  LET c == ProcessTask(b, t, w)
         IN  Unborn(c) /\ c.waiter = b.waiter /\ c.task = [b.task EXCEPT ![w] = t]
<1> DEFINE d == [b EXCEPT !.expireTimer = IF t \in Timed THEN @ \cup {w} ELSE @,
                          !.task[w] = t]
           c == ProcessTask(b, t, w)
<1>1. /\ BrokerOK(d) /\ d.place = b.place /\ d.task = [b.task EXCEPT ![w] = t]
      /\ d.waiter = b.waiter /\ d.killed = b.killed /\ d.idlingTimer = b.idlingTimer
      /\ d.forks = b.forks
  BY DEF BrokerOK, BrokerType
<1>2. c = RelocateWorker(d, w, "busy") /\ "busy" \in Places
  BY DEF ProcessTask, Places, Pools
<1> HIDE DEF d, c
<1>3. Unborn(d)
  BY <1>1 DEF Unborn
<1>4. /\ Unborn(RelocateWorker(d, w, "busy")) /\ RelocateWorker(d, w, "busy").task = d.task
      /\ RelocateWorker(d, w, "busy").waiter = d.waiter
  BY <1>1, <1>2, <1>3, RelocateBorn, ZenonT(30)
<1> QED BY <1>1, <1>2, <1>4 DEF c

LEMMA EvictBorn ==
  ASSUME NEW b, Sound(b), Unborn(b)
  PROVE  LET d == EvictLeastActive(b)
         IN  Unborn(d) /\ Grows(b, d) /\ d.task = b.task /\ d.waiter = b.waiter
<1> DEFINE cached == b.pool["cached"]
           v == cached[Len(cached)]
           e == [b EXCEPT !.pool["cached"] = SubSeq(cached, 1, Len(cached) - 1)]
           d == EvictLeastActive(b)
<1>0. /\ BrokerOK(b) /\ Placed(b) /\ cached \in Seq(Workers) /\ b.forks \in Nat
      /\ Workers \subseteq Nat
  BY DEF Sound, BrokerOK, BrokerType, Pools, Workers
<1>1. CASE IsCacheEnabled /\ CacheLimit <= Len(cached)
  <2>1. cached # <<>> /\ Len(cached) \in 1 .. Len(cached)
    BY <1>0, <1>1, OptionsAssumption DEF IsCacheEnabled
  <2>2. SubSeq(cached, 1, Len(cached) - 1) \in Seq(Workers) /\ v \in Workers
    BY <1>0, <2>1
  <2>3. Holds(cached, v)
    BY <1>0, <2>1 DEF Holds
  <2>4. /\ BrokerOK(e) /\ e.place = b.place /\ e.task = b.task /\ e.waiter = b.waiter
        /\ e.killed = b.killed /\ e.idlingTimer = b.idlingTimer
        /\ e.forks = b.forks /\ e.cluster = b.cluster
    BY <1>0, <2>2 DEF BrokerOK, BrokerType
  <2>5. d = KillWorker(e, v)
    BY <1>1 DEF EvictLeastActive
  <2> HIDE DEF d, e, v
  <2>6. b.place[v] = "cached"
    BY <1>0, <2>2, <2>3 DEF Placed, Pools
  <2>7. v <= e.forks
    BY <1>0, <2>2, <2>4, <2>6 DEF Unborn
  <2>8. Unborn(e)
    BY <2>4 DEF Unborn
  <2>9. Unborn(d) /\ Grows(e, d) /\ d.task = e.task /\ d.waiter = e.waiter
    BY <2>2, <2>4, <2>5, <2>7, <2>8, KillBorn
  <2>10. Grows(b, d)
    BY <2>4, <2>9 DEF Grows
  <2> QED BY <2>4, <2>9, <2>10 DEF d
<1>2. CASE ~ (IsCacheEnabled /\ CacheLimit <= Len(cached))
  <2>1. d = b
    BY <1>2 DEF EvictLeastActive
  <2>2. Grows(b, b)
    BY <1>0 DEF Grows
  <2> HIDE DEF d
  <2>3. Unborn(d) /\ Grows(b, d) /\ d.task = b.task /\ d.waiter = b.waiter
    BY <2>1, <2>2
  <2> QED BY <2>3 DEF d
<1> QED BY <1>1, <1>2

LEMMA DispatchBorn ==
  ASSUME NEW b, Sound(b), Unborn(b), NEW s, Isolated(b, s), NEW t \in Tasks
  PROVE  Unborn(Dispatch(b, t)) /\ Takes(b, Dispatch(b, t), t)
<1> DEFINE cached == b.pool["cached"]
           idle   == b.pool["idle"]
           hits   == CachedFor(b, t)
           i      == CHOOSE i \in hits : \A j \in hits : i <= j
           c      == Dispatch(b, t)
<1>0. /\ BrokerOK(b) /\ Placed(b) /\ b.forks \in Nat /\ b.cluster \subseteq 1 .. b.forks
      /\ idle \in Seq(Workers) /\ cached \in Seq(Workers) /\ Workers \subseteq Nat
  BY DEF Sound, BrokerOK, BrokerType, Pools, Workers
<1>1. ASSUME NEW w \in Workers, NEW d, BrokerOK(d), d.place = b.place, d.task = b.task,
             d.waiter = b.waiter, d.killed = b.killed, d.idlingTimer = b.idlingTimer,
             d.forks = b.forks, b.place[w] \in {"idle", "cached"}, c = ProcessTask(d, t, w)
      PROVE  Unborn(c) /\ Takes(b, c, t)
  <2> HIDE DEF c
  <2>1. Unborn(d)
    BY <1>1 DEF Unborn
  <2>2. w <= d.forks
    BY <1>0, <1>1 DEF Unborn
  <2>3. Unborn(c) /\ c.waiter = d.waiter /\ c.task = [d.task EXCEPT ![w] = t]
    BY <1>1, <2>1, <2>2, ProcessBorn
  <2>4. b.task[w] = NoTask
    BY <1>1 DEF Isolated
  <2> QED BY <1>1, <2>3, <2>4 DEF Takes
<1>2. CASE hits # {}
  <2>1. hits \subseteq DOMAIN cached /\ hits \in SUBSET Nat
    BY <1>0 DEF CachedFor
  <2>2. i \in hits
    BY <1>2, <2>1, FirstIndex
  <2> DEFINE w == cached[i]
  <2>3. c = ProcessTask(b, t, w)
    BY <1>2 DEF Dispatch
  <2> HIDE DEF i, c
  <2>4. w \in Workers /\ Holds(cached, w)
    BY <1>0, <2>1, <2>2 DEF Holds
  <2>5. b.place[w] = "cached"
    BY <1>0, <2>4 DEF Placed, Pools
  <2> HIDE DEF w
  <2>6. Unborn(c) /\ Takes(b, c, t)
    BY <1>0, <1>1, <2>3, <2>4, <2>5
  <2> QED BY <2>6 DEF c
<1>3. CASE hits = {} /\ idle # <<>>
  <2> DEFINE d == PopIdle(b, t)
             w == idle[Len(idle)]
  <2>1. BrokerOK(d) /\ w \in Workers
    BY <1>0, <1>3, PopIdleOK
  <2>2. Holds(idle, w)
    BY <1>0, <1>3 DEF Holds
  <2>3. b.place[w] = "idle"
    BY <1>0, <2>1, <2>2 DEF Placed, Pools
  <2>4. /\ d.place = b.place /\ d.task = b.task /\ d.waiter = b.waiter
        /\ d.killed = b.killed /\ d.idlingTimer = b.idlingTimer /\ d.forks = b.forks
    BY <1>0 DEF PopIdle, BrokerOK, BrokerType
  <2>5. c = ProcessTask(d, t, w)
    BY <1>3 DEF Dispatch
  <2> HIDE DEF c, d, w
  <2>6. Unborn(c) /\ Takes(b, c, t)
    BY <1>1, <2>1, <2>3, <2>4, <2>5
  <2> QED BY <2>6 DEF c
<1>4. CASE hits = {} /\ idle = <<>>
  <2> DEFINE d == EvictLeastActive(b)
             n == d.forks + 1
  <2>1. Unborn(d) /\ Grows(b, d) /\ d.task = b.task /\ d.waiter = b.waiter
    BY EvictBorn
  <2>2. BrokerOK(d)
    BY <1>0, EvictOK
  <2>3. c = StartWorkerFor(d, t)
    BY <1>4 DEF Dispatch
  <2> HIDE DEF c, d
  <2>4. d.forks \in Nat /\ d.waiter \in [Workers -> Tasks \cup {NoTask}]
    BY <2>2 DEF BrokerOK, BrokerType
  <2>5. /\ c.place = d.place /\ c.task = d.task
        /\ c.killed = d.killed /\ c.idlingTimer = d.idlingTimer
        /\ c.forks = n /\ c.cluster = d.cluster \cup (n .. n)
        /\ c.waiter = [w \in Workers |-> IF w = n THEN t ELSE d.waiter[w]]
    BY <2>2, <2>3, <2>4 DEF StartWorkerFor, Fork, BrokerOK, BrokerType
  <2>6. Unborn(c)
    BY <1>0, <2>1, <2>4, <2>5 DEF Unborn
  <2>7. n \in c.cluster \ b.cluster /\ b.forks < n /\ n <= c.forks
    BY <1>0, <2>1, <2>4, <2>5 DEF Grows
  <2>8. Takes(b, c, t)
    BY <2>1, <2>5, <2>7 DEF Takes
  <2> QED BY <2>6, <2>8 DEF c
<1> QED BY <1>2, <1>3, <1>4

----------------------------------------------------------------------------
(* The handlers of the broker                                              *)

\* What is gone was once forked, and a channel that closed has been read to its
\* end by a master whose worker is dead
Born ==
  /\ Unborn(broker)
  /\ loop.of = "heartbeat" => \A w \in loop.rest : w <= broker.forks
  /\ \A w \in Workers : /\ proc[w] = "dead" => w <= broker.forks
                        /\ w \in closed => proc[w] = "dead" /\ pipe[w] = <<>>

BrokerInv == TypeOK /\ Sound(broker) /\ IInv /\ AInv /\ Born

\* A handler after which every task is where it was
KeepsHolders ==
  /\ Unborn(broker') /\ Grows(broker, broker')
  /\ broker'.waiter = broker.waiter /\ broker'.task = broker.task

LEMMA SameBorn ==
  ASSUME TypeOK, Born, NEW c, c.place = broker.place, c.waiter = broker.waiter,
         c.killed = broker.killed, c.idlingTimer = broker.idlingTimer,
         c.forks = broker.forks, c.cluster \subseteq broker.cluster
  PROVE  Unborn(c) /\ Grows(broker, c)
<1>1. broker.forks \in Nat
  BY DEF TypeOK, BrokerType
<1> QED BY <1>1 DEF Born, Unborn, Grows

LEMMA SameHolders ==
  ASSUME TypeOK, Born, NEW c, broker' = c, c.place = broker.place, c.waiter = broker.waiter,
         c.killed = broker.killed, c.idlingTimer = broker.idlingTimer,
         c.forks = broker.forks, c.cluster \subseteq broker.cluster, c.task = broker.task
  PROVE  KeepsHolders
BY SameBorn DEF KeepsHolders

LEMMA KillingHolds ==
  ASSUME TypeOK, Born, NEW w \in Workers, w <= broker.forks, NEW c, BrokerOK(c),
         c.place = broker.place, c.task = broker.task, c.waiter = broker.waiter,
         c.killed = broker.killed, c.idlingTimer = broker.idlingTimer,
         c.forks = broker.forks, c.cluster = broker.cluster, broker' = KillWorker(c, w)
  PROVE  KeepsHolders
<1> DEFINE b == KillWorker(c, w)
<1>1. Unborn(c)
  BY SameBorn
<1>2. Unborn(b) /\ Grows(c, b) /\ b.task = c.task /\ b.waiter = c.waiter
  BY <1>1, KillBorn
<1> HIDE DEF b
<1>3. Grows(broker, b)
  BY <1>2 DEF Grows
<1>4. broker' = b
  BY DEF b
<1> QED BY <1>2, <1>3, <1>4 DEF KeepsHolders

LEMMA EventHolds ==
  ASSUME BrokerInv, NEW w \in Workers,
         \/ OnWorkerTaskProcessed(w) \/ OnWorkerCriticalError(w)
         \/ OnWorkerExit(w) \/ OnDisconnect(w)
  PROVE  KeepsHolders
<1>0. TypeOK /\ Born /\ BrokerOK(broker) /\ "none" \in Places
  BY BrokerOKFromType DEF BrokerInv, Places
<1>1. CASE OnWorkerTaskProcessed(w)
  <2>1. broker' = broker
    BY <1>1 DEF OnWorkerTaskProcessed, OnMessage, Handled
  <2> QED BY <1>0, <2>1, SameHolders
<1>2. CASE OnWorkerCriticalError(w)
  <2> DEFINE c == [broker EXCEPT !.toBeRemoved = @ \cup {w}]
  <2>1. /\ c.place = broker.place /\ c.waiter = broker.waiter /\ c.killed = broker.killed
        /\ c.idlingTimer = broker.idlingTimer /\ c.forks = broker.forks
        /\ c.cluster = broker.cluster /\ c.task = broker.task
    BY <1>0 DEF BrokerOK, BrokerType
  <2>2. broker' = c
    BY <1>2 DEF OnWorkerCriticalError, OnMessage, Handled
  <2> HIDE DEF c
  <2> QED BY <1>0, <2>1, <2>2, SameHolders
<1>3. CASE OnWorkerExit(w)
  <2> DEFINE left == [broker EXCEPT !.cluster = IF w \in closed THEN @ \ {w} ELSE @,
                                    !.expireTimer = @ \ {w}]
             r == RelocateWorker(left, w, "none")
  <2>1. /\ BrokerOK(left) /\ left.place = broker.place /\ left.waiter = broker.waiter
        /\ left.killed = broker.killed /\ left.idlingTimer = broker.idlingTimer
        /\ left.forks = broker.forks /\ left.cluster \subseteq broker.cluster
        /\ left.task = broker.task
    BY <1>0 DEF BrokerOK, BrokerType
  <2>2. broker' \in {left, r} /\ w <= broker.forks
    BY <1>0, <1>3 DEF OnWorkerExit, Handled, Born
  <2> HIDE DEF left
  <2>3. Unborn(left) /\ Grows(broker, left)
    BY <1>0, <2>1, SameBorn
  <2>4. /\ Unborn(r) /\ Grows(left, r) /\ r.task = left.task /\ r.waiter = left.waiter
        /\ r.place = [left.place EXCEPT ![w] = "none"] /\ r.killed = left.killed
    BY <1>0, <2>1, <2>2, <2>3, RelocateBorn
  <2> HIDE DEF r
  <2>5. Grows(broker, r)
    BY <2>1, <2>4 DEF Grows
  <2> QED BY <2>1, <2>2, <2>3, <2>4, <2>5 DEF KeepsHolders
<1>4. CASE OnDisconnect(w)
  <2> DEFINE c == [broker EXCEPT !.cluster = IF w \in exited THEN @ \ {w} ELSE @]
  <2>1. /\ c.place = broker.place /\ c.waiter = broker.waiter /\ c.killed = broker.killed
        /\ c.idlingTimer = broker.idlingTimer /\ c.forks = broker.forks
        /\ c.cluster \subseteq broker.cluster /\ c.task = broker.task
    BY <1>0 DEF BrokerOK, BrokerType
  <2>2. broker' = c
    BY <1>4 DEF OnDisconnect, Handled
  <2> HIDE DEF c
  <2> QED BY <1>0, <2>1, <2>2, SameHolders
<1> QED BY <1>1, <1>2, <1>3, <1>4

LEMMA TimerHolds ==
  ASSUME BrokerInv, NEW w \in Workers,
         OnExpirationTimer(w) \/ OnIdlingTimer(w) \/ KillExpiredWorker(w)
  PROVE  KeepsHolders
<1> DEFINE c == [broker EXCEPT !.expireTimer = @ \ {w}]
<1>00. TypeOK /\ Born /\ BrokerOK(broker)
  BY BrokerOKFromType DEF BrokerInv
<1>0. TypeOK /\ Born /\ BrokerOK(broker) /\ broker.forks \in Nat /\ Workers \subseteq Nat
  BY <1>00 DEF BrokerOK, BrokerType, Workers
<1>1. /\ BrokerOK(c) /\ c.place = broker.place /\ c.task = broker.task
      /\ c.waiter = broker.waiter /\ c.killed = broker.killed
      /\ c.idlingTimer = broker.idlingTimer
      /\ c.forks = broker.forks /\ c.cluster = broker.cluster
  BY <1>0 DEF BrokerOK, BrokerType
<1>2. broker' = KillWorker(c, w) \/ broker' = KillWorker(broker, w)
  BY DEF OnExpirationTimer, OnIdlingTimer, KillExpiredWorker, Loop, Handled
<1>3. w <= broker.forks
  <2>1. CASE OnExpirationTimer(w)
    <3>1. w \in broker.killed \/ broker.place[w] = "busy"
      BY <2>1 DEF OnExpirationTimer, BrokerInv, AInv, Timely
    <3> QED BY <1>0, <3>1 DEF Born, Unborn
  <2>2. CASE OnIdlingTimer(w)
    BY <1>0, <2>2 DEF OnIdlingTimer, Born, Unborn
  <2>3. CASE KillExpiredWorker(w)
    BY <1>0, <2>3 DEF KillExpiredWorker, Born
  <2> QED BY <2>1, <2>2, <2>3
<1> HIDE DEF c
<1>4. CASE broker' = KillWorker(c, w)
  BY <1>0, <1>1, <1>3, <1>4, KillingHolds
<1>5. CASE broker' = KillWorker(broker, w)
  BY <1>0, <1>3, <1>5, KillingHolds
<1> QED BY <1>2, <1>4, <1>5

LEMMA LoopsHold ==
  ASSUME BrokerInv,
         \/ OnHeartbeatTimer \/ EndHeartbeat \/ \E a \in Apps : KillAllAppWorkers(a)
         \/ VisitCachedWorker \/ EndDeploy \/ Stop \/ EmitReady
  PROVE  KeepsHolders
<1>0. TypeOK /\ Born /\ BrokerOK(broker) /\ Placed(broker)
  BY BrokerOKFromType DEF BrokerInv, Sound
<1>1. ASSUME NEW c, broker' = c, c.place = broker.place, c.waiter = broker.waiter,
             c.killed = broker.killed, c.idlingTimer = broker.idlingTimer,
             c.forks = broker.forks, c.cluster = broker.cluster, c.task = broker.task
      PROVE  KeepsHolders
  BY <1>0, <1>1, SameHolders
<1>2. CASE OnHeartbeatTimer \/ EndHeartbeat \/ EndDeploy
  <2>1. broker' = broker
    BY <1>2 DEF OnHeartbeatTimer, EndHeartbeat, EndDeploy, Loop, Handled
  <2> QED BY <1>1, <2>1
<1>3. ASSUME NEW a \in Apps, KillAllAppWorkers(a)
      PROVE  KeepsHolders
  <2> DEFINE c == [broker EXCEPT !.toBeRemoved =
                                   @ \cup {w \in broker.cluster : broker.appId[w] = a}]
  <2>1. /\ c.place = broker.place /\ c.waiter = broker.waiter /\ c.killed = broker.killed
        /\ c.idlingTimer = broker.idlingTimer /\ c.forks = broker.forks
        /\ c.cluster = broker.cluster /\ c.task = broker.task
    BY <1>0 DEF BrokerOK, BrokerType
  <2>2. broker' = c
    BY <1>3 DEF KillAllAppWorkers, Loop, Handled
  <2> HIDE DEF c
  <2> QED BY <1>1, <2>1, <2>2
<1>4. CASE VisitCachedWorker
  <2> DEFINE cached == broker.pool["cached"]
             v == cached[loop.at]
  <2>1. loop \in [of : {"deploy"}, app : Apps, at : Nat \ {0}, len : Nat]
    BY <1>0, <1>4 DEF VisitCachedWorker, TypeOK, LoopType, NoLoop
  <2>2. cached \in Seq(Workers) /\ broker.forks \in Nat /\ Workers \subseteq Nat
    BY <1>0 DEF BrokerOK, BrokerType, Pools, Workers
  <2>3. loop.at <= Len(cached) => v \in Workers /\ Holds(cached, v)
    BY <2>1, <2>2 DEF Holds
  <2>4. loop.at <= Len(cached) => broker.place[v] = "cached"
    BY <1>0, <2>3 DEF Placed, Pools
  <2>5. broker' = broker \/ (loop.at <= Len(cached) /\ broker' = KillWorker(broker, v))
    BY <1>4 DEF VisitCachedWorker, Loop, Handled
  <2> HIDE DEF v
  <2>6. CASE broker' = broker
    BY <1>1, <2>6
  <2>7. CASE loop.at <= Len(cached) /\ broker' = KillWorker(broker, v)
    <3>1. v \in Workers /\ broker.place[v] = "cached" /\ Unborn(broker)
      BY <1>0, <2>3, <2>4, <2>7 DEF Born
    <3>2. v <= broker.forks
      BY <2>2, <3>1 DEF Unborn
    <3>3. /\ broker.place = broker.place /\ broker.task = broker.task
          /\ broker.waiter = broker.waiter /\ broker.killed = broker.killed
          /\ broker.idlingTimer = broker.idlingTimer
          /\ broker.forks = broker.forks /\ broker.cluster = broker.cluster
      OBVIOUS
    <3> QED BY <1>0, <2>7, <3>1, <3>2, <3>3, KillingHolds
  <2> QED BY <2>5, <2>6, <2>7
<1>5. CASE Stop \/ EmitReady
  <2>1. PICK b : /\ broker' = b
                 /\ \/ b = [broker EXCEPT !.stopper = IF broker.pool["busy"] = <<>> THEN "done"
                                                      ELSE "waiting"]
                    \/ b = [broker EXCEPT !.ready = FALSE]
    BY <1>5 DEF Stop, EmitReady, Handled
  <2>2. /\ b.place = broker.place /\ b.waiter = broker.waiter /\ b.killed = broker.killed
        /\ b.idlingTimer = broker.idlingTimer /\ b.forks = broker.forks
        /\ b.cluster = broker.cluster /\ b.task = broker.task
    BY <1>0, <2>1 DEF BrokerOK, BrokerType
  <2> QED BY <1>1, <2>1, <2>2
<1> QED BY <1>2, <1>3, <1>4, <1>5

\* Task t gets a worker, or waits for one, when s are those that wait besides
GivenTo(s, t) ==
  \/ /\ broker'.waiter = s
     /\ \E w \in Workers : /\ broker.task[w] = NoTask
                           /\ broker'.task = [broker.task EXCEPT ![w] = t]
  \/ /\ broker'.task = broker.task
     /\ \E n \in Workers \cap (broker'.cluster \ broker.cluster) :
          /\ broker.forks < n /\ n <= broker'.forks
          /\ broker'.waiter = [s EXCEPT ![n] = t]

LEMMA IdlingHolds ==
  ASSUME BrokerInv, NEW w \in Workers, OnWorkerIdling(w)
  PROVE  /\ Unborn(broker') /\ Grows(broker, broker') /\ broker'.waiter = broker.waiter
         /\ \A v \in Workers : broker'.task[v] \in {broker.task[v], NoTask}
         /\ \A v \in Workers \ {w} : broker'.task[v] = broker.task[v]
<1> DEFINE c == [broker EXCEPT !.task[w] = NoTask, !.expireTimer = @ \ {w}]
           r == RelocateWorker(c, w, "cached")
<1>0. TypeOK /\ Born /\ BrokerOK(broker) /\ Unspoilt /\ "cached" \in Places
  BY BrokerOKFromType DEF BrokerInv, IInv, Places, Pools
<1>1. broker.forks \in Nat /\ Workers \subseteq Nat
  BY <1>0 DEF BrokerOK, BrokerType, Workers
<1>2. w <= broker.forks
  <2>1. pipe[w] # <<>>
    BY DEF OnWorkerIdling, OnMessage, Read
  <2>2. ~(w > broker.forks)
    BY <1>0, <2>1 DEF Unspoilt
  <2> QED BY <1>1, <2>2
<1>3. /\ BrokerOK(c) /\ c.place = broker.place /\ c.waiter = broker.waiter
      /\ c.killed = broker.killed /\ c.idlingTimer = broker.idlingTimer
      /\ c.forks = broker.forks /\ c.cluster = broker.cluster
      /\ c.task = [broker.task EXCEPT ![w] = NoTask]
  BY <1>0 DEF BrokerOK, BrokerType
<1>4. broker' = r \/ broker' = KillWorker(broker, w)
  BY DEF OnWorkerIdling, OnMessage, Handled
<1>5. broker.task \in [Workers -> Tasks \cup {NoTask}]
  BY <1>0 DEF BrokerOK, BrokerType
<1> HIDE DEF c
<1>6. CASE broker' = r
  <2>1. Unborn(c) /\ Grows(broker, c)
    BY <1>0, <1>3, SameBorn
  <2>2. Unborn(r) /\ Grows(c, r) /\ r.task = c.task /\ r.waiter = c.waiter
    BY <1>0, <1>2, <1>3, <2>1, RelocateBorn
  <2> HIDE DEF r
  <2>3. Grows(broker, r)
    BY <1>3, <2>2 DEF Grows
  <2> QED BY <1>3, <1>5, <1>6, <2>2, <2>3
<1>7. CASE broker' = KillWorker(broker, w)
  <2>1. /\ broker.place = broker.place /\ broker.task = broker.task
        /\ broker.waiter = broker.waiter /\ broker.killed = broker.killed
        /\ broker.idlingTimer = broker.idlingTimer
        /\ broker.forks = broker.forks /\ broker.cluster = broker.cluster
    OBVIOUS
  <2>2. KeepsHolders
    BY <1>0, <1>2, <1>7, <2>1, KillingHolds
  <2> QED BY <2>2 DEF KeepsHolders
<1> QED BY <1>4, <1>6, <1>7

\* What Takes says of the record a method starts from, said of the step
LEMMA TakesGives ==
  ASSUME TypeOK, NEW b, BrokerOK(b), b.task = broker.task, Grows(broker, b),
         NEW t \in Tasks, Takes(b, broker', t), BrokerOK(broker'),
         broker'.forks <= MaxForks
  PROVE  GivenTo(b.waiter, t)
<1>1. CASE /\ broker'.waiter = b.waiter
           /\ \E w \in Workers : b.task[w] = NoTask /\ broker'.task = [b.task EXCEPT ![w] = t]
  BY <1>1 DEF GivenTo
<1>2. CASE /\ broker'.task = b.task
           /\ \E n \in broker'.cluster \ b.cluster :
                /\ b.forks < n /\ n <= broker'.forks
                /\ broker'.waiter = [w \in Workers |-> IF w = n THEN t ELSE b.waiter[w]]
  <2>1. PICK n \in broker'.cluster \ b.cluster :
          /\ b.forks < n /\ n <= broker'.forks
          /\ broker'.waiter = [w \in Workers |-> IF w = n THEN t ELSE b.waiter[w]]
    BY <1>2
  <2>2. /\ broker.forks \in Nat /\ b.forks \in Nat /\ broker'.forks \in Nat
        /\ broker.cluster \subseteq 1 .. broker.forks
        /\ broker'.cluster \subseteq 1 .. broker'.forks
        /\ b.waiter \in [Workers -> Tasks \cup {NoTask}] /\ MaxForks \in Nat
    BY OptionsAssumption DEF TypeOK, BrokerOK, BrokerType
  <2>3. /\ n \in Nat /\ n \in Workers /\ broker.forks < n
        /\ n \in broker'.cluster \ broker.cluster
    BY <2>1, <2>2 DEF Grows, Workers
  <2>4. broker'.waiter = [b.waiter EXCEPT ![n] = t]
    BY <2>1, <2>2, <2>3
  <2> QED BY <1>2, <2>1, <2>3, <2>4 DEF GivenTo
<1> QED BY <1>1, <1>2 DEF Takes

LEMMA RequestHolds ==
  ASSUME BrokerInv, NEW t \in Tasks, GetWorkerForTask(t)
  PROVE  Unborn(broker') /\ Grows(broker, broker') /\ GivenTo(broker.waiter, t)
<1> DEFINE b == Dispatch(broker, t)
<1>0. /\ TypeOK /\ Born /\ BrokerOK(broker) /\ Sound(broker) /\ Isolated(broker, served)
      /\ Unborn(broker)
  BY BrokerOKFromType DEF BrokerInv, IInv, Born
<1>1. Unborn(b) /\ Takes(broker, b, t)
  BY <1>0, DispatchBorn
<1>2. Grows(broker, b) /\ BrokerOK(b)
  BY <1>0, DispatchKeeps, DispatchOK
<1>3. broker' = b /\ b.forks <= MaxForks
  BY DEF GetWorkerForTask, Handled
<1> HIDE DEF b
<1>4. Grows(broker, broker)
  BY <1>0 DEF Grows, BrokerOK, BrokerType
<1>5. GivenTo(broker.waiter, t)
  BY <1>0, <1>1, <1>2, <1>3, <1>4, TakesGives
<1> QED BY <1>1, <1>2, <1>3, <1>5

LEMMA StartedHolds ==
  ASSUME BrokerInv, NEW w \in Workers, OnWorkerStarted(w)
  PROVE  LET t == broker.waiter[w]
             s == [broker.waiter EXCEPT ![w] = NoTask]
         IN  /\ Unborn(broker') /\ Grows(broker, broker')
             /\ t = NoTask => broker'.waiter = broker.waiter /\ broker'.task = broker.task
             /\ t # NoTask => t \in Tasks /\ GivenTo(s, t)
<1> DEFINE idle    == RelocateWorker(broker, w, "idle")
           started == [idle EXCEPT !.starting = @ - 1, !.waiter[w] = NoTask]
           t       == broker.waiter[w]
           s       == [broker.waiter EXCEPT ![w] = NoTask]
           b       == IF t = NoTask THEN started ELSE Dispatch(started, t)
<1>0. /\ TypeOK /\ BrokerOK(broker) /\ Sound(broker) /\ IInv /\ Unborn(broker)
      /\ "idle" \in Places /\ Unspoilt
  BY BrokerOKFromType DEF BrokerInv, IInv, Born, Places, Pools
<1>1. Read(w, "started") /\ broker' = b /\ b.forks <= MaxForks
  BY DEF OnWorkerStarted, OnMessage, Handled
<1>2. /\ broker.forks \in Nat /\ Workers \subseteq Nat
      /\ broker.waiter \in [Workers -> Tasks \cup {NoTask}]
  BY <1>0 DEF BrokerOK, BrokerType, Workers
<1>3. w <= broker.forks
  <2>1. pipe[w] # <<>>
    BY <1>1 DEF Read
  <2>2. ~(w > broker.forks)
    BY <1>0, <2>1 DEF Unspoilt
  <2> QED BY <1>2, <2>2
<1>4. /\ Unborn(idle) /\ Grows(broker, idle) /\ idle.task = broker.task
      /\ idle.waiter = broker.waiter /\ idle.place = [broker.place EXCEPT ![w] = "idle"]
      /\ idle.killed = broker.killed
  BY <1>0, <1>3, RelocateBorn
<1>5. BrokerOK(idle)
  BY <1>0, RelocateWorkerOK
<1>6. /\ Sound(started) /\ Isolated(started, served) /\ Grows(broker, started)
      /\ started.task = broker.task
  BY <1>0, <1>1, StartedState
<1> HIDE DEF idle
<1>7. /\ started.place = idle.place /\ started.killed = idle.killed
      /\ started.idlingTimer = idle.idlingTimer /\ started.forks = idle.forks
      /\ started.waiter = s
  BY <1>4, <1>5 DEF BrokerOK, BrokerType
<1> HIDE DEF started
<1>8. Unborn(started)
  BY <1>2, <1>4, <1>7 DEF Unborn
<1>9. BrokerOK(started)
  BY <1>6 DEF Sound
<1>10. CASE t = NoTask
  <2>1. broker' = started
    BY <1>1, <1>10
  <2>2. s = broker.waiter
    BY <1>2, <1>10
  <2> QED BY <1>6, <1>7, <1>8, <1>10, <2>1, <2>2
<1>11. CASE t # NoTask
  <2>1. t \in Tasks /\ broker' = Dispatch(started, t)
    BY <1>1, <1>2, <1>11
  <2> HIDE DEF t, b, s
  <2>2. Unborn(broker') /\ Takes(started, broker', t)
    BY <1>6, <1>8, <2>1, DispatchBorn
  <2>3. Grows(started, broker') /\ BrokerOK(broker')
    BY <1>6, <1>9, <2>1, DispatchKeeps, DispatchOK
  <2>4. broker'.forks <= MaxForks
    BY <1>1
  <2>5. GivenTo(s, t)
    BY <1>0, <1>6, <1>7, <1>9, <2>1, <2>2, <2>3, <2>4, TakesGives
  <2>6. Grows(broker, broker')
    <3>1. /\ started.forks \in Nat /\ broker'.forks \in Nat /\ broker'.cluster \subseteq Nat
      BY <1>9, <2>3 DEF BrokerOK, BrokerType
    <3> QED BY <1>2, <1>6, <2>3, <3>1 DEF Grows
  <2>7. t # NoTask => t \in Tasks /\ GivenTo(s, t)
    BY <2>1, <2>5
  <2> QED BY <1>11, <2>2, <2>6, <2>7 DEF t, s
<1> QED BY <1>10, <1>11

----------------------------------------------------------------------------
(* Born is an invariant                                                    *)

LEMMA HandledBorn ==
  ASSUME BrokerInv, NEW b, BrokerOK(b), Handled(b), Unborn(b), Grows(broker, b),
         loop'.of = "heartbeat" => \A w \in loop'.rest : w <= broker.forks,
         \A w \in Workers : /\ pipe[w] = <<>> => pipe'[w] = <<>>
                            /\ w \in closed' \ closed => proc[w] = "dead" /\ pipe[w] = <<>>,
         loop' \in LoopType
  PROVE  Born'
<1>1. /\ broker' = b
      /\ \A w \in Workers :
           proc'[w] = CASE w \in b.killed -> "dead"
                        [] w \in b.cluster \ broker.cluster -> "booting"
                        [] w \in Delivered(b) -> "running"
                        [] OTHER -> proc[w]
  BY DEF Handled
<1>2. broker.forks \in Nat /\ b.forks \in Nat /\ Workers \subseteq Nat
  <2>1. BrokerOK(broker)
    BY BrokerOKFromType DEF BrokerInv
  <2> QED BY <2>1 DEF BrokerOK, BrokerType, Workers
<1>3. loop'.of = "heartbeat" => \A w \in loop'.rest : w <= b.forks
  <2> SUFFICES ASSUME loop'.of = "heartbeat" PROVE \A w \in loop'.rest : w <= b.forks
    OBVIOUS
  <2>1. loop'.rest \subseteq Workers /\ \A w \in loop'.rest : w <= broker.forks
    BY DEF LoopType, NoLoop
  <2> TAKE w \in loop'.rest
  <2>2. w \in Nat /\ w <= broker.forks /\ broker.forks <= b.forks
    BY <1>2, <2>1 DEF Grows
  <2> QED BY <1>2, <2>2
<1>4. ASSUME NEW w \in Workers
      PROVE  /\ proc'[w] = "dead" => w <= b.forks
             /\ w \in closed' => proc'[w] = "dead" /\ pipe'[w] = <<>>
  <2>1. /\ w \in b.killed => w <= b.forks
        /\ proc[w] = "dead" => w <= broker.forks
        /\ w \in closed' => proc[w] = "dead" /\ pipe[w] = <<>>
    BY <1>2 DEF Unborn, BrokerInv, Born
  <2>2. proc[w] = "dead" => w \notin b.cluster \ broker.cluster /\ w \notin Delivered(b)
    BY <1>2, <2>1 DEF Grows, Delivered
  <2>3. proc'[w] = "dead" => w \in b.killed \/ proc[w] = "dead"
    BY <1>1
  <2>4. proc[w] = "dead" => proc'[w] = "dead"
    BY <1>1, <2>2
  <2>5. proc'[w] = "dead" => w <= b.forks
    BY <1>2, <2>1, <2>3 DEF Grows
  <2> QED BY <2>1, <2>4, <2>5
<1> QED BY <1>1, <1>3, <1>4 DEF Born

LEMMA ProcessesBorn ==
  ASSUME BrokerInv, NEW w \in Workers, RunWorker(w) \/ Crash(w)
  PROVE  Born'
<1>0. /\ TypeOK /\ Born /\ Unspoilt /\ broker.forks \in Nat /\ Workers \subseteq Nat
  <2>1. BrokerOK(broker)
    BY BrokerOKFromType DEF BrokerInv
  <2> QED BY <2>1 DEF BrokerInv, IInv, BrokerOK, BrokerType, Workers
<1>1. UNCHANGED <<broker, loop, closed>>
  BY DEF RunWorker, Boot, FinishTask, FailTask, RepeatResult, ReportCriticalError,
         ReportIdling, Crash, Send
<1>2. /\ proc[w] \notin {"none", "dead"}
      /\ \E next : proc' = [proc EXCEPT ![w] = next]
      /\ \A v \in Workers \ {w} : pipe'[v] = pipe[v]
  <2>1. CASE Crash(w)
    BY <2>1 DEF Crash
  <2>2. CASE RunWorker(w)
    BY <1>0, <2>2 DEF RunWorker, Boot, FinishTask, FailTask, RepeatResult,
                      ReportCriticalError, ReportIdling, Send, TypeOK
  <2> QED BY <2>1, <2>2
<1>3. w <= broker.forks
  BY <1>0, <1>2 DEF Unspoilt
<1>4. \A v \in Workers \ {w} : proc'[v] = proc[v] /\ pipe'[v] = pipe[v]
  BY <1>0, <1>2 DEF TypeOK
<1>5. w \notin closed
  BY <1>0, <1>2 DEF Born
<1> QED BY <1>0, <1>1, <1>3, <1>4, <1>5 DEF Born, Unborn

LEMMA NextBorn ==
  ASSUME BrokerInv, [Next]_vars, BrokerOK(broker'), TypeOK'
  PROVE  Born'
<1>1. CASE UNCHANGED vars
  <2>1. /\ broker' = broker /\ loop' = loop /\ proc' = proc
        /\ closed' = closed /\ pipe' = pipe
    BY <1>1 DEF vars, processes
  <2>2. Born
    BY DEF BrokerInv
  <2>3. Unborn(broker')
    BY <2>1, <2>2 DEF Born
  <2>4. \A w \in Workers : /\ proc'[w] = "dead" => w <= broker'.forks
                           /\ w \in closed' => proc'[w] = "dead" /\ pipe'[w] = <<>>
    BY <2>1, <2>2 DEF Born
  <2>5. loop'.of = "heartbeat" => \A w \in loop'.rest : w <= broker'.forks
    BY <2>1, <2>2 DEF Born
  <2> QED BY <2>3, <2>4, <2>5 DEF Born
<1>2. ASSUME NEW w \in Workers, RunWorker(w) \/ Crash(w) PROVE Born'
  BY <1>2, ProcessesBorn
<1>3. ASSUME NEW b, Handled(b), Unborn(broker'), Grows(broker, broker'),
             loop' = loop \/ loop' = NoLoop \/ loop'.of = "deploy"
               \/ (loop'.of = "heartbeat" /\ loop'.rest \subseteq broker.cluster)
               \/ (loop.of = "heartbeat" /\ loop'.rest \subseteq loop.rest),
             closed' = closed
               \/ \E w \in Workers : /\ closed' = closed \cup {w}
                                     /\ proc[w] = "dead" /\ pipe[w] = <<>>,
             pipe' = pipe
               \/ \E w \in Workers : pipe[w] # <<>> /\ pipe' = [pipe EXCEPT ![w] = Tail(@)]
      PROVE  Born'
  <2>1. b = broker'
    BY <1>3 DEF Handled
  <2>2. \A w \in Workers : pipe[w] = <<>> => pipe'[w] = <<>>
    BY <1>3 DEF BrokerInv, TypeOK
  <2>3. \A w \in Workers : w \in closed' \ closed => proc[w] = "dead" /\ pipe[w] = <<>>
    BY <1>3
  <2>4. loop'.of = "heartbeat" => \A w \in loop'.rest : w <= broker.forks
    <3>1. broker.cluster \subseteq 1 .. broker.forks /\ broker.forks \in Nat
      BY DEF BrokerInv, TypeOK, BrokerType
    <3>2. loop.of = "heartbeat" => \A w \in loop.rest : w <= broker.forks
      BY DEF BrokerInv, Born
    <3> QED BY <1>3, <3>1, <3>2 DEF NoLoop
  <2>5. loop' \in LoopType
    BY DEF TypeOK
  <2> QED BY <1>3, <2>1, <2>2, <2>3, <2>4, <2>5, HandledBorn
<1>4. ASSUME NEW t \in Tasks, GetWorkerForTask(t) PROVE Born'
  <2>1. Unborn(broker') /\ Grows(broker, broker')
    BY <1>4, RequestHolds
  <2>2. PICK b : Handled(b)
    BY <1>4 DEF GetWorkerForTask
  <2> QED BY <1>3, <1>4, <2>1, <2>2 DEF GetWorkerForTask
<1>5. ASSUME NEW w \in Workers, OnWorkerEvent(w) PROVE Born'
  <2>1. Unborn(broker') /\ Grows(broker, broker')
    BY <1>5, StartedHolds, IdlingHolds, EventHolds DEF OnWorkerEvent, KeepsHolders
  <2>2. PICK b : Handled(b)
    BY <1>5 DEF OnWorkerEvent, OnWorkerStarted, OnWorkerTaskProcessed, OnWorkerCriticalError,
                OnWorkerIdling, OnWorkerExit, OnDisconnect, OnMessage
  <2>3. loop' = loop
    BY <1>5 DEF OnWorkerEvent, OnWorkerStarted, OnWorkerTaskProcessed, OnWorkerCriticalError,
                OnWorkerIdling, OnWorkerExit, OnDisconnect, OnMessage
  <2>4. \/ closed' = closed
        \/ closed' = closed \cup {w} /\ proc[w] = "dead" /\ pipe[w] = <<>>
    BY <1>5 DEF OnWorkerEvent, OnWorkerStarted, OnWorkerTaskProcessed, OnWorkerCriticalError,
                OnWorkerIdling, OnWorkerExit, OnDisconnect, OnMessage
  <2>5. pipe' = pipe \/ (pipe[w] # <<>> /\ pipe' = [pipe EXCEPT ![w] = Tail(@)])
    BY <1>5 DEF OnWorkerEvent, OnWorkerStarted, OnWorkerTaskProcessed, OnWorkerCriticalError,
                OnWorkerIdling, OnWorkerExit, OnDisconnect, OnMessage, Read
  <2> QED BY <1>3, <2>1, <2>2, <2>3, <2>4, <2>5
<1>6. ASSUME NEW w \in Workers, OnExpirationTimer(w) \/ OnIdlingTimer(w) \/ KillExpiredWorker(w)
      PROVE  Born'
  <2>1. Unborn(broker') /\ Grows(broker, broker')
    BY <1>6, TimerHolds DEF KeepsHolders
  <2>2. PICK b : Handled(b)
    BY <1>6 DEF OnExpirationTimer, OnIdlingTimer, KillExpiredWorker, Loop
  <2>3. UNCHANGED <<pipe, closed>>
    BY <1>6 DEF OnExpirationTimer, OnIdlingTimer, KillExpiredWorker, Loop
  <2>4. loop' = loop \/ (loop.of = "heartbeat" /\ loop'.rest \subseteq loop.rest)
    <3>1. CASE OnExpirationTimer(w) \/ OnIdlingTimer(w)
      BY <3>1 DEF OnExpirationTimer, OnIdlingTimer
    <3>2. CASE KillExpiredWorker(w)
      <4>1. loop \in [of : {"heartbeat"}, rest : SUBSET Workers]
        BY <3>2 DEF KillExpiredWorker, BrokerInv, TypeOK, LoopType, NoLoop
      <4>2. loop' = [loop EXCEPT !.rest = {v \in loop.rest : v > w}]
        BY <3>2 DEF KillExpiredWorker, Loop
      <4> QED BY <4>1, <4>2
    <3> QED BY <1>6, <3>1, <3>2
  <2> QED BY <1>3, <2>1, <2>2, <2>3, <2>4
<1>7. CASE \/ OnHeartbeatTimer \/ EndHeartbeat \/ \E a \in Apps : KillAllAppWorkers(a)
           \/ VisitCachedWorker \/ EndDeploy \/ Stop \/ EmitReady
  <2>1. Unborn(broker') /\ Grows(broker, broker')
    BY <1>7, LoopsHold DEF KeepsHolders
  <2>2. PICK b : Handled(b)
    BY <1>7 DEF OnHeartbeatTimer, EndHeartbeat, KillAllAppWorkers, VisitCachedWorker, EndDeploy,
                Stop, EmitReady, Loop
  <2>3. UNCHANGED <<pipe, closed>>
    BY <1>7 DEF OnHeartbeatTimer, EndHeartbeat, KillAllAppWorkers, VisitCachedWorker, EndDeploy,
                Stop, EmitReady, Loop
  <2>4. \/ loop' = loop \/ loop' = NoLoop \/ loop'.of = "deploy"
        \/ loop'.of = "heartbeat" /\ loop'.rest \subseteq broker.cluster
    <3>1. CASE VisitCachedWorker
      <4>1. loop \in [of : {"deploy"}, app : Apps, at : Nat \ {0}, len : Nat]
        BY <3>1 DEF VisitCachedWorker, BrokerInv, TypeOK, LoopType, NoLoop
      <4>2. loop' = [loop EXCEPT !.at = @ + 1]
        BY <3>1 DEF VisitCachedWorker, Loop
      <4> QED BY <4>1, <4>2
    <3>2. ASSUME NEW a \in Apps, KillAllAppWorkers(a) PROVE loop'.of = "deploy"
      BY <3>2 DEF KillAllAppWorkers, Loop
    <3>3. CASE OnHeartbeatTimer
      BY <3>3 DEF OnHeartbeatTimer, Loop
    <3>4. CASE EndHeartbeat \/ EndDeploy
      BY <3>4 DEF EndHeartbeat, EndDeploy, Loop
    <3>5. CASE Stop \/ EmitReady
      BY <3>5 DEF Stop, EmitReady
    <3> QED BY <1>7, <3>1, <3>2, <3>3, <3>4, <3>5
  <2> QED BY <1>3, <2>1, <2>2, <2>3, <2>4
<1> QED BY <1>1, <1>2, <1>4, <1>5, <1>6, <1>7 DEF Next

LEMMA InitBorn == Init => Born
<1> SUFFICES ASSUME Init PROVE Born
  OBVIOUS
<1>1. TypeOK
  BY InitType
<1>2. broker = KeepMinIdleWorkersCount(NewBroker)
  BY DEF Init
<1>3. \A w \in Workers : broker.place[w] = "none" /\ broker.waiter[w] = NoTask
  BY <1>2 DEF KeepMinIdleWorkersCount, Fork, NewBroker
<1>4. broker.killed = {} /\ broker.idlingTimer = {}
  BY <1>2 DEF KeepMinIdleWorkersCount, Fork, NewBroker
<1>5. \A w \in Workers : proc[w] # "dead"
  BY DEF Init
<1>6. loop = NoLoop /\ closed = {}
  BY DEF Init
<1> QED BY <1>3, <1>4, <1>5, <1>6 DEF Born, Unborn, NoLoop

LEMMA BrokerInvariant == Spec => []BrokerInv
<1>1. Init => Born
  BY InitBorn
<1>2. /\ TypeOK /\ Sound(broker) /\ IInv /\ AInv
      /\ (TypeOK /\ Sound(broker) /\ IInv /\ AInv)' /\ Born /\ [Next]_vars
      => Born'
  BY BrokerOKFromType, NextBorn DEF BrokerInv, Sound
<1>3. Spec => [](TypeOK /\ Sound(broker) /\ IInv /\ AInv)
  BY AnswersInvariant
<1>4. Spec => []Born
  BY <1>1, <1>2, <1>3, PTL DEF Spec
<1>5. TypeOK /\ Sound(broker) /\ IInv /\ AInv /\ Born => BrokerInv
  BY DEF BrokerInv
<1> QED BY <1>3, <1>4, <1>5, PTL

----------------------------------------------------------------------------
(* A process is reused only when it was kept: the error of a task reaches   *)
(* the broker before the 'idling' that ends the task, so that the mark is   *)
(* there when the broker decides.                                           *)

HasError(q) == \E i \in DOMAIN q : q[i].type = "criticalError"

\* A process that has reported its error is marked, or the error is on its way;
\* none has one before it runs
Confessing ==
  \A w \in failed :
    /\ proc[w] \notin {"none", "booting"}
    /\ proc[w] \in {"flushing", "waiting"} =>
         w \in broker.toBeRemoved \/ HasError(pipe[w])

\* A process that waits for a task, other than its first, has ended a cacheable
\* one and without an error; until the broker knows, it has the task too
Reusable ==
  \A w \in Workers : proc[w] = "waiting" =>
    IF broker.task[w] = NoTask
    THEN served[w] = {} \/ (w \notin failed /\ job[w] \in Cacheable)
    ELSE job[w] = broker.task[w]

ReuseInv == Confessing /\ Reusable

\* No method of the broker clears a mark.
LEMMA RelocateMarks ==
  ASSUME NEW b, BrokerOK(b), NEW w \in Workers, NEW to \in Places
  PROVE  RelocateWorker(b, w, to).toBeRemoved = b.toBeRemoved
<1> DEFINE r == RelocateWorker(b, w, to)
<1>1. /\ r.pool = MovedWorker(b, w, to).pool
      /\ r.place = [b.place EXCEPT ![w] = to]
      /\ r.appsLoad = IF "busy" \in {b.place[w], to}
                      THEN [b.appsLoad EXCEPT ![b.appId[w]] =
                              @ + (IF to = "busy" THEN 1 ELSE -1)]
                      ELSE b.appsLoad
      /\ r.appId = b.appId /\ r.task = b.task
      /\ r.toBeRemoved = b.toBeRemoved
  BY RelocateFrame
<1> QED BY <1>1

LEMMA KillMarks ==
  ASSUME NEW b, BrokerOK(b), NEW w \in Workers
  PROVE  KillWorker(b, w).toBeRemoved = b.toBeRemoved
<1> DEFINE r == RelocateWorker(b, w, "none")
           c == KillWorker(b, w)
<1>1. "none" \in Places
  BY DEF Places
<1>2. BrokerOK(r) /\ r.toBeRemoved = b.toBeRemoved
  BY <1>1, RelocateMarks, RelocateWorkerOK
<1>3. c = [r EXCEPT !.killed = @ \cup {w}]
  BY DEF KillWorker
<1> HIDE DEF r
<1>4. c.toBeRemoved = r.toBeRemoved
  BY <1>2, <1>3 DEF BrokerOK, BrokerType
<1> QED BY <1>2, <1>4

LEMMA ProcessMarks ==
  ASSUME NEW b, BrokerOK(b), NEW t \in Tasks, NEW w \in Workers
  PROVE  ProcessTask(b, t, w).toBeRemoved = b.toBeRemoved
<1> DEFINE d == [b EXCEPT !.expireTimer = IF t \in Timed THEN @ \cup {w} ELSE @,
                          !.task[w] = t]
<1>1. BrokerOK(d) /\ d.toBeRemoved = b.toBeRemoved
  BY DEF BrokerOK, BrokerType
<1>2. ProcessTask(b, t, w) = RelocateWorker(d, w, "busy") /\ "busy" \in Places
  BY DEF ProcessTask, Places, Pools
<1> HIDE DEF d
<1> QED BY <1>1, <1>2, RelocateMarks

LEMMA EvictMarks ==
  ASSUME NEW b, BrokerOK(b)
  PROVE  EvictLeastActive(b).toBeRemoved = b.toBeRemoved
<1> DEFINE cached == b.pool["cached"]
           v == cached[Len(cached)]
           e == [b EXCEPT !.pool["cached"] = SubSeq(cached, 1, Len(cached) - 1)]
           d == EvictLeastActive(b)
<1>0. cached \in Seq(Workers)
  BY DEF BrokerOK, BrokerType, Pools
<1>1. CASE IsCacheEnabled /\ CacheLimit <= Len(cached)
  <2>1. cached # <<>>
    BY <1>0, <1>1, OptionsAssumption DEF IsCacheEnabled
  <2>2. SubSeq(cached, 1, Len(cached) - 1) \in Seq(Workers) /\ v \in Workers
    BY <1>0, <2>1
  <2>3. BrokerOK(e) /\ e.toBeRemoved = b.toBeRemoved
    BY <2>2 DEF BrokerOK, BrokerType
  <2>4. d = KillWorker(e, v)
    BY <1>1 DEF EvictLeastActive
  <2> HIDE DEF d, e, v
  <2>5. d.toBeRemoved = e.toBeRemoved
    BY <2>2, <2>3, <2>4, KillMarks
  <2> QED BY <2>3, <2>5 DEF d
<1>2. CASE ~ (IsCacheEnabled /\ CacheLimit <= Len(cached))
  BY <1>2 DEF EvictLeastActive
<1> QED BY <1>1, <1>2

\* Handing out a task marks no worker and clears no mark.
LEMMA DispatchMarks ==
  ASSUME NEW b, BrokerOK(b), NEW t \in Tasks
  PROVE  Dispatch(b, t).toBeRemoved = b.toBeRemoved
<1> DEFINE cached == b.pool["cached"]
           idle   == b.pool["idle"]
           hits   == CachedFor(b, t)
           i      == CHOOSE i \in hits : \A j \in hits : i <= j
           c      == Dispatch(b, t)
<1>0. idle \in Seq(Workers) /\ cached \in Seq(Workers)
  BY DEF BrokerOK, BrokerType, Pools
<1>1. CASE hits # {}
  <2>1. hits \subseteq DOMAIN cached /\ hits \in SUBSET Nat
    BY <1>0 DEF CachedFor
  <2>2. i \in hits
    BY <1>1, <2>1, FirstIndex
  <2> DEFINE w == cached[i]
  <2>3. c = ProcessTask(b, t, w)
    BY <1>1 DEF Dispatch
  <2> HIDE DEF i, c
  <2>4. w \in Workers
    BY <1>0, <2>1, <2>2
  <2> HIDE DEF w
  <2>5. c.toBeRemoved = b.toBeRemoved
    BY <2>3, <2>4, ProcessMarks
  <2> QED BY <2>5 DEF c
<1>2. CASE hits = {} /\ idle # <<>>
  <2> DEFINE d == PopIdle(b, t)
             w == idle[Len(idle)]
  <2>1. BrokerOK(d) /\ w \in Workers
    BY <1>2, PopIdleOK
  <2>2. d.toBeRemoved = b.toBeRemoved
    BY DEF PopIdle, BrokerOK, BrokerType
  <2>3. c = ProcessTask(d, t, w)
    BY <1>2 DEF Dispatch
  <2> HIDE DEF c, d, w
  <2>4. c.toBeRemoved = d.toBeRemoved
    BY <2>1, <2>3, ProcessMarks
  <2> QED BY <2>2, <2>4 DEF c
<1>3. CASE hits = {} /\ idle = <<>>
  <2> DEFINE d == EvictLeastActive(b)
  <2>1. BrokerOK(d) /\ d.toBeRemoved = b.toBeRemoved
    BY EvictOK, EvictMarks
  <2>2. c = StartWorkerFor(d, t)
    BY <1>3 DEF Dispatch
  <2> HIDE DEF c, d
  <2>3. c.toBeRemoved = d.toBeRemoved
    BY <2>1, <2>2 DEF StartWorkerFor, Fork, BrokerOK, BrokerType
  <2> QED BY <2>1, <2>3 DEF c
<1> QED BY <1>1, <1>2, <1>3

----------------------------------------------------------------------------
(* One step of the master, seen from a process that waits                   *)

\* Of worker w: a step of the master keeps its marks, reads an error only to
\* mark it, and forgets its task only when it keeps it
Considerate(w) ==
  /\ w \in broker.toBeRemoved => w \in broker'.toBeRemoved
  /\ \/ pipe'[w] = pipe[w]
     \/ /\ pipe[w] # <<>> /\ pipe'[w] = Tail(pipe[w])
        /\ Head(pipe[w]).type = "criticalError" => w \in broker'.toBeRemoved
  /\ \/ broker.task[w] = NoTask
     \/ broker'.task[w] = broker.task[w]
     \/ /\ pipe[w] # <<>> /\ Head(pipe[w]).type = "idling"
        /\ broker'.task[w] = NoTask
        /\ w \notin broker.toBeRemoved /\ broker.task[w] \in Cacheable

\* What becomes of the error of a process that has failed
LEMMA ErrorRead ==
  ASSUME TypeOK, NEW w \in Workers, HasError(pipe[w]), pipe[w] # <<>>
  PROVE  Head(pipe[w]).type = "criticalError" \/ HasError(Tail(pipe[w]))
<1> DEFINE q == pipe[w]
<1>1. q \in Seq([type : MessageTypes, task : Tasks \cup {NoTask}])
  BY DEF TypeOK
<1>2. PICK i \in DOMAIN q : q[i].type = "criticalError"
  BY DEF HasError
<1>3. /\ Len(q) \in Nat /\ DOMAIN q = 1 .. Len(q) /\ Head(q) = q[1]
      /\ DOMAIN Tail(q) = 1 .. (Len(q) - 1)
      /\ \A k \in 1 .. (Len(q) - 1) : Tail(q)[k] = q[k + 1]
  <2> DEFINE M == [type : MessageTypes, task : Tasks \cup {NoTask}]
  <2>1. q \in Seq(M) /\ q # <<>>
    BY <1>1
  <2> HIDE DEF M, q
  <2> QED BY <2>1
<1> HIDE DEF q
<1>4. CASE i = 1
  BY <1>2, <1>3, <1>4 DEF q
<1>5. CASE i # 1
  <2>1. i - 1 \in DOMAIN Tail(q) /\ Tail(q)[i - 1] = q[i]
    BY <1>2, <1>3, <1>5
  <2> QED BY <1>2, <2>1 DEF HasError, q
<1> QED BY <1>4, <1>5

\* Before 'idling' the master has read everything else.
LEMMA ErrorFree ==
  ASSUME TypeOK, AInv, NEW w \in Workers, pipe[w] # <<>>, Head(pipe[w]).type = "idling"
  PROVE  ~ HasError(pipe[w])
<1> DEFINE q == pipe[w]
<1>1. q \in Seq([type : MessageTypes, task : Tasks \cup {NoTask}])
  BY DEF TypeOK
<1>2. Len(q) \in Nat /\ DOMAIN q = 1 .. Len(q) /\ Head(q) = q[1] /\ 1 \in DOMAIN q
  <2> DEFINE M == [type : MessageTypes, task : Tasks \cup {NoTask}]
  <2>1. q \in Seq(M) /\ q # <<>>
    BY <1>1
  <2> HIDE DEF M, q
  <2> QED BY <2>1
<1>3. q[1].type = "idling"
  BY <1>2
<1>4. Len(q) = 1
  BY <1>2, <1>3 DEF AInv, Answering
<1> HIDE DEF q
<1>5. \A i \in DOMAIN q : i = 1
  BY <1>2, <1>4
<1>6. ~ HasError(q)
  BY <1>3, <1>5 DEF HasError
<1> QED BY <1>6 DEF q

\* A step of the master keeps the invariant, and gives a waiting process a task
\* only when it may be reused.
LEMMA MasterReuses ==
  ASSUME BrokerInv, ReuseInv, [Next]_vars, NEW b, Handled(b), failed' = failed,
         Grows(broker, broker'), \A w \in Workers : Considerate(w)
  PROVE  /\ ReuseInv'
         /\ \A w \in Workers :
              served[w] # {} /\ proc[w] = "waiting" /\ proc'[w] = "running" =>
                w \notin failed /\ {job[w], job'[w]} \subseteq Cacheable
<1>0. TypeOK /\ AInv /\ IInv /\ Sound(broker)
  BY DEF BrokerInv
<1>1. /\ broker' = b
      /\ \A w \in Workers :
           /\ proc'[w] = CASE w \in b.killed -> "dead"
                           [] w \in b.cluster \ broker.cluster -> "booting"
                           [] w \in Delivered(b) -> "running"
                           [] OTHER -> proc[w]
           /\ job'[w] = IF w \in Delivered(b) THEN b.task[w] ELSE job[w]
           /\ served'[w] = IF w \in Delivered(b) THEN served[w] \cup {AppOf[b.task[w]]}
                           ELSE served[w]
  BY DEF Handled
<1>2. HandsOut(broker, broker', served)
  BY <1>0, NextIsolated
<1>3. ASSUME NEW w \in Workers
      PROVE  /\ w \in failed' => proc'[w] \notin {"none", "booting"}
             /\ w \in failed' /\ proc'[w] \in {"flushing", "waiting"} =>
                  w \in broker'.toBeRemoved \/ HasError(pipe'[w])
             /\ proc'[w] = "waiting" =>
                  IF broker'.task[w] = NoTask
                  THEN served'[w] = {} \/ (w \notin failed' /\ job'[w] \in Cacheable)
                  ELSE job'[w] = broker'.task[w]
             /\ served[w] # {} /\ proc[w] = "waiting" /\ proc'[w] = "running" =>
                  w \notin failed /\ {job[w], job'[w]} \subseteq Cacheable
  <2>1. Considerate(w)
    OBVIOUS
  <2>2. /\ w \in failed => proc[w] \notin {"none", "booting"}
        /\ w \in failed /\ proc[w] \in {"flushing", "waiting"} =>
             w \in broker.toBeRemoved \/ HasError(pipe[w])
        /\ proc[w] = "waiting" =>
             IF broker.task[w] = NoTask
             THEN served[w] = {} \/ (w \notin failed /\ job[w] \in Cacheable)
             ELSE job[w] = broker.task[w]
    BY DEF ReuseInv, Confessing, Reusable
  <2>3. w \in Delivered(b) <=>
          proc[w] = "waiting" /\ broker.task[w] = NoTask /\ b.task[w] # NoTask
    BY DEF Delivered
  <2>4. /\ proc'[w] \in {"flushing", "waiting"} => proc'[w] = proc[w] /\ w \notin Delivered(b)
        /\ proc'[w] = "running" => proc[w] = "running" \/ w \in Delivered(b)
    BY <1>1
  <2>5. w \in failed' /\ proc'[w] \in {"flushing", "waiting"} =>
          w \in broker'.toBeRemoved \/ HasError(pipe'[w])
    <3> SUFFICES ASSUME w \in failed, proc[w] \in {"flushing", "waiting"}
                 PROVE  w \in broker'.toBeRemoved \/ HasError(pipe'[w])
      BY <2>4
    <3>1. CASE w \in broker.toBeRemoved
      BY <2>1, <3>1 DEF Considerate
    <3>2. CASE HasError(pipe[w])
      BY <1>0, <2>1, <3>2, ErrorRead DEF Considerate
    <3> QED BY <2>2, <3>1, <3>2
  <2>6. proc'[w] = "waiting" =>
          IF broker'.task[w] = NoTask
          THEN served'[w] = {} \/ (w \notin failed' /\ job'[w] \in Cacheable)
          ELSE job'[w] = broker'.task[w]
    <3> SUFFICES ASSUME proc[w] = "waiting", w \notin Delivered(b)
                 PROVE  IF broker'.task[w] = NoTask
                        THEN served[w] = {} \/ (w \notin failed /\ job[w] \in Cacheable)
                        ELSE job[w] = broker'.task[w]
      BY <1>1, <2>4
    <3>1. CASE broker.task[w] = NoTask
      BY <1>1, <2>2, <2>3, <3>1
    <3>2. CASE broker.task[w] # NoTask /\ broker'.task[w] = broker.task[w]
      BY <2>2, <3>2
    <3>3. CASE /\ broker.task[w] # NoTask /\ pipe[w] # <<>> /\ Head(pipe[w]).type = "idling"
               /\ broker'.task[w] = NoTask
        /\ w \notin broker.toBeRemoved /\ broker.task[w] \in Cacheable
               /\ broker'.task[w] = NoTask
      BY <1>0, <2>2, <3>3, ErrorFree
    <3> QED BY <2>1, <3>1, <3>2, <3>3 DEF Considerate
  <2>7. served[w] # {} /\ proc[w] = "waiting" /\ proc'[w] = "running" =>
          w \notin failed /\ {job[w], job'[w]} \subseteq Cacheable
    <3> SUFFICES ASSUME served[w] # {}, proc[w] = "waiting", w \in Delivered(b)
                 PROVE  w \notin failed /\ {job[w], job'[w]} \subseteq Cacheable
      BY <2>4
    <3>1. w \notin failed /\ job[w] \in Cacheable
      BY <2>2, <2>3
    <3>2. broker'.task[w] \in Cacheable
      BY <1>1, <1>2, <2>3 DEF HandsOut
    <3>3. job'[w] = broker'.task[w]
      BY <1>1
    <3> QED BY <3>1, <3>2, <3>3
  <2>8. w \in failed' => proc'[w] \notin {"none", "booting"}
    <3> SUFFICES ASSUME w \in failed, w \in b.cluster \ broker.cluster PROVE FALSE
      BY <1>1, <2>2
    <3>1. w > broker.forks
      BY <1>1 DEF Grows
    <3>2. proc[w] \in {"none", "dead"}
      BY <1>0, <3>1 DEF IInv, Unspoilt
    <3>3. broker.forks \in Nat /\ w \in Nat
      BY <1>0 DEF TypeOK, BrokerType, Workers
    <3>4. proc[w] # "dead"
      BY <3>1, <3>3 DEF BrokerInv, Born
    <3> QED BY <2>2, <3>2, <3>4
  <2> QED BY <2>5, <2>6, <2>7, <2>8
<1>4. failed' \subseteq Workers
  BY <1>0 DEF TypeOK
<1> QED BY <1>3, <1>4 DEF ReuseInv, Confessing, Reusable

\* A handler that reads no message, or one that is not an error, marks what it
\* likes and leaves every task where it is
LEMMA KeepsConsiderate ==
  ASSUME TypeOK, broker.toBeRemoved \subseteq broker'.toBeRemoved,
         \A v \in Workers : broker.task[v] = NoTask \/ broker'.task[v] = broker.task[v],
         \/ pipe' = pipe
         \/ \E w \in Workers :
              /\ pipe[w] # <<>> /\ pipe' = [pipe EXCEPT ![w] = Tail(@)]
              /\ Head(pipe[w]).type = "criticalError" => w \in broker'.toBeRemoved
  PROVE  \A v \in Workers : Considerate(v)
<1>1. CASE pipe' = pipe
  BY <1>1 DEF Considerate
<1>2. ASSUME NEW w \in Workers, pipe[w] # <<>>, pipe' = [pipe EXCEPT ![w] = Tail(@)],
             Head(pipe[w]).type = "criticalError" => w \in broker'.toBeRemoved
      PROVE  \A v \in Workers : Considerate(v)
  <2>1. pipe'[w] = Tail(pipe[w]) /\ \A v \in Workers \ {w} : pipe'[v] = pipe[v]
    BY <1>2 DEF TypeOK
  <2> QED BY <1>2, <2>1 DEF Considerate
<1> QED BY <1>1, <1>2

\* The handlers, one after the other.
LEMMA StartedConsiderate ==
  ASSUME BrokerInv, NEW w \in Workers, OnWorkerStarted(w)
  PROVE  \A v \in Workers : Considerate(v)
<1> DEFINE idle    == RelocateWorker(broker, w, "idle")
           started == [idle EXCEPT !.starting = @ - 1, !.waiter[w] = NoTask]
           t       == broker.waiter[w]
           b       == IF t = NoTask THEN started ELSE Dispatch(started, t)
<1>0. /\ TypeOK /\ BrokerOK(broker) /\ Sound(broker) /\ IInv
      /\ "idle" \in Places /\ t \in Tasks \cup {NoTask}
  BY BrokerOKFromType DEF BrokerInv, Places, Pools, BrokerOK, BrokerType
<1>1. /\ broker' = b /\ pipe[w] # <<>> /\ Head(pipe[w]).type = "started"
      /\ pipe' = [pipe EXCEPT ![w] = Tail(@)] /\ Read(w, "started")
  BY DEF OnWorkerStarted, OnMessage, Handled, Read
<1>2. BrokerOK(idle) /\ idle.toBeRemoved = broker.toBeRemoved
  BY <1>0, RelocateMarks, RelocateWorkerOK
<1>3. Sound(started)
  BY <1>0, <1>1, StartedState
<1> HIDE DEF idle
<1>4. started.toBeRemoved = broker.toBeRemoved
  BY <1>2 DEF BrokerOK, BrokerType
<1> HIDE DEF started
<1>5. b.toBeRemoved = broker.toBeRemoved
  <2>1. CASE t = NoTask
    BY <1>4, <2>1
  <2>2. CASE t # NoTask
    <3>1. t \in Tasks /\ b = Dispatch(started, t) /\ BrokerOK(started)
      BY <1>0, <1>3, <2>2 DEF Sound
    <3> HIDE DEF b, t
    <3> QED BY <1>4, <3>1, DispatchMarks
  <2> QED BY <2>1, <2>2
<1> DEFINE s == [broker.waiter EXCEPT ![w] = NoTask]
<1>6. /\ t = NoTask => broker'.task = broker.task
      /\ t # NoTask => t \in Tasks /\ GivenTo(s, t)
  BY StartedHolds
<1> HIDE DEF b, s, t
<1>7. \A v \in Workers : broker.task[v] = NoTask \/ broker'.task[v] = broker.task[v]
  BY <1>0, <1>6 DEF GivenTo, TypeOK, BrokerType
<1> QED BY <1>0, <1>1, <1>5, <1>7, KeepsConsiderate

LEMMA IdlingConsiderate ==
  ASSUME BrokerInv, NEW w \in Workers, OnWorkerIdling(w)
  PROVE  \A v \in Workers : Considerate(v)
<1> DEFINE t    == broker.task[w]
           kept == t # NoTask /\ IsKept(t) /\ w \notin broker.toBeRemoved
           c    == [broker EXCEPT !.task[w] = NoTask, !.expireTimer = @ \ {w}]
           r    == RelocateWorker(c, w, "cached")
<1>0. TypeOK /\ BrokerOK(broker) /\ "cached" \in Places
  BY BrokerOKFromType DEF BrokerInv, Places, Pools
<1>1. /\ pipe[w] # <<>> /\ Head(pipe[w]).type = "idling"
      /\ pipe' = [pipe EXCEPT ![w] = Tail(@)]
      /\ broker' = IF kept THEN r ELSE KillWorker(broker, w)
  BY DEF OnWorkerIdling, OnMessage, Handled, Read
<1>2. /\ BrokerOK(c) /\ c.toBeRemoved = broker.toBeRemoved
      /\ r.toBeRemoved = c.toBeRemoved
  <2>1. BrokerOK(c) /\ c.toBeRemoved = broker.toBeRemoved
    BY <1>0 DEF BrokerOK, BrokerType
  <2> HIDE DEF c
  <2> QED BY <1>0, <2>1, RelocateMarks
<1>3. KillWorker(broker, w).toBeRemoved = broker.toBeRemoved
  BY <1>0, KillMarks
<1>4. KillWorker(broker, w).task = broker.task
  BY <1>0, KillTimely DEF BrokerInv, AInv, Timely, TimelyExcept
<1>5. \A v \in Workers \ {w} : broker'.task[v] = broker.task[v]
  BY IdlingHolds
<1>6. broker'.task[w] \in {broker.task[w], NoTask}
  BY IdlingHolds
<1>7. kept => w \notin broker.toBeRemoved /\ t \in Cacheable
  BY DEF IsKept
<1> HIDE DEF c, r, kept
<1>8. broker'.toBeRemoved = broker.toBeRemoved
  BY <1>1, <1>2, <1>3
<1>9. broker'.task[w] = broker.task[w] \/ kept
  BY <1>1, <1>4
<1>10. pipe'[w] = Tail(pipe[w]) /\ \A v \in Workers \ {w} : pipe'[v] = pipe[v]
  BY <1>0, <1>1 DEF TypeOK
<1> QED BY <1>1, <1>5, <1>6, <1>7, <1>8, <1>9, <1>10 DEF Considerate

LEMMA EventConsiderate ==
  ASSUME BrokerInv, NEW w \in Workers, OnWorkerEvent(w)
  PROVE  \A v \in Workers : Considerate(v)
<1>0. TypeOK /\ BrokerOK(broker) /\ "none" \in Places
  BY BrokerOKFromType DEF BrokerInv, Places
<1>1. CASE OnWorkerStarted(w)
  BY <1>1, StartedConsiderate
<1>2. CASE OnWorkerIdling(w)
  BY <1>2, IdlingConsiderate
<1>3. CASE OnWorkerTaskProcessed(w)
  <2>1. /\ broker' = broker /\ pipe[w] # <<>> /\ Head(pipe[w]).type = "processed"
        /\ pipe' = [pipe EXCEPT ![w] = Tail(@)]
    BY <1>3 DEF OnWorkerTaskProcessed, OnMessage, Handled, Read
  <2> QED BY <1>0, <2>1, KeepsConsiderate
<1>4. CASE OnWorkerCriticalError(w)
  <2>1. /\ broker' = [broker EXCEPT !.toBeRemoved = @ \cup {w}] /\ pipe[w] # <<>>
        /\ pipe' = [pipe EXCEPT ![w] = Tail(@)]
    BY <1>4 DEF OnWorkerCriticalError, OnMessage, Handled, Read
  <2>2. broker'.toBeRemoved = broker.toBeRemoved \cup {w} /\ broker'.task = broker.task
    BY <1>0, <2>1 DEF BrokerOK, BrokerType
  <2> QED BY <1>0, <2>1, <2>2, KeepsConsiderate
<1>5. CASE OnWorkerExit(w)
  <2> DEFINE left == [broker EXCEPT !.cluster = IF w \in closed THEN @ \ {w} ELSE @,
                                    !.expireTimer = @ \ {w}]
             r == RelocateWorker(left, w, "none")
  <2>1. BrokerOK(left) /\ left.toBeRemoved = broker.toBeRemoved
    BY <1>0 DEF BrokerOK, BrokerType
  <2>2. broker' \in {left, r} /\ pipe' = pipe
    BY <1>5 DEF OnWorkerExit, Handled
  <2> HIDE DEF left
  <2>3. r.toBeRemoved = left.toBeRemoved
    BY <1>0, <2>1, RelocateMarks
  <2>4. broker'.task = broker.task
    BY <1>5, EventHolds DEF KeepsHolders
  <2> HIDE DEF r
  <2> QED BY <1>0, <2>1, <2>2, <2>3, <2>4, KeepsConsiderate
<1>6. CASE OnDisconnect(w)
  <2>1. /\ broker' = [broker EXCEPT !.cluster = IF w \in exited THEN @ \ {w} ELSE @]
        /\ pipe' = pipe
    BY <1>6 DEF OnDisconnect, Handled
  <2>2. broker'.toBeRemoved = broker.toBeRemoved /\ broker'.task = broker.task
    BY <1>0, <2>1 DEF BrokerOK, BrokerType
  <2> QED BY <1>0, <2>1, <2>2, KeepsConsiderate
<1> QED BY <1>1, <1>2, <1>3, <1>4, <1>5, <1>6 DEF OnWorkerEvent

LEMMA TimerConsiderate ==
  ASSUME BrokerInv, NEW w \in Workers,
         OnExpirationTimer(w) \/ OnIdlingTimer(w) \/ KillExpiredWorker(w)
  PROVE  \A v \in Workers : Considerate(v)
<1> DEFINE c == [broker EXCEPT !.expireTimer = @ \ {w}]
<1>0. TypeOK /\ BrokerOK(broker)
  BY BrokerOKFromType DEF BrokerInv
<1>1. BrokerOK(c) /\ c.toBeRemoved = broker.toBeRemoved
  BY <1>0 DEF BrokerOK, BrokerType
<1>2. pipe' = pipe /\ broker' \in {KillWorker(c, w), KillWorker(broker, w)}
  BY DEF OnExpirationTimer, OnIdlingTimer, KillExpiredWorker, Loop, Handled
<1> HIDE DEF c
<1>3. broker'.toBeRemoved = broker.toBeRemoved
  BY <1>0, <1>1, <1>2, KillMarks
<1>4. broker'.task = broker.task
  BY TimerHolds DEF KeepsHolders
<1> QED BY <1>0, <1>2, <1>3, <1>4, KeepsConsiderate

LEMMA LoopsConsiderate ==
  ASSUME BrokerInv,
         \/ OnHeartbeatTimer \/ EndHeartbeat \/ \E a \in Apps : KillAllAppWorkers(a)
         \/ VisitCachedWorker \/ EndDeploy \/ Stop \/ EmitReady
  PROVE  \A v \in Workers : Considerate(v)
<1>0. TypeOK /\ BrokerOK(broker)
  BY BrokerOKFromType DEF BrokerInv
<1>1. pipe' = pipe
  BY DEF OnHeartbeatTimer, EndHeartbeat, KillAllAppWorkers, VisitCachedWorker, EndDeploy,
         Stop, EmitReady, Loop
<1>2. broker'.task = broker.task
  BY LoopsHold DEF KeepsHolders
<1>3. broker.toBeRemoved \subseteq broker'.toBeRemoved
  <2>1. CASE OnHeartbeatTimer \/ EndHeartbeat \/ EndDeploy
    BY <2>1 DEF OnHeartbeatTimer, EndHeartbeat, EndDeploy, Loop, Handled
  <2>2. ASSUME NEW a \in Apps, KillAllAppWorkers(a)
        PROVE  broker.toBeRemoved \subseteq broker'.toBeRemoved
    <3>1. broker' = [broker EXCEPT !.toBeRemoved =
                                     @ \cup {w \in broker.cluster : broker.appId[w] = a}]
      BY <2>2 DEF KillAllAppWorkers, Loop, Handled
    <3> QED BY <1>0, <3>1 DEF BrokerOK, BrokerType
  <2>3. CASE VisitCachedWorker
    <3> DEFINE cached == broker.pool["cached"]
               v == cached[loop.at]
    <3>1. loop \in [of : {"deploy"}, app : Apps, at : Nat \ {0}, len : Nat]
      BY <1>0, <2>3 DEF VisitCachedWorker, TypeOK, LoopType, NoLoop
    <3>2. loop.at <= Len(cached) => v \in Workers
      BY <1>0, <3>1 DEF BrokerOK, BrokerType, Pools
    <3>3. broker' = broker \/ (loop.at <= Len(cached) /\ broker' = KillWorker(broker, v))
      BY <2>3 DEF VisitCachedWorker, Loop, Handled
    <3> HIDE DEF v, cached
    <3> QED BY <1>0, <3>2, <3>3, KillMarks
  <2>4. CASE Stop \/ EmitReady
    <3>1. PICK b : /\ broker' = b
                   /\ \/ b = [broker EXCEPT !.stopper =
                                IF broker.pool["busy"] = <<>> THEN "done" ELSE "waiting"]
                      \/ b = [broker EXCEPT !.ready = FALSE]
      BY <2>4 DEF Stop, EmitReady, Handled
    <3>2. b.toBeRemoved = broker.toBeRemoved
      BY <1>0, <3>1 DEF BrokerOK, BrokerType
    <3> QED BY <3>1, <3>2
  <2> QED BY <2>1, <2>2, <2>3, <2>4
<1> QED BY <1>0, <1>1, <1>2, <1>3, KeepsConsiderate

LEMMA RequestConsiderate ==
  ASSUME BrokerInv, NEW t \in Tasks, GetWorkerForTask(t)
  PROVE  \A v \in Workers : Considerate(v)
<1>0. TypeOK /\ BrokerOK(broker)
  BY BrokerOKFromType DEF BrokerInv
<1>1. broker' = Dispatch(broker, t) /\ pipe' = pipe
  BY DEF GetWorkerForTask, Handled
<1>2. broker'.toBeRemoved = broker.toBeRemoved
  BY <1>0, <1>1, DispatchMarks
<1>3. GivenTo(broker.waiter, t)
  BY RequestHolds
<1>4. \A v \in Workers : broker.task[v] = NoTask \/ broker'.task[v] = broker.task[v]
  BY <1>0, <1>3 DEF GivenTo, TypeOK, BrokerType
<1> QED BY <1>0, <1>1, <1>2, <1>4, KeepsConsiderate

----------------------------------------------------------------------------
(* The steps of the processes                                               *)

\* What a process sends: its error before 'idling', and 'idling' unfailed or after it.
LEMMA SendReuses ==
  ASSUME BrokerInv, ReuseInv, NEW w \in Workers, NEW type \in MessageTypes,
         NEW next \in ProcStates \ {"none", "booting", "running"}, Send(w, type, next),
         failed' \in {failed, failed \cup {w}},
         next = "waiting" => failed' = failed /\ (proc[w] \in Working \/ proc[w] = "booting"),
         next = "waiting" /\ w \in failed => proc[w] = "flushing",
         next = "flushing" => type = "criticalError",
         proc[w] = "booting" => next = "waiting"
  PROVE  /\ ReuseInv'
         /\ \A v \in Workers : ~ (proc[v] = "waiting" /\ proc'[v] = "running")
<1>0. TypeOK /\ AInv /\ Unspoilt
  BY DEF BrokerInv, IInv
<1> DEFINE m == [type |-> type, task |-> job[w]]
<1>1. /\ broker' = broker /\ job' = job /\ served' = served
      /\ pipe'[w] = Append(pipe[w], m) /\ proc'[w] = next
      /\ \A v \in Workers \ {w} : proc'[v] = proc[v] /\ pipe'[v] = pipe[v]
  BY <1>0 DEF Send, TypeOK
<1>2. /\ HasError(pipe[w]) => HasError(pipe'[w])
      /\ type = "criticalError" => HasError(pipe'[w])
  <2> DEFINE q == pipe[w]
  <2>1. /\ DOMAIN q = 1 .. Len(q) /\ Len(q) \in Nat
        /\ DOMAIN Append(q, m) = 1 .. (Len(q) + 1)
        /\ \A k \in 1 .. Len(q) : Append(q, m)[k] = q[k]
        /\ Append(q, m)[Len(q) + 1] = m
    <3> DEFINE M == [type : MessageTypes, task : Tasks \cup {NoTask}]
    <3>1. q \in Seq(M) /\ m \in M
      BY <1>0 DEF TypeOK
    <3> HIDE DEF M, q, m
    <3> QED BY <3>1
  <2>2. m.type = type /\ Len(q) + 1 \in DOMAIN Append(q, m)
    BY <2>1
  <2>3. DOMAIN q \subseteq DOMAIN Append(q, m)
    BY <2>1
  <2> HIDE DEF q, m
  <2>4. pipe'[w] = Append(q, m)
    BY <1>1 DEF q, m
  <2>5. HasError(q) => HasError(Append(q, m))
    BY <2>1, <2>3 DEF HasError
  <2>6. type = "criticalError" => HasError(Append(q, m))
    BY <2>1, <2>2 DEF HasError
  <2> QED BY <2>4, <2>5, <2>6 DEF q
<1> HIDE DEF m
<1>3. ASSUME NEW v \in failed'
      PROVE  /\ proc'[v] \notin {"none", "booting"}
             /\ proc'[v] \in {"flushing", "waiting"} =>
                  v \in broker.toBeRemoved \/ HasError(pipe'[v])
  <2>1. CASE v = w
    <3>1. next = "waiting" => v \in failed /\ proc[w] = "flushing"
      BY <1>3, <2>1
    <3> QED BY <1>1, <1>2, <2>1, <3>1 DEF ReuseInv, Confessing
  <2>2. CASE v # w
    <3>1. v \in failed /\ v \in Workers
      BY <1>0, <1>3, <2>2 DEF TypeOK
    <3> QED BY <1>1, <2>2, <3>1 DEF ReuseInv, Confessing
  <2> QED BY <2>1, <2>2
<1>4. ASSUME NEW v \in Workers, proc'[v] = "waiting"
      PROVE  IF broker.task[v] = NoTask
             THEN served[v] = {} \/ (v \notin failed' /\ job[v] \in Cacheable)
             ELSE job[v] = broker.task[v]
  <2>1. CASE v = w /\ proc[w] = "booting"
    <3>1. Unplaced(w)
      BY <2>1 DEF Unplaced
    <3> QED BY <1>0, <2>1, <3>1 DEF Unspoilt
  <2>2. CASE v = w /\ proc[w] \in Working
    BY <1>0, <2>2 DEF AInv, Answering
  <2>3. CASE v # w
    <3>1. proc[v] = "waiting" /\ (v \in failed' => v \in failed)
      BY <1>1, <1>4, <2>3
    <3> QED BY <3>1 DEF ReuseInv, Reusable
  <2> QED BY <1>1, <1>4, <2>1, <2>2, <2>3
<1>5. \A v \in Workers : ~ (proc[v] = "waiting" /\ proc'[v] = "running")
  BY <1>1
<1> QED BY <1>1, <1>3, <1>4, <1>5 DEF ReuseInv, Confessing, Reusable

LEMMA ProcessReuses ==
  ASSUME BrokerInv, ReuseInv, NEW w \in Workers, RunWorker(w) \/ Crash(w)
  PROVE  /\ ReuseInv'
         /\ \A v \in Workers : ~ (proc[v] = "waiting" /\ proc'[v] = "running")
<1>1. CASE RunWorker(w)
  <2>1. PICK type \in MessageTypes, next \in ProcStates \ {"none", "booting", "running"} :
          /\ Send(w, type, next)
          /\ failed' \in {failed, failed \cup {w}}
          /\ next = "waiting" =>
               failed' = failed /\ (proc[w] \in Working \/ proc[w] = "booting")
          /\ next = "waiting" /\ w \in failed => proc[w] \in {"flushing", "booting"}
          /\ next = "flushing" => type = "criticalError"
          /\ proc[w] = "booting" => next = "waiting"
    BY <1>1 DEF RunWorker, Boot, FinishTask, FailTask, RepeatResult,
                ReportCriticalError, ReportIdling, ProcStates, MessageTypes, Working
  <2>2. w \in failed => proc[w] # "booting"
    BY DEF ReuseInv, Confessing
  <2> QED BY <2>1, <2>2, SendReuses
<1>2. CASE Crash(w)
  <2>1. /\ UNCHANGED <<broker, job, failed, pipe, served>>
        /\ \A v \in Workers : proc'[v] = IF v = w THEN "dead" ELSE proc[v]
    BY <1>2 DEF Crash, BrokerInv, TypeOK
  <2>2. failed \subseteq Workers
    BY DEF BrokerInv, TypeOK
  <2> QED BY <2>1, <2>2 DEF ReuseInv, Confessing, Reusable
<1> QED BY <1>1, <1>2

LEMMA InitReusable == Init => ReuseInv
BY DEF Init, ReuseInv, Confessing, Reusable

\* What is said of a process that gets its next task
ReusedKept ==
  \A w \in Workers :
    served[w] # {} /\ proc[w] = "waiting" /\ proc'[w] = "running" =>
      w \notin failed /\ {job[w], job'[w]} \subseteq Cacheable

LEMMA NextReuses ==
  ASSUME BrokerInv, ReuseInv, [Next]_vars
  PROVE  ReuseInv' /\ ReusedKept
<1>1. CASE UNCHANGED vars
  BY <1>1 DEF vars, processes, ReuseInv, Confessing, Reusable, ReusedKept
<1>2. ASSUME NEW w \in Workers, RunWorker(w) \/ Crash(w)
      PROVE  ReuseInv' /\ ReusedKept
  BY <1>2, ProcessReuses DEF ReusedKept
<1>3. ASSUME NEW b, Handled(b), failed' = failed, Grows(broker, broker'),
             \A w \in Workers : Considerate(w)
      PROVE  ReuseInv' /\ ReusedKept
  BY <1>3, MasterReuses DEF ReusedKept
<1>4. ASSUME NEW t \in Tasks, GetWorkerForTask(t) PROVE ReuseInv' /\ ReusedKept
  <2>1. PICK b : Handled(b) /\ failed' = failed
    BY <1>4 DEF GetWorkerForTask
  <2> QED BY <1>3, <1>4, <2>1, RequestHolds, RequestConsiderate
<1>5. ASSUME NEW w \in Workers, OnWorkerEvent(w) PROVE ReuseInv' /\ ReusedKept
  <2>1. PICK b : Handled(b) /\ failed' = failed
    BY <1>5 DEF OnWorkerEvent, OnWorkerStarted, OnWorkerTaskProcessed, OnWorkerCriticalError,
                OnWorkerIdling, OnWorkerExit, OnDisconnect, OnMessage
  <2>2. Grows(broker, broker')
    BY <1>5, StartedHolds, IdlingHolds, EventHolds DEF OnWorkerEvent, KeepsHolders
  <2> QED BY <1>3, <1>5, <2>1, <2>2, EventConsiderate
<1>6. ASSUME NEW w \in Workers, OnExpirationTimer(w) \/ OnIdlingTimer(w) \/ KillExpiredWorker(w)
      PROVE  ReuseInv' /\ ReusedKept
  <2>1. PICK b : Handled(b) /\ failed' = failed
    BY <1>6 DEF OnExpirationTimer, OnIdlingTimer, KillExpiredWorker, Loop
  <2>2. Grows(broker, broker')
    BY <1>6, TimerHolds DEF KeepsHolders
  <2> QED BY <1>3, <1>6, <2>1, <2>2, TimerConsiderate
<1>7. CASE \/ OnHeartbeatTimer \/ EndHeartbeat \/ \E a \in Apps : KillAllAppWorkers(a)
           \/ VisitCachedWorker \/ EndDeploy \/ Stop \/ EmitReady
  <2>1. PICK b : Handled(b) /\ failed' = failed
    BY <1>7 DEF OnHeartbeatTimer, EndHeartbeat, KillAllAppWorkers, VisitCachedWorker, EndDeploy,
                Stop, EmitReady, Loop
  <2>2. Grows(broker, broker')
    BY <1>7, LoopsHold DEF KeepsHolders
  <2> QED BY <1>3, <1>7, <2>1, <2>2, LoopsConsiderate
<1> QED BY <1>1, <1>2, <1>4, <1>5, <1>6, <1>7 DEF Next

\* A process gets a second task only when its first one could be shared and ended
\* without an error: what a failed task leaves behind meets no other task.
THEOREM ReuseAlwaysKept == Spec => ReusedOnlyIfKept
<1>1. BrokerInv /\ ReuseInv /\ [Next]_vars => ReuseInv' /\ ReusedKept
  BY NextReuses
<1>2. BrokerInv /\ ReuseInv /\ [Next]_vars =>
        [\A w \in Workers :
           served[w] # {} /\ proc[w] = "waiting" /\ proc'[w] = "running" =>
             w \notin failed /\ {job[w], job'[w]} \subseteq Cacheable]_vars
  BY <1>1 DEF ReusedKept
<1> QED BY <1>1, <1>2, InitReusable, BrokerInvariant, PTL DEF Spec, ReusedOnlyIfKept

=============================================================================
