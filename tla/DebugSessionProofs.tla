------------------------- MODULE DebugSessionProofs -------------------------
(* Proofs about DebugSession: types, the renewal of the lease, and the stop  *)
EXTENDS DebugSession, SequenceTheorems, TLAPS

LEMMA HasAppend ==
  ASSUME NEW S, NEW s \in Seq(S), NEW x \in S, NEW y
  PROVE  Has(Append(s, x), y) <=> Has(s, y) \/ x = y
<1>1. /\ DOMAIN s = 1 .. Len(s) /\ Len(s) \in Nat
      /\ DOMAIN Append(s, x) = 1 .. Len(s) + 1
      /\ \A i \in 1 .. Len(s) + 1 : Append(s, x)[i] = IF i = Len(s) + 1 THEN x ELSE s[i]
  BY LenProperties
<1>2. \A i \in 1 .. Len(s) : i \in 1 .. Len(s) + 1 /\ i # Len(s) + 1
  BY <1>1
<1>3. Len(s) + 1 \in 1 .. Len(s) + 1 /\ \A i \in 1 .. Len(s) + 1 : i # Len(s) + 1 => i \in 1 .. Len(s)
  BY <1>1
<1> QED
  BY <1>1, <1>2, <1>3 DEF Has

LEMMA HasTail ==
  ASSUME NEW S, NEW s \in Seq(S), s # <<>>, NEW y, Has(Tail(s), y)
  PROVE  Has(s, y)
<1>1. /\ DOMAIN s = 1 .. Len(s) /\ Len(s) \in Nat \ {0}
      /\ DOMAIN Tail(s) = 1 .. Len(s) - 1
      /\ \A i \in 1 .. Len(s) - 1 : Tail(s)[i] = s[i + 1]
  BY LenProperties, HeadTailProperties, EmptySeq
<1>2. PICK i \in 1 .. Len(s) - 1 : Tail(s)[i] = y
  BY <1>1 DEF Has
<1>3. i + 1 \in 1 .. Len(s) /\ s[i + 1] = y
  BY <1>1, <1>2
<1> QED
  BY <1>1, <1>3 DEF Has

LEMMA HasNothing == \A y : ~Has(<<>>, y)
  BY DEF Has

LEMMA ConcatOne ==
  ASSUME NEW S, NEW s \in Seq(S), NEW x \in S
  PROVE  /\ s \o <<x>> \in Seq(S) /\ Len(s \o <<x>>) = Len(s) + 1
         /\ \A i \in 1 .. Len(s) + 1 : (s \o <<x>>)[i] = IF i <= Len(s) THEN s[i] ELSE x
<1>1. <<x>> \in Seq(S) /\ Len(<<x>>) = 1 /\ <<x>>[1] = x
  OBVIOUS
<1>2. /\ s \o <<x>> \in Seq(S) /\ Len(s \o <<x>>) = Len(s) + Len(<<x>>)
      /\ \A i \in 1 .. Len(s) + Len(<<x>>) : (s \o <<x>>)[i] = IF i <= Len(s) THEN s[i] ELSE <<x>>[i - Len(s)]
  BY <1>1, ConcatProperties, Zenon
<1>3. Len(s) \in Nat /\ \A i \in 1 .. Len(s) + 1 : ~(i <= Len(s)) => i - Len(s) = 1
  BY LenProperties
<1> QED
  BY <1>1, <1>2, <1>3

LEMMA RefusedType ==
  ASSUME NEW n \in Nat
  PROVE  /\ [i \in 1 .. n |-> "refused"] \in Seq(Outcomes)
         /\ Len([i \in 1 .. n |-> "refused"]) = n
<1> DEFINE f == [i \in 1 .. n |-> "refused"]
<1>1. f \in [1 .. n -> Outcomes] /\ DOMAIN f = 1 .. n
  BY DEF Outcomes
<1>2. f \in Seq(Outcomes)
  BY <1>1, SeqDef
<1> QED
  BY <1>1, <1>2, LenProperties

----------------------------------------------------------------------------
(* Types                                                                   *)

LEMMA CallType ==
  ASSUME call \in [Calls -> Answers], NEW c, NEW x \in Answers
  PROVE  [call EXCEPT ![c] = x] \in [Calls -> Answers]
  OBVIOUS

LEMMA AnswersFacts == "none" \in Answers /\ "sent" \in Answers /\ "done" \in Answers /\ "refused" \in Answers
  BY DEF Answers

\* What StopBroker does, by the state of the setter
LEMMA StopEffects ==
  ASSUME NEW who, StopBroker(who)
  PROVE  \/ /\ step = "registering" /\ stopper' = "done"
            /\ UNCHANGED <<call, wire, closed, armed, left>>
            /\ \/ who = "signal" /\ down' = TRUE /\ step' = step
               \/ who # "signal" /\ step' = "ended" /\ down' = down
         \/ /\ step # "registering" /\ "setter" \in connecting
            /\ closed' = TRUE /\ armed' = FALSE /\ stopper' = "unregistering"
            /\ call' = [call EXCEPT !["unregisterRunner"] = "sent"]
            /\ UNCHANGED <<step, wire, left, down>>
         \/ /\ step # "registering" /\ "setter" \notin connecting
            /\ wire' = Append(wire, "QUIT") /\ stopper' = "quitting"
            /\ UNCHANGED <<step, call, closed, armed, left, down>>
  BY DEF StopBroker, StopReturns, GiveUpSession, QuitSetter, timer

LEMMA StopBrokerType ==
  ASSUME DebugTypeOK, NEW who, StopBroker(who)
  PROVE  /\ step' \in {"idle", "registering", "connecting", "modelling", "serving", "ended"}
         /\ stopper' \in {"none", "draining", "quitting", "unregistering", "done"}
         /\ call' \in [Calls -> Answers] /\ wire' \in Seq(Commands) /\ closed' \in BOOLEAN
         /\ armed' \in BOOLEAN /\ left' \in 0 .. RenewalInterval /\ down' \in BOOLEAN
<1>1. Append(wire, "QUIT") \in Seq(Commands)
  BY DEF DebugTypeOK, Commands
<1>2. [call EXCEPT !["unregisterRunner"] = "sent"] \in [Calls -> Answers]
  BY CallType, AnswersFacts DEF DebugTypeOK
<1> QED
  BY <1>1, <1>2, StopEffects DEF DebugTypeOK

LEMMA BeginStopType ==
  ASSUME DebugTypeOK, NEW who \in {"start", "signal"}, BeginStop(who),
         UNCHANGED <<connecting, replies, lease, busy, given>>
  PROVE  DebugTypeOK'
<1>1. CASE busy
  BY <1>1 DEF BeginStop, DebugTypeOK, timer, lease, given
<1>2. CASE ~busy
  <2>1. StopBroker(who) /\ closer' = who
    BY <1>2 DEF BeginStop
  <2> QED
    BY <2>1, StopBrokerType DEF DebugTypeOK, lease, given
<1> QED
  BY <1>1, <1>2

\* Every step of the session keeps the types.
LEMMA DebugTypeStep ==
  ASSUME DebugTypeOK, [DebugNext]_debugVars
  PROVE  DebugTypeOK'
<1> USE DEF DebugTypeOK
<1>1. CASE Signal
  BY <1>1, BeginStopType DEF Signal
<1>2. ASSUME NEW s, NEW c, OnRefused(s, c)
      PROVE  DebugTypeOK'
  <2>1. CASE BeginStop("start")
    BY <1>2, <2>1, BeginStopType DEF OnRefused
  <2>2. CASE ~BeginStop("start")
    BY <1>2, <2>2 DEF OnRefused, timer, lease, given
  <2> QED
    BY <2>1, <2>2
<1>3. CASE FinishTask
  <2>1. CASE stopper = "draining"
    <3>1. StopBroker(closer)
      BY <1>3, <2>1 DEF FinishTask
    <3>2. DebugTypeOK
      OBVIOUS
    <3> HIDE DEF DebugTypeOK
    <3>3. /\ step' \in {"idle", "registering", "connecting", "modelling", "serving", "ended"}
          /\ stopper' \in {"none", "draining", "quitting", "unregistering", "done"}
          /\ call' \in [Calls -> Answers] /\ wire' \in Seq(Commands) /\ closed' \in BOOLEAN
          /\ armed' \in BOOLEAN /\ left' \in 0 .. RenewalInterval /\ down' \in BOOLEAN
      BY <3>1, <3>2, StopBrokerType
    <3> QED
      BY <1>3, <3>2, <3>3 DEF FinishTask, DebugTypeOK, lease, given
  <2>2. CASE stopper # "draining"
    BY <1>3, <2>2 DEF FinishTask, timer, lease, given
  <2> QED
    BY <2>1, <2>2
<1>4. CASE Start
  <2>1. [call EXCEPT !["registerRunner"] = "sent"] \in [Calls -> Answers]
    BY CallType, AnswersFacts
  <2>2. call' \in [Calls -> Answers]
    BY <1>4, <2>1 DEF Start
  <2>3. step' \in {"idle", "registering", "connecting", "modelling", "serving", "ended"} /\ down' \in BOOLEAN
    BY <1>4 DEF Start
  <2> QED
    BY <1>4, <2>2, <2>3 DEF Start, redis, timer, lease, given
<1>5. CASE OnRegistered \/ OnModelRegistered
  BY <1>5 DEF OnRegistered, OnModelRegistered, redis, timer, lease, given
<1>6. CASE OnUnregistered
  BY <1>6 DEF OnUnregistered, StopReturns, redis, timer, lease, given
<1>7. ASSUME NEW client \in Clients, OnReady(client)
      PROVE  DebugTypeOK'
  <2>1. [call EXCEPT !["registerModel"] = "sent"] \in [Calls -> Answers]
    BY CallType, AnswersFacts
  <2>2. RenewalInterval \in 0 .. RenewalInterval
    BY LeaseAssumption
  <2>3. call' \in [Calls -> Answers] /\ left' \in 0 .. RenewalInterval /\ armed' \in BOOLEAN
    BY <1>7, <2>1, <2>2 DEF OnReady, timer
  <2>4. step' \in {"idle", "registering", "connecting", "modelling", "serving", "ended"}
    BY <1>7 DEF OnReady
  <2> QED
    BY <1>7, <2>3, <2>4 DEF OnReady, lease, given
<1>8. CASE TakeTask \/ RunOut
  BY <1>8 DEF TakeTask, RunOut, redis, timer, lease, given
<1>9. CASE OnRenewalTimer
  <2>1. wire' \in Seq(Commands) /\ replies' \in Seq(Outcomes)
    <3>1. Append(wire, "EXPIRE") \in Seq(Commands) /\ Append(replies, "refused") \in Seq(Outcomes)
      BY DEF Commands, Outcomes
    <3> QED
      BY <1>9, <3>1 DEF OnRenewalTimer
  <2> QED
    <3>1. armed' \in BOOLEAN /\ UNCHANGED <<step, closer, stopper, call, connecting, closed, left, busy, down>>
      BY <1>9 DEF OnRenewalTimer
    <3>2. UNCHANGED <<session, age, renewed, workers, prompt>>
      BY <1>9 DEF OnRenewalTimer, lease, given
    <3> QED
      BY <2>1, <3>1, <3>2
<1>10. CASE OnReply
  <2>1. Tail(replies) \in Seq(Outcomes)
    BY <1>10, HeadTailProperties DEF OnReply
  <2>2. RenewalInterval \in 0 .. RenewalInterval
    BY LeaseAssumption
  <2>3. [call EXCEPT !["unregisterRunner"] = "sent"] \in [Calls -> Answers]
    BY CallType, AnswersFacts
  <2>4. /\ call' \in [Calls -> Answers] /\ left' \in 0 .. RenewalInterval /\ armed' \in BOOLEAN
        /\ stopper' \in {"none", "draining", "quitting", "unregistering", "done"}
        /\ step' = step
    BY <1>10, <2>2, <2>3 DEF OnReply, OnRenewalFailed, GiveUpSession, timer
  <2>5. down' \in BOOLEAN
    BY <1>10 DEF OnReply, OnRenewalFailed, GiveUpSession
  <2> QED
    <3>1. replies' \in Seq(Outcomes) /\ UNCHANGED <<closer, connecting, wire, closed, busy>>
      BY <1>10, <2>1 DEF OnReply
    <3>2. UNCHANGED <<session, age, renewed, workers, prompt>>
      BY <1>10 DEF OnReply, lease, given
    <3> QED
      BY <2>4, <2>5, <3>1, <3>2
<1>11. ASSUME NEW c \in Calls, Serve(c)
       PROVE  DebugTypeOK'
  <2>1. 0 \in 0 .. SessionTTL - 1
    BY LeaseAssumption
  <2>2. call' \in [Calls -> Answers]
    BY <1>11, CallType, AnswersFacts DEF Serve
  <2>3. age' \in 0 .. SessionTTL - 1 /\ session' \in {"none", "live", "expired"}
    BY <1>11, <2>1 DEF Serve
  <2> QED
    BY <1>11, <2>2, <2>3 DEF Serve, redis, timer, given
<1>12. CASE ServeExpire
  <2>1. 0 \in 0 .. SessionTTL - 1
    BY LeaseAssumption
  <2>2. Tail(wire) \in Seq(Commands)
    BY <1>12, HeadTailProperties DEF ServeExpire
  <2>3. wire' \in Seq(Commands) /\ age' \in 0 .. SessionTTL - 1 /\ renewed' \in BOOLEAN
    BY <1>12, <2>1, <2>2 DEF ServeExpire
  <2>4. replies' \in Seq(Outcomes)
    <3>1. /\ Append(replies, "renewed") \in Seq(Outcomes) /\ Append(replies, "missing") \in Seq(Outcomes)
          /\ Append(replies, "refused") \in Seq(Outcomes)
      BY DEF Outcomes
    <3> QED
      BY <1>12, <3>1 DEF ServeExpire
  <2> QED
    BY <1>12, <2>3, <2>4 DEF ServeExpire, timer, given
<1>13. CASE ServeQuit
  <2>1. Len(wire) - 1 \in Nat
    BY <1>13, EmptySeq, LenProperties DEF ServeQuit
  <2>2. <<"bye">> \in Seq(Outcomes) /\ [i \in 1 .. Len(wire) - 1 |-> "refused"] \in Seq(Outcomes)
    BY <2>1, RefusedType DEF Outcomes
  <2>3. replies \o <<"bye">> \in Seq(Outcomes)
    BY <2>2, ConcatProperties
  <2>4. replies' \in Seq(Outcomes)
    BY <1>13, <2>2, <2>3, ConcatProperties DEF ServeQuit
  <2> QED
    BY <1>13, <2>4 DEF ServeQuit, timer, lease, given
<1>14. CASE Tick
  <2>1. left' \in 0 .. RenewalInterval
    BY <1>14, LeaseAssumption DEF Tick
  <2>2. age' \in 0 .. SessionTTL - 1 /\ session' \in {"none", "live", "expired"}
    BY <1>14, LeaseAssumption DEF Tick
  <2> QED
    BY <1>14, <2>1, <2>2 DEF Tick, redis, given
<1>15. CASE UNCHANGED debugVars
  BY <1>15 DEF debugVars, redis, timer, lease, given
<1> QED
  BY <1>1, <1>2, <1>3, <1>4, <1>5, <1>6, <1>7, <1>8, <1>9, <1>10, <1>11, <1>12, <1>13, <1>14, <1>15
     DEF DebugNext, Handle, Servers

LEMMA DebugTypeInit == DebugInit => DebugTypeOK
<1>1. <<>> \in Seq(Commands) /\ <<>> \in Seq(Outcomes)
  BY EmptySeq
<1>2. 0 \in 0 .. RenewalInterval /\ 0 \in 0 .. SessionTTL - 1
  BY LeaseAssumption
<1> QED
  BY <1>1, <1>2 DEF DebugInit, DebugTypeOK, Answers

\* The variables of the session keep their types, for every TTL and interval.
THEOREM DebugTypeCorrect == DebugSpec => []DebugTypeOK
<1>1. DebugTypeOK /\ [DebugNext]_debugVars => DebugTypeOK'
  BY DebugTypeStep
<1> QED
  BY <1>1, DebugTypeInit, PTL DEF DebugSpec

----------------------------------------------------------------------------
(* The inductive invariant                                                 *)

Early == {"none", "draining"}
registered == call["registerRunner"] = "done"

\* Where start() and stop() can be
Shape ==
  /\ stopper = "none" <=> closer = "nobody"
  /\ step = "idle" => closer = "nobody"
  /\ step = "ended" => closer # "nobody"
  /\ busy => step \in {"serving", "ended"}
  /\ connecting # {} <=> step = "connecting"
  /\ closer = "start" => ~busy /\ step \in {"modelling", "ended"} /\ stopper # "draining"
  /\ ~registered => ~busy /\ step \in {"idle", "registering", "ended"}

\* No renewal before all clients are ready
Quiet ==
  /\ ~registered \/ step \in {"idle", "registering"} =>
       ~armed /\ ~renewed /\ wire = <<>> /\ replies = <<>>
  /\ step = "connecting" =>
       /\ ~armed /\ ~renewed /\ ~Has(wire, "EXPIRE") /\ ~Has(replies, "renewed")
       /\ stopper \in Early => wire = <<>> /\ replies = <<>>
       /\ "setter" \in connecting => wire = <<>>

\* A stop that has returned
Settled ==
  stopper = "done" =>
    \/ call["unregisterRunner"] \in {"done", "refused"}
    \/ call["registerRunner"] = "refused"
    \/ step = "registering" /\ down

AllRefused == \A i \in DOMAIN replies : replies[i] = "refused"

\* Behind the reply to QUIT there are only refusals
Closing ==
  /\ closed => wire = <<>> /\ closer # "nobody"
  /\ Has(replies, "bye") => closed
  /\ \A b, i \in DOMAIN replies : replies[b] = "bye" /\ b < i => replies[i] = "refused"
  /\ closer = "start" /\ stopper = "unregistering" => closed /\ ~armed /\ AllRefused
  /\ closer = "start" /\ stopper = "done" =>
       call["registerRunner"] = "refused" \/ (closed /\ ~armed /\ AllRefused)

\* Until the connection is closed there is one renewal at most: in the timer, on
\* the wire, or answered
OneRenewal ==
  stopper \in Early =>
    /\ ~closed /\ call["unregisterRunner"] = "none"
    /\ ~Has(wire, "QUIT")
    /\ armed => wire = <<>> /\ replies = <<>>
    /\ wire # <<>> => replies = <<>> /\ Len(wire) = 1
    /\ replies # <<>> => Len(replies) = 1

\* A session that was renewed is renewed again in time
Lease ==
  prompt /\ renewed /\ ~down /\ stopper \in Early =>
    /\ session = "live"
    /\ \/ armed /\ age + left <= RenewalInterval
       \/ wire # <<>> /\ age <= RenewalInterval
       \/ replies # <<>> /\ Head(replies) = "renewed" /\ age = 0

DebugInv == Shape /\ Quiet /\ Settled /\ Closing /\ OneRenewal /\ Lease

LEMMA DebugInvInit == DebugInit => DebugInv
<1> SUFFICES ASSUME DebugInit PROVE DebugInv
  OBVIOUS
<1>1. Shape /\ Quiet /\ Settled /\ Lease
  BY HasNothing DEF DebugInit, Shape, Quiet, Settled, Lease, registered, Calls
<1>2. Closing
  BY HasNothing DEF DebugInit, Closing
<1>3. OneRenewal
  BY HasNothing DEF DebugInit, OneRenewal, Calls
<1> QED
  BY <1>1, <1>2, <1>3 DEF DebugInv

\* super.stop() and what follows, whoever called stop(), once no worker is busy
LEMMA StopStep ==
  ASSUME DebugTypeOK, DebugInv, ~down,
         stopper \in Early, step # "idle", closer' \in {"start", "signal"}, StopBroker(closer'),
         closer' = "start" =>
           step = "modelling" \/ (step = "registering" /\ call["registerRunner"] = "refused"),
         ~registered => step = "registering",
         busy' = FALSE, UNCHANGED <<connecting, replies, session, age, renewed, workers, prompt>>
  PROVE  DebugInv'
<1>1. /\ call \in [Calls -> Answers] /\ wire \in Seq(Commands) /\ "QUIT" \in Commands
      /\ "unregisterRunner" \in Calls /\ "registerRunner" \in Calls
  BY DEF DebugTypeOK, Calls, Commands
<1>2. ~closed /\ ~Has(wire, "QUIT")
  BY DEF DebugInv, OneRenewal
<1>3. ~Has(replies, "bye")
  BY <1>2 DEF DebugInv, Closing
<1>4. CASE step = "registering"
  <2>1. /\ stopper' = "done" /\ UNCHANGED <<call, wire, closed, armed, left>>
        /\ \/ closer' = "signal" /\ down' = TRUE /\ step' = step
           \/ closer' = "start" /\ step' = "ended" /\ down' = down
    BY <1>4, StopEffects
  <2>2. ~armed /\ ~renewed /\ wire = <<>> /\ replies = <<>> /\ connecting = {}
    BY <1>4 DEF DebugInv, Quiet, Shape
  <2>3. Shape'
    BY <1>4, <2>1, <2>2 DEF DebugInv, Shape, registered
  <2>4. Quiet' /\ Settled' /\ OneRenewal' /\ Lease'
    BY <1>4, <2>1, <2>2 DEF Quiet, Settled, OneRenewal, Lease, Early
  <2>5. Closing'
    <3>1. replies' = <<>> /\ DOMAIN replies' = {}
      BY <2>2
    <3> QED
      BY <1>2, <1>4, <2>1, <2>2, <3>1, HasNothing DEF Closing
  <2> QED
    BY <2>3, <2>4, <2>5 DEF DebugInv
<1>5. CASE step # "registering" /\ "setter" \in connecting
  <2>1. /\ closed' = TRUE /\ armed' = FALSE /\ stopper' = "unregistering"
        /\ call' = [call EXCEPT !["unregisterRunner"] = "sent"]
        /\ UNCHANGED <<step, wire, left, down>>
    BY <1>5, StopEffects
  <2>2. step = "connecting" /\ closer' = "signal" /\ wire = <<>> /\ ~renewed /\ registered
    BY <1>5 DEF DebugInv, Quiet, Shape
  <2>3. call'["registerRunner"] = call["registerRunner"] /\ registered'
    BY <1>1, <2>1, <2>2 DEF registered
  <2>4. Shape'
    BY <2>1, <2>2, <2>3 DEF DebugInv, Shape, registered
  <2>5. Settled' /\ OneRenewal' /\ Lease'
    BY <2>1, <2>2, <2>3 DEF Settled, OneRenewal, Lease, Early
  <2>7. Quiet'
    BY <2>1, <2>2, <2>3 DEF DebugInv, Quiet, Early, Has
  <2>6. Closing'
    BY <1>3, <2>1, <2>2 DEF DebugInv, Closing, AllRefused, Has
  <2> QED
    BY <2>4, <2>5, <2>6, <2>7 DEF DebugInv
<1>6. CASE step # "registering" /\ "setter" \notin connecting
  <2>1. /\ wire' = Append(wire, "QUIT") /\ stopper' = "quitting"
        /\ UNCHANGED <<step, call, closed, armed, left, down>>
    BY <1>6, StopEffects
  <2>2. registered /\ registered'
    BY <1>6, <2>1 DEF registered
  <2>3. Shape'
    BY <1>6, <2>1, <2>2 DEF DebugInv, Shape
  <2>4. step = "connecting" => ~Has(wire', "EXPIRE")
    <3>1. step = "connecting" => ~Has(wire, "EXPIRE")
      BY DEF DebugInv, Quiet
    <3> QED
      BY <1>1, <2>1, <3>1, HasAppend
  <2>5. Quiet'
    <3>1. Has(wire, "EXPIRE")' = Has(wire', "EXPIRE") /\ Has(replies, "renewed")' = Has(replies, "renewed")
      BY DEF Has
    <3> QED
      BY <1>6, <2>1, <2>2, <2>4, <3>1 DEF DebugInv, Quiet, Early
  <2>6. Settled' /\ OneRenewal' /\ Lease'
    BY <2>1 DEF Settled, OneRenewal, Lease, Early
  <2>7. Closing'
    BY <1>2, <1>3, <2>1 DEF DebugInv, Closing, AllRefused, Has
  <2> QED
    BY <2>3, <2>5, <2>6, <2>7 DEF DebugInv
<1> QED
  BY <1>4, <1>5, <1>6

LEMMA BeginStopStep ==
  ASSUME DebugTypeOK, DebugInv, ~down, NEW who \in {"start", "signal"}, BeginStop(who), step # "idle",
         who = "start" => step = "modelling" \/ (step = "registering" /\ call["registerRunner"] = "refused"),
         UNCHANGED <<connecting, replies, session, age, renewed, busy, workers, prompt>>
  PROVE  DebugInv'
<1>1. closer = "nobody" /\ stopper = "none" /\ closer' = who /\ step # "ended"
  BY DEF BeginStop, stopped, DebugInv, Shape
<1>2. CASE busy
  <2>1. stopper' = "draining" /\ UNCHANGED <<step, call, wire, closed, armed, left, down>>
    BY <1>2 DEF BeginStop, timer
  <2>2. who = "signal"
    BY <1>2 DEF DebugInv, Shape
  <2>3. Shape' /\ Settled'
    BY <1>1, <2>1, <2>2 DEF DebugInv, Shape, Settled, registered
  <2>4. Quiet' /\ OneRenewal' /\ Lease'
    BY <1>1, <2>1 DEF DebugInv, Quiet, OneRenewal, Lease, Early, registered, Has
  <2>5. Closing'
    BY <1>1, <2>1, <2>2 DEF DebugInv, Closing, Has
  <2> QED
    BY <2>3, <2>4, <2>5 DEF DebugInv
<1>3. CASE ~busy
  <2>1. StopBroker(closer')
    BY <1>1, <1>3 DEF BeginStop
  <2>2. busy' = FALSE
    BY <1>3 DEF DebugTypeOK
  <2>3. ~registered => step = "registering"
    BY <1>1 DEF DebugInv, Shape
  <2>4. stopper \in Early
    BY <1>1 DEF Early
  <2> QED
    BY <1>1, <2>1, <2>2, <2>3, <2>4, StopStep
<1> QED
  BY <1>2, <1>3

\* A step of start() that touches neither the timer nor the connection
LEMMA StartStep ==
  ASSUME DebugTypeOK, DebugInv, ~down, Start \/ OnRegistered \/ OnModelRegistered \/ TakeTask \/ RunOut
  PROVE  DebugInv'
<1>1. /\ wire' = wire /\ replies' = replies /\ closed' = closed /\ armed' = armed /\ left' = left
      /\ session' = session /\ age' = age /\ renewed' = renewed /\ prompt' = prompt
      /\ closer' = closer /\ stopper' = stopper
  BY DEF Start, OnRegistered, OnModelRegistered, TakeTask, RunOut, redis, timer, lease, given
<1>2. /\ call \in [Calls -> Answers] /\ "registerRunner" \in Calls /\ "unregisterRunner" \in Calls
      /\ connecting \in SUBSET Clients
  BY DEF DebugTypeOK, Calls
<1>3. call'["unregisterRunner"] = call["unregisterRunner"]
  BY <1>2 DEF Start, OnRegistered, OnModelRegistered, TakeTask, RunOut
<1>4. CASE Start
  <2>1. /\ step = "idle" /\ busy' = busy /\ connecting' = connecting /\ closer = "nobody" /\ stopper = "none"
        /\ \/ down' = TRUE /\ step' = step /\ call' = call
           \/ step' = "registering" /\ call'["registerRunner"] = "sent" /\ down' = down
    BY <1>2, <1>4 DEF Start, redis, DebugInv, Shape
  <2>2. Shape' /\ Settled'
    BY <1>1, <2>1 DEF DebugInv, Shape, Settled, registered
  <2>3. Quiet' /\ OneRenewal' /\ Lease'
    BY <1>1, <1>3, <2>1 DEF DebugInv, Quiet, OneRenewal, Lease, Early, registered, Has
  <2>4. Closing'
    BY <1>1, <2>1 DEF DebugInv, Closing, Has
  <2> QED
    BY <2>2, <2>3, <2>4 DEF DebugInv
<1>5. CASE OnRegistered
  <2>1. /\ step = "registering" /\ step' = "connecting" /\ registered /\ registered' /\ connecting' = Clients
        /\ call' = call /\ busy' = busy /\ down' = down
    BY <1>5 DEF OnRegistered, registered
  <2>2. ~armed /\ ~renewed /\ wire = <<>> /\ replies = <<>> /\ ~busy
    BY <2>1 DEF DebugInv, Quiet, Shape
  <2>3. stopper # "done" \/ call["unregisterRunner"] \in {"done", "refused"}
    BY <2>1 DEF DebugInv, Settled, registered
  <2>4. closer # "start" /\ Clients # {}
    BY <2>1 DEF DebugInv, Shape, Clients
  <2>5. Shape' /\ Settled'
    BY <1>1, <2>1, <2>2, <2>3, <2>4 DEF DebugInv, Shape, Settled
  <2>6. Quiet' /\ OneRenewal' /\ Lease'
    BY <1>1, <2>1, <2>2, HasNothing DEF DebugInv, Quiet, OneRenewal, Lease, Early, Has
  <2>7. Closing'
    BY <1>1, <2>1, <2>4 DEF DebugInv, Closing, Has
  <2> QED
    BY <2>5, <2>6, <2>7 DEF DebugInv
<1>6. CASE OnModelRegistered
  <2>1. /\ step = "modelling" /\ step' = (IF stopped THEN "ended" ELSE "serving") /\ connecting' = connecting
        /\ call' = call /\ busy' = busy /\ down' = down
    BY <1>6 DEF OnModelRegistered, redis
  <2>2. registered /\ registered' /\ ~busy
    BY <2>1 DEF DebugInv, Shape, registered
  <2>3. Shape' /\ Settled'
    BY <1>1, <2>1, <2>2 DEF DebugInv, Shape, Settled, stopped
  <2>4. Quiet' /\ OneRenewal' /\ Lease'
    BY <1>1, <2>1, <2>2 DEF DebugInv, Quiet, OneRenewal, Lease, Early, Has
  <2>5. Closing'
    BY <1>1, <2>1 DEF DebugInv, Closing, AllRefused, Has
  <2> QED
    BY <2>3, <2>4, <2>5 DEF DebugInv
<1>7. CASE TakeTask \/ RunOut
  <2>1. /\ step' = step /\ connecting' = connecting /\ call' = call
        /\ \/ step = "serving" /\ closer = "nobody" /\ busy' = TRUE /\ down' = down
           \/ busy' = busy /\ down' = TRUE
    BY <1>7 DEF TakeTask, RunOut, redis, stopped
  <2>2. Shape' /\ Settled'
    BY <1>1, <2>1 DEF DebugInv, Shape, Settled, registered
  <2>3. Quiet' /\ OneRenewal' /\ Lease'
    BY <1>1, <2>1 DEF DebugInv, Quiet, OneRenewal, Lease, Early, registered, Has
  <2>4. Closing'
    BY <1>1, <2>1 DEF DebugInv, Closing, AllRefused, Has
  <2> QED
    BY <2>2, <2>3, <2>4 DEF DebugInv
<1> QED
  BY <1>4, <1>5, <1>6, <1>7

\* The steps that may call stop(), and its end
LEMMA StoppingStep ==
  ASSUME DebugTypeOK, DebugInv, ~down,
         \/ Signal \/ FinishTask \/ OnUnregistered
         \/ OnRefused("registering", "registerRunner") \/ OnRefused("modelling", "registerModel")
  PROVE  DebugInv'
<1>1. CASE Signal
  <2>1. /\ step # "idle" /\ BeginStop("signal")
        /\ UNCHANGED <<connecting, replies, session, age, renewed, busy, workers, prompt>>
    BY <1>1 DEF Signal, lease, given
  <2> QED
    BY <2>1, BeginStopStep
<1>2. ASSUME NEW s \in {"registering", "modelling"}, NEW c, OnRefused(s, c),
             s = "registering" => c = "registerRunner"
      PROVE  DebugInv'
  <2>1. /\ step = s /\ call[c] = "refused"
        /\ UNCHANGED <<connecting, replies, session, age, renewed, busy, workers, prompt>>
    BY <1>2 DEF OnRefused, lease, given
  <2>2. CASE BeginStop("start")
    BY <1>2, <2>1, <2>2, BeginStopStep
  <2>3. CASE ~BeginStop("start")
    <3>1. /\ closer = "signal" /\ step' = "ended"
          /\ UNCHANGED <<closer, stopper, call, wire, closed, armed, left, down>>
      BY <1>2, <2>3 DEF OnRefused, timer
    <3>2. connecting = {} /\ ~busy
      BY <1>2, <2>1 DEF DebugInv, Shape
    <3>3. Shape'
      BY <1>2, <2>1, <3>1, <3>2 DEF DebugInv, Shape, registered
    <3>4. Settled'
      BY <1>2, <2>1, <3>1 DEF DebugInv, Settled
    <3>5. Quiet' /\ OneRenewal' /\ Lease'
      BY <1>2, <2>1, <3>1 DEF DebugInv, Quiet, OneRenewal, Lease, Early, registered, Has
    <3>6. Closing'
      BY <2>1, <3>1 DEF DebugInv, Closing, Has
    <3> QED
      BY <3>3, <3>4, <3>5, <3>6 DEF DebugInv
  <2> QED
    BY <2>2, <2>3
<1>3. CASE FinishTask
  <2>1. /\ busy /\ busy' = FALSE /\ closer' = closer
        /\ UNCHANGED <<connecting, replies, session, age, renewed, workers, prompt>>
    BY <1>3 DEF FinishTask, lease, given
  <2>2. step \in {"serving", "ended"} /\ registered /\ closer # "start"
    BY <2>1 DEF DebugInv, Shape
  <2>3. CASE stopper = "draining"
    <3>1. StopBroker(closer) /\ closer = "signal"
      BY <1>3, <2>2, <2>3 DEF FinishTask, DebugInv, Shape, DebugTypeOK
    <3> QED
      BY <2>1, <2>2, <2>3, <3>1, StopStep DEF Early
  <2>4. CASE stopper # "draining"
    <3>1. UNCHANGED <<step, stopper, call, wire, closed, armed, left, down>>
      BY <1>3, <2>4 DEF FinishTask, timer
    <3>2. Shape' /\ Settled'
      BY <2>1, <3>1 DEF DebugInv, Shape, Settled, registered
    <3>3. Quiet' /\ OneRenewal' /\ Lease'
      BY <2>1, <3>1 DEF DebugInv, Quiet, OneRenewal, Lease, Early, registered, Has
    <3>4. Closing'
      BY <2>1, <3>1 DEF DebugInv, Closing, AllRefused, Has
    <3> QED
      BY <3>2, <3>3, <3>4 DEF DebugInv
  <2> QED
    BY <2>3, <2>4
<1>4. CASE OnUnregistered
  <2>1. /\ stopper = "unregistering" /\ stopper' = "done" /\ call["unregisterRunner"] \in {"done", "refused"}
        /\ UNCHANGED <<closer, call, connecting, wire, replies, closed, armed, left, session, age, renewed, busy>>
        /\ UNCHANGED <<workers, prompt>>
        /\ \/ down' = TRUE /\ step' = step
           \/ closer # "signal" /\ down' = down /\ step' = "ended"
    BY <1>4 DEF OnUnregistered, StopReturns, redis, timer, lease, given
  <2>2. closer # "nobody" /\ closer \in {"nobody", "start", "signal"}
    BY <2>1 DEF DebugInv, Shape, DebugTypeOK
  <2>3. Shape'
    BY <2>1, <2>2 DEF DebugInv, Shape, registered
  <2>4. Settled' /\ OneRenewal' /\ Lease'
    BY <2>1 DEF Settled, OneRenewal, Lease, Early
  <2>5. Quiet'
    BY <2>1, <2>2 DEF DebugInv, Quiet, Shape, Early, registered, Has
  <2>6. Closing'
    BY <2>1, <2>2 DEF DebugInv, Closing, AllRefused, Has
  <2> QED
    BY <2>3, <2>4, <2>5, <2>6 DEF DebugInv
<1> QED
  BY <1>1, <1>2, <1>3, <1>4

LEMMA ReadyStep ==
  ASSUME DebugTypeOK, DebugInv, ~down, NEW client \in Clients, OnReady(client)
  PROVE  DebugInv'
<1>1. /\ client \in connecting /\ connecting' = connecting \ {client}
      /\ client = "getter" => closer = "nobody"
      /\ client = "setter" => ~closed
      /\ UNCHANGED <<closer, stopper, wire, replies, closed, session, age, renewed, busy, workers, prompt, down>>
  BY DEF OnReady, lease, given, stopped
<1>2. /\ step = "connecting" /\ registered /\ closer # "start" /\ ~busy /\ ~armed /\ ~renewed
      /\ ~Has(wire, "EXPIRE")
  BY <1>1 DEF DebugInv, Shape, Quiet
<1>3. call \in [Calls -> Answers] /\ "registerRunner" \in Calls /\ "unregisterRunner" \in Calls
  BY DEF DebugTypeOK, Calls
<1>4. stopper # "done" \/ call["unregisterRunner"] \in {"done", "refused"}
  BY <1>2 DEF DebugInv, Settled, registered
<1>5. CASE connecting' = {}
  <2>1. /\ step' = "modelling" /\ armed' = TRUE
        /\ call' = [call EXCEPT !["registerModel"] = "sent"]
    BY <1>5 DEF OnReady
  <2>2. call'["registerRunner"] = call["registerRunner"] /\ call'["unregisterRunner"] = call["unregisterRunner"]
    BY <1>3, <2>1
  <2>3. Shape' /\ Settled'
    BY <1>1, <1>2, <1>4, <1>5, <2>1, <2>2 DEF DebugInv, Shape, Settled, registered
  <2>4. stopper \in Early => wire = <<>> /\ replies = <<>>
    BY <1>2 DEF DebugInv, Quiet
  <2>5. Quiet' /\ OneRenewal' /\ Lease'
    BY <1>1, <1>2, <2>1, <2>2, <2>4 DEF DebugInv, Quiet, OneRenewal, Lease, registered, Has, Early
  <2>6. Closing'
    BY <1>1, <1>2 DEF DebugInv, Closing, Has
  <2> QED
    BY <2>3, <2>5, <2>6 DEF DebugInv
<1>6. CASE connecting' # {}
  <2>1. UNCHANGED <<step, armed, left, call>>
    BY <1>6 DEF OnReady, timer
  <2>2. Shape' /\ Settled'
    BY <1>1, <1>2, <1>4, <1>6, <2>1 DEF DebugInv, Shape, Settled, registered
  <2>3. Quiet' /\ OneRenewal' /\ Lease'
    BY <1>1, <1>2, <2>1 DEF DebugInv, Quiet, OneRenewal, Lease, registered, Has, Early
  <2>4. Closing'
    BY <1>1, <1>2, <2>1 DEF DebugInv, Closing, Has
  <2> QED
    BY <2>2, <2>3, <2>4 DEF DebugInv
<1> QED
  BY <1>5, <1>6

LEMMA RenewalTimerStep ==
  ASSUME DebugTypeOK, DebugInv, ~down, OnRenewalTimer
  PROVE  DebugInv'
<1>1. /\ armed /\ left = 0 /\ armed' = FALSE
      /\ UNCHANGED <<step, closer, stopper, call, connecting, closed, left, session, age, renewed, busy>>
      /\ UNCHANGED <<workers, prompt, down>>
  BY DEF OnRenewalTimer, lease, given
<1>2. /\ wire \in Seq(Commands) /\ replies \in Seq(Outcomes) /\ age \in Nat
      /\ "EXPIRE" \in Commands /\ "refused" \in Outcomes
  BY LeaseAssumption DEF DebugTypeOK, Commands, Outcomes
<1>3. registered /\ step \notin {"idle", "registering", "connecting"} /\ connecting = {}
  BY <1>1 DEF DebugInv, Quiet, Shape
<1>4. Shape' /\ Settled'
  BY <1>1, <1>3 DEF DebugInv, Shape, Settled, registered
<1>5. Quiet'
  BY <1>1, <1>3 DEF Quiet, registered
<1>6. CASE closed
  <2>1. replies' = Append(replies, "refused") /\ wire' = wire
    BY <1>6 DEF OnRenewalTimer
  <2>2. stopper \notin Early
    BY <1>6 DEF DebugInv, OneRenewal
  <2>3. OneRenewal' /\ Lease'
    BY <1>1, <2>2 DEF OneRenewal, Lease
  <2>4. /\ DOMAIN replies = 1 .. Len(replies) /\ Len(replies) \in Nat
        /\ DOMAIN replies' = 1 .. Len(replies) + 1
        /\ \A i \in 1 .. Len(replies) + 1 : replies'[i] = IF i = Len(replies) + 1 THEN "refused" ELSE replies[i]
    BY <1>2, <2>1, LenProperties
  <2>5. \A b, i \in DOMAIN replies' : replies'[b] = "bye" /\ b < i => replies'[i] = "refused"
    BY <2>4 DEF DebugInv, Closing
  <2>6. AllRefused => AllRefused'
    BY <2>4 DEF AllRefused
  <2> QED
    BY <1>1, <1>4, <1>5, <1>6, <2>1, <2>3, <2>5, <2>6 DEF DebugInv, Closing
<1>7. CASE ~closed
  <2>1. wire' = Append(wire, "EXPIRE") /\ replies' = replies
    BY <1>7 DEF OnRenewalTimer
  <2>2. closer = "start" => stopper \notin {"unregistering", "done"}
    BY <1>1, <1>7 DEF DebugInv, Closing, Quiet, registered
  <2>3. Closing'
    BY <1>1, <1>7, <2>1, <2>2 DEF DebugInv, Closing, Has
  <2>4. ASSUME stopper \in Early
        PROVE  /\ wire = <<>> /\ replies = <<>> /\ wire' # <<>> /\ Len(wire') = 1
               /\ ~Has(wire', "QUIT")
    <3>1. wire = <<>> /\ replies = <<>> /\ ~Has(wire, "QUIT")
      BY <1>1, <2>4 DEF DebugInv, OneRenewal
    <3>2. Len(wire') = 1
      BY <1>2, <2>1, <3>1
    <3>3. ~Has(wire', "QUIT")
      BY <1>2, <2>1, <3>1, HasAppend
    <3> QED
      BY <3>1, <3>2, <3>3
  <2>5. Has(wire, "QUIT")' = Has(wire', "QUIT")
    BY DEF Has
  <2>6. OneRenewal'
    BY <1>1, <2>1, <2>4, <2>5 DEF DebugInv, OneRenewal, Early
  <2>7. Lease'
    <3>1. SUFFICES ASSUME prompt, renewed, stopper \in Early
                   PROVE  session = "live" /\ age <= RenewalInterval /\ wire' # <<>>
      BY <1>1 DEF Lease, Early
    <3>2. session = "live" /\ age + left <= RenewalInterval
      BY <1>1, <2>4, <3>1 DEF DebugInv, Lease
    <3> QED
      BY <1>1, <1>2, <2>4, <3>1, <3>2
  <2> QED
    BY <1>4, <1>5, <2>3, <2>6, <2>7 DEF DebugInv
<1> QED
  BY <1>6, <1>7

LEMMA ReplyStep ==
  ASSUME DebugTypeOK, DebugInv, ~down, OnReply
  PROVE  DebugInv'
<1>1. /\ replies # <<>> /\ replies' = Tail(replies)
      /\ UNCHANGED <<closer, connecting, wire, closed, session, age, renewed, busy, workers, prompt>>
  BY DEF OnReply, lease, given
<1>2. /\ replies \in Seq(Outcomes) /\ call \in [Calls -> Answers] /\ "registerRunner" \in Calls
      /\ "unregisterRunner" \in Calls
  BY DEF DebugTypeOK, Calls
<1>3. /\ DOMAIN replies = 1 .. Len(replies) /\ Len(replies) \in Nat \ {0}
      /\ DOMAIN replies' = 1 .. Len(replies) - 1 /\ Len(replies') = Len(replies) - 1
      /\ \A i \in 1 .. Len(replies) - 1 : replies'[i] = replies[i + 1]
      /\ Head(replies) = replies[1]
  BY <1>1, <1>2, LenProperties, HeadTailProperties, EmptySeq
<1>4. registered /\ step \notin {"idle", "registering"}
  BY <1>1 DEF DebugInv, Quiet
<1>5. \A b, i \in DOMAIN replies' : replies'[b] = "bye" /\ b < i => replies'[i] = "refused"
  <2>1. ASSUME NEW b \in DOMAIN replies', NEW i \in DOMAIN replies', replies'[b] = "bye", b < i
        PROVE  replies'[i] = "refused"
    <3>1. b + 1 \in DOMAIN replies /\ i + 1 \in DOMAIN replies /\ b + 1 < i + 1
      BY <1>3, <2>1
    <3> QED
      BY <1>3, <2>1, <3>1 DEF DebugInv, Closing
  <2> QED
    BY <2>1
<1>6. Has(replies', "bye") => closed
  BY <1>1, <1>2, HasTail DEF DebugInv, Closing
<1>13. step = "connecting" => ~Has(replies', "renewed")
  BY <1>1, <1>2, HasTail DEF DebugInv, Quiet
<1>7. Has(replies, "renewed")' = Has(replies', "renewed") /\ Has(replies, "bye")' = Has(replies', "bye") /\ Has(wire, "EXPIRE")' = Has(wire, "EXPIRE")
      /\ Has(wire, "QUIT")' = Has(wire, "QUIT")
  BY <1>1 DEF Has
<1>8. AllRefused => AllRefused' /\ Head(replies) = "refused"
  <2>1. \A i \in 1 .. Len(replies) - 1 : i + 1 \in DOMAIN replies
    BY <1>3
  <2>2. 1 \in DOMAIN replies
    BY <1>3
  <2> QED
    BY <1>3, <2>1, <2>2 DEF AllRefused
<1>9. stopper \in Early => replies' = <<>> /\ wire = <<>> /\ ~armed
  <2>1. stopper \in Early => Len(replies) = 1 /\ wire = <<>> /\ ~armed
    BY <1>1 DEF DebugInv, OneRenewal
  <2>2. Len(replies) = 1 => replies' = <<>>
    BY <1>1, <1>2, <1>3, HeadTailProperties, EmptySeq
  <2> QED
    BY <2>1, <2>2
<1>10. CASE OnRenewalFailed
  <2>1. /\ Head(replies) \in {"missing", "refused"} /\ down' = (closer = "nobody")
        /\ UNCHANGED <<step, stopper, call, armed, left>>
    BY <1>10 DEF OnRenewalFailed, timer, stopped
  <2>2. Shape'
    BY <1>1, <2>1 DEF DebugInv, Shape, registered
  <2>3. Settled'
    BY <1>1, <1>4, <2>1 DEF DebugInv, Settled, registered
  <2>4. Quiet'
    BY <1>1, <1>4, <1>7, <1>9, <1>13, <2>1 DEF DebugInv, Quiet, registered, Early
  <2>5. OneRenewal'
    BY <1>1, <1>7, <1>9, <2>1 DEF DebugInv, OneRenewal, Early
  <2>6. Lease'
    BY <1>1, <1>9, <2>1 DEF DebugInv, Lease, Early
  <2>7. Closing'
    BY <1>1, <1>5, <1>6, <1>7, <1>8, <2>1 DEF DebugInv, Closing
  <2> QED
    BY <2>2, <2>3, <2>4, <2>5, <2>6, <2>7 DEF DebugInv
<1>11. CASE Head(replies) = "renewed" /\ ~OnRenewalFailed
  <2>1. /\ armed' = TRUE /\ left' = RenewalInterval
        /\ UNCHANGED <<step, stopper, call, down>>
    BY <1>11 DEF OnReply
  <2>2. ~AllRefused
    BY <1>8, <1>11
  <2>3. Shape' /\ Settled'
    BY <1>1, <2>1 DEF DebugInv, Shape, Settled, registered
  <2>4. step # "connecting"
    BY <1>3, <1>11 DEF DebugInv, Quiet, Has
  <2>5. closer = "start" => stopper \notin {"unregistering", "done"}
    BY <1>1, <1>4, <2>2 DEF DebugInv, Closing, registered
  <2>6. Closing'
    BY <1>1, <1>5, <1>6, <1>7, <2>1, <2>5 DEF DebugInv, Closing
  <2>7. OneRenewal'
    BY <1>1, <1>7, <1>9, <2>1 DEF DebugInv, OneRenewal, Early
  <2>8. Lease'
    <3>1. SUFFICES ASSUME prompt, renewed, stopper \in Early
                   PROVE  session = "live" /\ age + RenewalInterval <= RenewalInterval
      BY <1>1, <2>1 DEF Lease, Early
    <3>2. session = "live" /\ age = 0
      BY <1>1, <1>9, <3>1 DEF DebugInv, Lease
    <3> QED
      BY <3>2, LeaseAssumption
  <2>9. Quiet'
    BY <1>1, <1>4, <2>1, <2>4 DEF DebugInv, Quiet, registered, Early
  <2> QED
    BY <2>3, <2>6, <2>7, <2>8, <2>9 DEF DebugInv
<1>12. CASE Head(replies) = "bye" /\ ~OnRenewalFailed
  <2>1. /\ armed' = FALSE /\ stopper' = "unregistering"
        /\ call' = [call EXCEPT !["unregisterRunner"] = "sent"]
        /\ UNCHANGED <<step, down, left>>
    BY <1>12 DEF OnReply, GiveUpSession
  <2>2. 1 \in DOMAIN replies /\ closed
    BY <1>3, <1>12 DEF DebugInv, Closing, Has
  <2>3. AllRefused'
    <3>1. ASSUME NEW i \in DOMAIN replies'
          PROVE  replies'[i] = "refused"
      <4>1. i + 1 \in DOMAIN replies /\ 1 < i + 1
        BY <1>3
      <4> QED
        BY <1>3, <1>12, <2>2, <4>1 DEF DebugInv, Closing
    <3> QED
      BY <3>1 DEF AllRefused
  <2>4. call'["registerRunner"] = call["registerRunner"] /\ registered'
    BY <1>2, <1>4, <2>1 DEF registered
  <2>5. closer # "nobody"
    BY <2>2 DEF DebugInv, Closing
  <2>6. Shape'
    BY <1>1, <1>4, <2>1, <2>4, <2>5 DEF DebugInv, Shape
  <2>7. Settled' /\ OneRenewal' /\ Lease'
    BY <2>1 DEF Settled, OneRenewal, Lease, Early
  <2>8. Quiet'
    BY <1>1, <1>4, <1>7, <1>13, <2>1, <2>4 DEF DebugInv, Quiet, Early
  <2>9. Closing'
    BY <1>1, <1>5, <1>6, <1>7, <2>1, <2>2, <2>3 DEF DebugInv, Closing
  <2> QED
    BY <2>6, <2>7, <2>8, <2>9 DEF DebugInv
<1> QED
  BY <1>10, <1>11, <1>12 DEF OnReply

LEMMA ServeStep ==
  ASSUME DebugTypeOK, DebugInv, NEW c \in Calls, Serve(c)
  PROVE  DebugInv'
<1>1. /\ call[c] = "sent"
      /\ UNCHANGED <<step, closer, stopper, connecting, wire, replies, closed, armed, left, renewed, busy>>
      /\ UNCHANGED <<workers, prompt, down>>
  BY DEF Serve, redis, timer, given
<1>2. call' = [call EXCEPT ![c] = "refused"] \/ call' = [call EXCEPT ![c] = "done"]
  BY DEF Serve
<1>3. /\ "registerRunner" \in Calls /\ "unregisterRunner" \in Calls
      /\ \A x \in Calls : call'[x] = call[x] \/ (x = c /\ call'[x] \in {"done", "refused"})
  BY <1>2 DEF DebugTypeOK, Calls
<1>4. registered => registered'
  BY <1>1, <1>3 DEF registered
<1>5. call["registerRunner"] = "refused" => call'["registerRunner"] = "refused"
  BY <1>1, <1>3
<1>6. call["unregisterRunner"] \in {"done", "refused"} => call'["unregisterRunner"] \in {"done", "refused"}
  BY <1>1, <1>3
<1>7. Shape' /\ Settled'
  BY <1>1, <1>4, <1>5, <1>6 DEF DebugInv, Shape, Settled
<1>8. Quiet'
  BY <1>1, <1>4 DEF DebugInv, Quiet, Has, Early
<1>9. Closing'
  BY <1>1, <1>5 DEF DebugInv, Closing, AllRefused, Has
<1>10. stopper \in Early => c # "unregisterRunner" /\ call'["unregisterRunner"] = "none"
  BY <1>1, <1>3 DEF DebugInv, OneRenewal
<1>11. OneRenewal'
  BY <1>1, <1>10 DEF DebugInv, OneRenewal, Has, Early
<1>12. renewed => c # "registerRunner"
  BY <1>1 DEF DebugInv, Quiet, registered
<1>13. stopper \in Early /\ renewed => session' = session /\ age' = age
  <2>1. SUFFICES ASSUME c = "registerModel" PROVE session' = session /\ age' = age
    BY <1>10, <1>12 DEF Calls
  <2> QED
    BY <2>1 DEF Serve
<1>14. Lease'
  BY <1>1, <1>13 DEF DebugInv, Lease, Early
<1> QED
  BY <1>7, <1>8, <1>9, <1>11, <1>14 DEF DebugInv

LEMMA ServeExpireStep ==
  ASSUME DebugTypeOK, DebugInv, ServeExpire
  PROVE  DebugInv'
<1>1. /\ wire # <<>> /\ Head(wire) = "EXPIRE" /\ wire' = Tail(wire)
      /\ UNCHANGED <<step, closer, stopper, call, connecting, closed, armed, left, session, busy, workers, prompt, down>>
      /\ \/ session = "live" /\ age' = 0 /\ renewed' = TRUE /\ replies' = Append(replies, "renewed")
         \/ /\ session # "live" /\ replies' = Append(replies, "missing") /\ age' = age /\ renewed' = renewed
         \/ ~prompt /\ replies' = Append(replies, "refused") /\ age' = age /\ renewed' = renewed
  BY DEF ServeExpire, timer, given
<1>2. /\ wire \in Seq(Commands) /\ replies \in Seq(Outcomes)
      /\ "renewed" \in Outcomes /\ "missing" \in Outcomes /\ "refused" \in Outcomes
  BY DEF DebugTypeOK, Outcomes
<1>3. Has(wire, "EXPIRE") /\ ~closed
  <2>1. 1 \in DOMAIN wire /\ wire[1] = "EXPIRE"
    BY <1>1, <1>2, EmptySeq, LenProperties
  <2> QED
    BY <1>1, <2>1 DEF Has, DebugInv, Closing
<1>4. registered /\ step \notin {"idle", "registering", "connecting"}
  BY <1>1, <1>3 DEF DebugInv, Quiet
<1>5. Shape' /\ Settled'
  BY <1>1 DEF DebugInv, Shape, Settled, registered
<1>6. Quiet'
  BY <1>1, <1>4 DEF Quiet, registered
<1>7. ~Has(replies', "bye")
  <2>1. ~Has(replies, "bye")
    BY <1>3 DEF DebugInv, Closing
  <2>2. /\ ~Has(Append(replies, "renewed"), "bye") /\ ~Has(Append(replies, "missing"), "bye")
        /\ ~Has(Append(replies, "refused"), "bye")
    BY <1>2, <2>1, HasAppend
  <2> QED
    BY <1>1, <2>2
<1>8. closer = "start" => stopper \notin {"unregistering", "done"}
  BY <1>3, <1>4 DEF DebugInv, Closing, registered
<1>9. Closing'
  BY <1>1, <1>3, <1>7, <1>8 DEF Closing, Has
<1>10. stopper \in Early =>
         ~armed /\ wire' = <<>> /\ Len(replies') = 1
         /\ (prompt /\ session = "live" => Head(replies') = "renewed" /\ replies' # <<>> /\ age' = 0)
  <2>1. SUFFICES ASSUME stopper \in Early
                 PROVE  ~armed /\ wire' = <<>> /\ Len(replies') = 1
                        /\ (prompt /\ session = "live" =>
                              Head(replies') = "renewed" /\ replies' # <<>> /\ age' = 0)
    OBVIOUS
  <2>2. ~armed /\ replies = <<>> /\ Len(wire) = 1
    BY <1>1, <2>1 DEF DebugInv, OneRenewal
  <2>3. wire' = <<>>
    BY <1>1, <1>2, <2>2, HeadTailProperties, EmptySeq
  <2>4. Len(replies') = 1 /\ \A x \in Outcomes : replies' = Append(replies, x) => replies'[1] = x /\ replies' # <<>>
    BY <1>1, <1>2, <2>2
  <2>5. prompt /\ session = "live" => Head(replies') = "renewed" /\ replies' # <<>> /\ age' = 0
    BY <1>1, <1>2, <2>4
  <2> QED
    BY <2>2, <2>3, <2>4, <2>5
<1>11. OneRenewal'
  BY <1>1, <1>10, HasNothing DEF DebugInv, OneRenewal, Early, Has
<1>12. Lease'
  <2>1. SUFFICES ASSUME prompt, renewed', ~down, stopper \in Early
                 PROVE  session = "live"
    BY <1>1, <1>10 DEF Lease, Early
  <2>2. CASE renewed
    BY <2>1, <2>2 DEF DebugInv, Lease
  <2>3. CASE ~renewed
    BY <1>1, <2>1, <2>3
  <2> QED
    BY <2>2, <2>3
<1> QED
  BY <1>5, <1>6, <1>9, <1>11, <1>12 DEF DebugInv

LEMMA ServeQuitStep ==
  ASSUME DebugTypeOK, DebugInv, ServeQuit
  PROVE  DebugInv'
<1> DEFINE n == Len(replies)
           m == Len(wire) - 1
<1>1. /\ wire # <<>> /\ Head(wire) = "QUIT" /\ wire' = <<>> /\ closed' = TRUE
      /\ replies' = replies \o <<"bye">> \o [i \in 1 .. m |-> "refused"]
      /\ UNCHANGED <<step, closer, stopper, call, connecting, armed, left, session, age, renewed, busy>>
      /\ UNCHANGED <<workers, prompt, down>>
  BY DEF ServeQuit, timer, lease, given
<1>2. wire \in Seq(Commands) /\ replies \in Seq(Outcomes)
  BY DEF DebugTypeOK
<1>3. Len(wire) \in Nat \ {0} /\ m \in Nat /\ n \in Nat
  BY <1>1, <1>2, EmptySeq, LenProperties
<1>4. Has(wire, "QUIT") /\ ~closed
  <2>1. 1 \in DOMAIN wire /\ wire[1] = "QUIT"
    BY <1>1, <1>2, <1>3, LenProperties
  <2> QED
    BY <1>1, <2>1 DEF Has, DebugInv, Closing
<1>5. /\ DOMAIN replies' = 1 .. n + 1 + m
      /\ \A i \in 1 .. n + 1 + m :
           replies'[i] = IF i <= n THEN replies[i] ELSE IF i = n + 1 THEN "bye" ELSE "refused"
  <2> DEFINE f == [i \in 1 .. m |-> "refused"]
             g == replies \o <<"bye">>
  <2>1. f \in Seq(Outcomes) /\ Len(f) = m /\ \A i \in 1 .. m : f[i] = "refused"
    BY <1>3, RefusedType
  <2>2. <<"bye">> \in Seq(Outcomes) /\ Len(<<"bye">>) = 1 /\ <<"bye">>[1] = "bye"
    BY DEF Outcomes
  <2>3. /\ g \in Seq(Outcomes) /\ Len(g) = n + 1
        /\ \A i \in 1 .. n + 1 : g[i] = IF i <= n THEN replies[i] ELSE "bye"
    BY <1>2, <1>3, ConcatOne DEF Outcomes
  <2> HIDE DEF f, g, m, n
  <2>4. /\ g \o f \in Seq(Outcomes) /\ Len(g \o f) = Len(g) + Len(f)
        /\ \A i \in 1 .. Len(g) + Len(f) : (g \o f)[i] = IF i <= Len(g) THEN g[i] ELSE f[i - Len(g)]
    BY <2>1, <2>3, ConcatProperties, Zenon
  <2>5. replies' = g \o f
    BY <1>1 DEF f, g
  <2>6. DOMAIN replies' = 1 .. n + 1 + m
    BY <2>1, <2>3, <2>4, <2>5, LenProperties
  <2>7. ASSUME NEW i \in 1 .. n + 1 + m
        PROVE  replies'[i] = IF i <= n THEN replies[i] ELSE IF i = n + 1 THEN "bye" ELSE "refused"
    <3>1. replies'[i] = IF i <= n + 1 THEN g[i] ELSE f[i - (n + 1)]
      BY <2>1, <2>3, <2>4, <2>5, <2>7
    <3>2. CASE i <= n + 1
      BY <1>3, <2>3, <2>7, <3>1, <3>2
    <3>3. CASE ~(i <= n + 1)
      <4>1. i - (n + 1) \in 1 .. m
        BY <1>3, <2>7, <3>3
      <4> QED
        BY <1>3, <2>1, <2>7, <3>1, <3>3, <4>1
    <3> QED
      BY <3>2, <3>3
  <2> QED
    BY <2>6, <2>7
<1>6. DOMAIN replies = 1 .. n /\ ~Has(replies, "bye")
  BY <1>2, <1>4, LenProperties DEF DebugInv, Closing
<1> HIDE DEF n, m
<1>7. stopper \notin Early /\ closer # "nobody"
  BY <1>4 DEF DebugInv, OneRenewal, Shape, Early
<1>8. registered
  BY <1>1 DEF DebugInv, Quiet
<1>9. closer = "start" => stopper \notin {"unregistering", "done"}
  BY <1>4, <1>8 DEF DebugInv, Closing, registered
<1>10. \A b, i \in DOMAIN replies' : replies'[b] = "bye" /\ b < i => replies'[i] = "refused"
  <2>1. ASSUME NEW b \in DOMAIN replies', NEW i \in DOMAIN replies', replies'[b] = "bye", b < i
        PROVE  replies'[i] = "refused"
    <3>1. ~(b <= n)
      <4>1. SUFFICES ASSUME b <= n PROVE FALSE
        OBVIOUS
      <4>2. b \in DOMAIN replies /\ replies[b] = "bye"
        BY <1>3, <1>5, <1>6, <2>1, <4>1
      <4> QED
        BY <1>6, <4>2 DEF Has
    <3>2. ~(i <= n) /\ i # n + 1
      BY <1>3, <1>5, <2>1, <3>1
    <3> QED
      BY <1>5, <3>2
  <2> QED
    BY <2>1
<1>11. Closing'
  BY <1>1, <1>7, <1>9, <1>10 DEF Closing
<1>12. Shape' /\ Settled'
  BY <1>1 DEF DebugInv, Shape, Settled, registered
<1>13. step = "connecting" => ~Has(replies', "renewed")
  <2>1. SUFFICES ASSUME step = "connecting", NEW i \in DOMAIN replies', replies'[i] = "renewed"
                 PROVE  FALSE
    BY DEF Has
  <2>2. i <= n /\ replies[i] = "renewed" /\ i \in DOMAIN replies
    BY <1>3, <1>5, <1>6, <2>1
  <2> QED
    BY <2>1, <2>2 DEF DebugInv, Quiet, Has
<1>14. Quiet'
  BY <1>1, <1>7, <1>8, <1>13, HasNothing DEF DebugInv, Quiet, Shape, Has, registered
<1>15. OneRenewal' /\ Lease'
  BY <1>1, <1>7 DEF OneRenewal, Lease, Early
<1> QED
  BY <1>11, <1>12, <1>14, <1>15 DEF DebugInv

LEMMA TickStep ==
  ASSUME DebugTypeOK, DebugInv, Tick
  PROVE  DebugInv'
<1>1. /\ UNCHANGED <<step, closer, stopper, call, connecting, wire, replies, closed, armed, renewed, busy>>
      /\ UNCHANGED <<workers, prompt, down>>
      /\ prompt /\ ~down => wire = <<>> /\ replies = <<>> /\ ~(armed /\ left = 0)
      /\ left' = IF armed /\ left > 0 THEN left - 1 ELSE left
  BY DEF Tick, redis, given
<1>2. Shape' /\ Settled'
  BY <1>1 DEF DebugInv, Shape, Settled, registered
<1>3. Quiet' /\ OneRenewal'
  BY <1>1 DEF DebugInv, Quiet, OneRenewal, registered, Has, Early
<1>4. Closing'
  BY <1>1 DEF DebugInv, Closing, AllRefused, Has
<1>5. Lease'
  <2>1. SUFFICES ASSUME prompt, renewed, ~down, stopper \in Early
                 PROVE  session' = "live" /\ armed /\ age' + left' <= RenewalInterval
    BY <1>1 DEF Lease, Early
  <2>2. session = "live" /\ armed /\ age + left <= RenewalInterval /\ left # 0
    BY <1>1, <2>1 DEF DebugInv, Lease
  <2>3. age \in Nat /\ left \in Nat /\ SessionTTL \in Nat /\ RenewalInterval \in Nat /\ RenewalInterval < SessionTTL
    BY LeaseAssumption DEF DebugTypeOK
  <2>4. age + 1 # SessionTTL /\ left' = left - 1
    BY <1>1, <2>2, <2>3
  <2>5. session' = session /\ age' = age + 1
    BY <2>2, <2>4 DEF Tick
  <2> QED
    BY <2>2, <2>3, <2>4, <2>5
<1> QED
  BY <1>2, <1>3, <1>4, <1>5 DEF DebugInv

LEMMA DebugInvStep ==
  ASSUME DebugTypeOK, DebugInv, [DebugNext]_debugVars
  PROVE  DebugInv'
<1>1. CASE UNCHANGED debugVars
  <2>1. /\ UNCHANGED <<step, closer, stopper, call, connecting, wire, replies, closed, armed, left>>
        /\ UNCHANGED <<session, age, renewed, busy, workers, prompt, down>>
    BY <1>1 DEF debugVars, redis, timer, lease, given
  <2>2. Shape' /\ Settled'
    BY <2>1 DEF DebugInv, Shape, Settled, registered
  <2>3. Quiet' /\ OneRenewal' /\ Lease'
    BY <2>1 DEF DebugInv, Quiet, OneRenewal, Lease, registered, Has, Early
  <2>4. Closing'
    BY <2>1 DEF DebugInv, Closing, AllRefused, Has
  <2> QED
    BY <2>2, <2>3, <2>4 DEF DebugInv
<1> QED
  BY <1>1, StartStep, StoppingStep, ReadyStep, RenewalTimerStep, ReplyStep, ServeStep, ServeExpireStep,
     ServeQuitStep, TickStep DEF DebugNext, Handle, Servers

\* The parts of the invariant hold in every reachable state.
THEOREM DebugInvCorrect == DebugSpec => []DebugInv
<1>1. DebugTypeOK /\ DebugInv /\ [DebugNext]_debugVars => DebugInv'
  BY DebugInvStep
<1> QED
  BY <1>1, DebugTypeCorrect, DebugInvInit, PTL DEF DebugSpec

\* The session is renewed by one chain of requests until stop() gives it up.
THEOREM OneRenewalAlways == DebugSpec => []OneRenewalAtMost
<1>1. DebugTypeOK /\ DebugInv => OneRenewalAtMost
  <2>1. SUFFICES ASSUME DebugTypeOK, DebugInv, stopper \in Early
                 PROVE  Len(wire) + Len(replies) + (IF armed THEN 1 ELSE 0) <= 1
    BY DEF OneRenewalAtMost, Early
  <2>2. /\ Len(wire) \in Nat /\ Len(replies) \in Nat /\ armed \in BOOLEAN
        /\ wire = <<>> => Len(wire) = 0
        /\ replies = <<>> => Len(replies) = 0
    BY <2>1, LenProperties DEF DebugTypeOK
  <2>3. /\ armed => wire = <<>> /\ replies = <<>>
        /\ wire # <<>> => replies = <<>> /\ Len(wire) = 1
        /\ replies # <<>> => Len(replies) = 1
    BY <2>1 DEF DebugInv, OneRenewal
  <2>4. CASE armed
    BY <2>2, <2>3, <2>4
  <2>5. CASE ~armed /\ wire # <<>>
    BY <2>2, <2>3, <2>5
  <2>6. CASE ~armed /\ wire = <<>>
    BY <2>2, <2>3, <2>6
  <2> QED
    BY <2>4, <2>5, <2>6
<1> QED
  BY <1>1, DebugTypeCorrect, DebugInvCorrect, PTL

\* A session that was renewed is not lost under the runner, for every TTL that
\* is longer than the interval of the renewals.
THEOREM LeaseAlwaysHeld == DebugSpec => []LeaseHeld
<1>1. DebugInv => LeaseHeld
  BY DEF DebugInv, Lease, LeaseHeld, Early
<1> QED
  BY <1>1, DebugInvCorrect, PTL

\* When a failed start has stopped the runner, nothing renews the session.
THEOREM NeverRenewalLeft == DebugSpec => []NoRenewalLeft
<1>1. DebugInv => NoRenewalLeft
  <2>1. SUFFICES ASSUME DebugInv, closer = "start", stopper = "done"
                 PROVE  ~armed /\ ~Has(wire, "EXPIRE") /\ ~Has(replies, "renewed")
    BY DEF NoRenewalLeft
  <2>2. CASE call["registerRunner"] = "refused"
    BY <2>1, <2>2, HasNothing DEF DebugInv, Quiet, registered
  <2>3. CASE closed /\ ~armed /\ AllRefused
    BY <2>1, <2>3, HasNothing DEF DebugInv, Closing, AllRefused, Has
  <2> QED
    BY <2>1, <2>2, <2>3 DEF DebugInv, Closing
<1> QED
  BY <1>1, DebugInvCorrect, PTL

\* However start() and stop() interleave, a stop that has returned has asked the
\* server to forget a session the runner knew of.
THEOREM KnownSessionAlwaysUnregistered == DebugSpec => []KnownSessionIsUnregistered
<1>1. DebugInv => KnownSessionIsUnregistered
  BY DEF DebugInv, Settled, KnownSessionIsUnregistered, KnowsSession
<1> QED
  BY <1>1, DebugInvCorrect, PTL

=============================================================================
