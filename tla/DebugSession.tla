---------------------------- MODULE DebugSession ----------------------------
(***************************************************************************)
(* `coderunner debug`: the debug session of                                *)
(* lib/server-code/runners/debug.js, with the requests of                  *)
(* lib/server-code/services/api-server.js, the setter connection of        *)
(* lib/server-code/services/messages-broker.js and the termination hook of *)
(* lib/cli/clirunner.js.                                                   *)
(*                                                                         *)
(* The server holds a session for SessionTTL, and the runner renews it     *)
(* over Redis every RenewalInterval.  start() and stop() are asynchronous: *)
(* a signal may begin the stop at any await of the start.                  *)
(***************************************************************************)
EXTENDS Integers, Sequences

CONSTANTS
  SessionTTL,        \* SESSION_TTL, in ticks of the model's clock
  RenewalInterval    \* SESSION_RENEWAL_INTERVAL

ASSUME LeaseAssumption ==
  /\ SessionTTL \in Nat /\ RenewalInterval \in Nat \ {0}
  /\ RenewalInterval < SessionTTL

VARIABLES
  step,       \* the await start() is at
  closer,     \* who called stop() first
  stopper,    \* the await that stop() is at
  call,       \* the requests to the API server
  connecting, \* Redis clients that are not ready yet
  wire,       \* commands on the setter connection
  replies,    \* their replies, in the order of the commands
  closed,     \* the setter connection has ended
  armed,      \* is sessionRenewalTimer pending?
  left,       \* ticks until it is due
  session,    \* the session on the server
  age,        \* ticks since it was registered or renewed
  renewed,    \* has it ever been renewed?
  busy,       \* is a task being processed?
  workers,    \* did initWorkersBroker fork worker processes?
  prompt,     \* do Redis and the event loop answer within a tick, without errors?
  down        \* the process has exited

lease == <<session, age, renewed>>
timer == <<armed, left>>
redis == <<connecting, wire, replies, closed>>
given == <<workers, prompt>>
debugVars == <<step, closer, stopper, call, redis, timer, lease, busy, given, down>>

Calls == {"registerRunner", "registerModel", "unregisterRunner"}
Clients == {"getter", "setter", "subscriber"}
stopped == closer # "nobody"

DebugInit ==
  /\ step = "idle" /\ closer = "nobody" /\ stopper = "none"
  /\ call = [c \in Calls |-> "none"]
  /\ connecting = {} /\ wire = <<>> /\ replies = <<>> /\ closed = FALSE
  /\ armed = FALSE /\ left = 0
  /\ session = "none" /\ age = 0 /\ renewed = FALSE
  /\ busy = FALSE
  /\ workers \in BOOLEAN /\ prompt \in BOOLEAN
  /\ down = FALSE

----------------------------------------------------------------------------
(* stop                                                                    *)

\* stop() settles: the hook exits the process, the catch of start() does not
StopReturns(who) ==
  /\ stopper' = "done"
  /\ IF who = "signal" THEN down' = TRUE /\ UNCHANGED step
                       ELSE step' = "ended" /\ UNCHANGED down

\* Mutant of GiveUpSession: the timer is forgotten
GiveUpSessionArmed ==
  /\ call' = [call EXCEPT !["unregisterRunner"] = "sent"]
  /\ stopper' = "unregistering"
  /\ UNCHANGED <<step, down, timer>>

\* After super.stop(): the timer is cleared and the session given up
GiveUpSession ==
  /\ armed' = FALSE
  /\ call' = [call EXCEPT !["unregisterRunner"] = "sent"]
  /\ stopper' = "unregistering"
  /\ UNCHANGED <<step, down, left>>

QuitSetter ==
  /\ wire' = Append(wire, "QUIT")
  /\ stopper' = "quitting"
  /\ UNCHANGED <<step, down, timer, call, closed>>

\* Mutant of StopBroker: a runner without a timer has no session to give up
StopBrokerForgetting(who) ==
  IF step = "registering" \/ connecting # {}
  THEN StopReturns(who) /\ UNCHANGED <<call, wire, closed, timer>>
  ELSE QuitSetter

\* super.stop() once no worker is busy.  A client that has sent nothing and is
\* not connected answers quit() at once.
StopBroker(who) ==
  \/ step = "registering" /\ StopReturns(who) /\ UNCHANGED <<call, wire, closed, timer>>
  \/ /\ step # "registering" /\ "setter" \in connecting
     /\ closed' = TRUE /\ GiveUpSession /\ UNCHANGED wire
  \/ step # "registering" /\ "setter" \notin connecting /\ QuitSetter

\* Mutant of BeginStop: the timer is cleared at once
BeginStopClearing(who) ==
  /\ ~stopped
  /\ closer' = who
  /\ IF busy
     THEN stopper' = "draining" /\ armed' = FALSE
          /\ UNCHANGED <<step, call, wire, closed, left, down>>
     ELSE StopBroker(who)

BeginStop(who) ==
  /\ ~stopped
  /\ closer' = who
  /\ IF busy
     THEN stopper' = "draining" /\ UNCHANGED <<step, call, wire, closed, timer, down>>
     ELSE StopBroker(who)

\* SIGINT or SIGTERM; the handler does nothing once the runner is stopped
Signal ==
  /\ step # "idle"
  /\ BeginStop("signal")
  /\ UNCHANGED <<connecting, replies, lease, busy, given>>

FinishTask ==
  /\ busy /\ busy' = FALSE
  /\ IF stopper = "draining"
     THEN StopBroker(closer)
     ELSE UNCHANGED <<step, stopper, call, wire, closed, timer, down>>
  /\ UNCHANGED <<closer, connecting, replies, lease, given>>

\* Mutant of OnUnregistered: the process does not exit after a signal
OnUnregisteredStaying ==
  /\ stopper = "unregistering" /\ call["unregisterRunner"] \in {"done", "refused"}
  /\ stopper' = "done" /\ step' = "ended"
  /\ UNCHANGED <<closer, call, redis, timer, lease, busy, given, down>>

\* A refusal makes stop() reject, which ends the process for both callers
OnUnregistered ==
  /\ stopper = "unregistering"
  /\ \/ call["unregisterRunner"] = "done" /\ StopReturns(closer)
     \/ /\ call["unregisterRunner"] = "refused"
        /\ stopper' = "done" /\ down' = TRUE /\ UNCHANGED step
  /\ UNCHANGED <<closer, call, redis, timer, lease, busy, given>>

----------------------------------------------------------------------------
(* start                                                                   *)

\* Without code buildModel throws, before the try block, and the runner exits
Start ==
  /\ step = "idle"
  /\ \/ down' = TRUE /\ UNCHANGED <<step, call>>
     \/ /\ step' = "registering"
        /\ call' = [call EXCEPT !["registerRunner"] = "sent"]
        /\ UNCHANGED down
  /\ UNCHANGED <<closer, stopper, redis, timer, lease, busy, given>>

OnRegistered ==
  /\ step = "registering" /\ call["registerRunner"] = "done"
  /\ step' = "connecting" /\ connecting' = Clients
  /\ UNCHANGED <<closer, stopper, call, wire, replies, closed, timer, lease, busy, given, down>>

\* start() catches the refusal of a request and stops the runner
OnRefused(s, c) ==
  /\ step = s /\ call[c] = "refused"
  /\ \/ BeginStop("start")
     \/ /\ stopped /\ closer = "signal" /\ step' = "ended"
        /\ UNCHANGED <<closer, stopper, call, wire, closed, timer, down>>
  /\ UNCHANGED <<connecting, replies, lease, busy, given>>

\* A client is ready.  The last one lets start() go on, stopped or not; stop()
\* has disconnected the getter, and the setter if it was not connected.
OnReady(client) ==
  /\ client \in connecting
  /\ client = "getter" => ~stopped
  /\ client = "setter" => ~closed
  /\ connecting' = connecting \ {client}
  /\ IF connecting' = {}
     THEN /\ step' = "modelling"
          /\ armed' = TRUE /\ left' = RenewalInterval
          /\ call' = [call EXCEPT !["registerModel"] = "sent"]
     ELSE UNCHANGED <<step, timer, call>>
  /\ UNCHANGED <<closer, stopper, wire, replies, closed, lease, busy, given, down>>

OnModelRegistered ==
  /\ step = "modelling" /\ call["registerModel"] = "done"
  /\ step' = IF stopped THEN "ended" ELSE "serving"
  /\ UNCHANGED <<closer, stopper, call, redis, timer, lease, busy, given, down>>

TakeTask ==
  /\ step = "serving" /\ ~stopped /\ ~busy
  /\ busy' = TRUE
  /\ UNCHANGED <<step, closer, stopper, call, redis, timer, lease, given, down>>

----------------------------------------------------------------------------
(* keepDebugSessionAlive                                                   *)

\* Mutant of OnRenewalTimer: the timer is armed without awaiting expireKey
OnRenewalTimerAtOnce ==
  /\ armed /\ left = 0
  /\ left' = RenewalInterval
  /\ IF closed THEN replies' = Append(replies, "refused") /\ UNCHANGED wire
               ELSE wire' = Append(wire, "EXPIRE") /\ UNCHANGED replies
  /\ UNCHANGED <<step, closer, stopper, call, connecting, closed, armed, lease, busy, given, down>>

OnRenewalTimer ==
  /\ armed /\ left = 0
  /\ armed' = FALSE
  /\ IF closed THEN replies' = Append(replies, "refused") /\ UNCHANGED wire
               ELSE wire' = Append(wire, "EXPIRE") /\ UNCHANGED replies
  /\ UNCHANGED <<step, closer, stopper, call, connecting, closed, left, lease, busy, given, down>>

\* Mutant of OnRenewalFailed: the error is only logged
OnRenewalFailedLogging ==
  /\ Head(replies) \in {"missing", "refused"}
  /\ UNCHANGED <<step, stopper, call, timer, down>>

OnRenewalFailed ==
  /\ Head(replies) \in {"missing", "refused"}
  /\ down' = ~stopped
  /\ UNCHANGED <<step, stopper, call, timer>>

\* The reply to expire arms the timer again, whether the runner is stopped or
\* not; the reply to quit lets stop() go on
OnReply ==
  /\ replies # <<>>
  /\ replies' = Tail(replies)
  /\ \/ OnRenewalFailed
     \/ /\ Head(replies) = "renewed"
        /\ armed' = TRUE /\ left' = RenewalInterval
        /\ UNCHANGED <<step, stopper, call, down>>
     \/ Head(replies) = "bye" /\ GiveUpSession
  /\ UNCHANGED <<closer, connecting, wire, closed, lease, busy, given>>

----------------------------------------------------------------------------
(* The API server, Redis and time                                          *)

Serve(c) ==
  /\ call[c] = "sent"
  /\ \/ call' = [call EXCEPT ![c] = "refused"] /\ UNCHANGED <<session, age>>
     \/ /\ call' = [call EXCEPT ![c] = "done"]
        /\ session' = CASE c = "registerRunner" -> "live"
                        [] c = "unregisterRunner" -> "none"
                        [] OTHER -> session
        /\ age' = IF c = "registerRunner" THEN 0 ELSE age
  /\ UNCHANGED <<step, closer, stopper, redis, timer, renewed, busy, given, down>>

\* EXPIRE answers 0 when the key is gone, and is rejected when Redis answers with an
\* error or the connection is lost
ServeExpire ==
  /\ wire # <<>> /\ Head(wire) = "EXPIRE"
  /\ wire' = Tail(wire)
  /\ \/ /\ session = "live"
        /\ age' = 0 /\ renewed' = TRUE /\ replies' = Append(replies, "renewed")
     \/ session # "live" /\ replies' = Append(replies, "missing") /\ UNCHANGED <<age, renewed>>
     \/ ~prompt /\ replies' = Append(replies, "refused") /\ UNCHANGED <<age, renewed>>
  /\ UNCHANGED <<step, closer, stopper, call, connecting, closed, timer, session, busy, given, down>>

\* Commands behind QUIT are rejected when the connection ends
ServeQuit ==
  /\ wire # <<>> /\ Head(wire) = "QUIT"
  /\ wire' = <<>> /\ closed' = TRUE
  /\ replies' = replies \o <<"bye">> \o [i \in 1 .. Len(wire) - 1 |-> "refused"]
  /\ UNCHANGED <<step, closer, stopper, call, connecting, timer, lease, busy, given, down>>

\* A tick of the clock; a prompt system has answered everything before it
Tick ==
  /\ session = "live" \/ (armed /\ left > 0)
  /\ prompt /\ ~down => wire = <<>> /\ replies = <<>> /\ ~(armed /\ left = 0)
  /\ left' = IF armed /\ left > 0 THEN left - 1 ELSE left
  /\ IF session = "live" /\ age + 1 = SessionTTL
     THEN session' = "expired" /\ UNCHANGED age
     ELSE age' = (IF session = "live" THEN age + 1 ELSE age) /\ UNCHANGED session
  /\ UNCHANGED <<step, closer, stopper, call, redis, armed, renewed, busy, given, down>>

\* Nothing is left that keeps the event loop of a failed runner alive: the
\* subscriber connection is never closed, and worker processes are not ended
RunOut ==
  /\ step = "ended" /\ connecting = {} /\ call["registerRunner"] = "refused"
  /\ ~workers
  /\ down' = TRUE
  /\ UNCHANGED <<step, closer, stopper, call, redis, timer, lease, busy, given>>

Handle ==
  \/ OnRegistered \/ OnModelRegistered \/ OnUnregistered
  \/ OnRefused("registering", "registerRunner") \/ OnRefused("modelling", "registerModel")
  \/ OnRenewalTimer \/ OnReply
  \/ \E client \in Clients : OnReady(client)

Servers == (\E c \in Calls : Serve(c)) \/ ServeExpire \/ ServeQuit

DebugNext ==
  \/ ~down /\ (Start \/ Handle \/ TakeTask \/ FinishTask \/ Signal \/ RunOut)
  \/ Servers \/ Tick

DebugSpec == DebugInit /\ [][DebugNext]_debugVars

\* libuv serves what is ready, the servers answer, tasks end and time passes;
\* nobody has to press Ctrl-C, to start a runner or to send a task
DebugFairness ==
  /\ WF_debugVars(~down /\ OnRegistered) /\ WF_debugVars(~down /\ OnModelRegistered)
  /\ WF_debugVars(~down /\ OnUnregistered) /\ WF_debugVars(~down /\ OnReply)
  /\ WF_debugVars(~down /\ OnRefused("registering", "registerRunner"))
  /\ WF_debugVars(~down /\ OnRefused("modelling", "registerModel"))
  /\ \A client \in Clients : WF_debugVars(~down /\ OnReady(client))
  /\ WF_debugVars(~down /\ OnRenewalTimer) /\ WF_debugVars(~down /\ FinishTask)
  /\ WF_debugVars(~down /\ RunOut)
  /\ \A c \in Calls : WF_debugVars(Serve(c))
  /\ WF_debugVars(ServeExpire) /\ WF_debugVars(ServeQuit) /\ WF_debugVars(Tick)

FairDebugSpec == DebugSpec /\ DebugFairness

----------------------------------------------------------------------------
(* Properties                                                              *)

Answers == {"none", "sent", "done", "refused"}
Commands == {"EXPIRE", "QUIT"}
Outcomes == {"renewed", "missing", "refused", "bye"}

\* The variables of the session keep their types.
DebugTypeOK ==
  /\ step \in {"idle", "registering", "connecting", "modelling", "serving", "ended"}
  /\ closer \in {"nobody", "start", "signal"}
  /\ stopper \in {"none", "draining", "quitting", "unregistering", "done"}
  /\ call \in [Calls -> Answers] /\ connecting \subseteq Clients
  /\ wire \in Seq(Commands) /\ replies \in Seq(Outcomes)
  /\ closed \in BOOLEAN /\ armed \in BOOLEAN /\ left \in 0 .. RenewalInterval
  /\ session \in {"none", "live", "expired"} /\ age \in 0 .. SessionTTL - 1
  /\ renewed \in BOOLEAN /\ busy \in BOOLEAN /\ workers \in BOOLEAN
  /\ prompt \in BOOLEAN /\ down \in BOOLEAN

\* Before stop() has sent its QUIT there is one renewal at most, in the timer, on the
\* wire or answered: keepDebugSessionAlive goes on after the reply only.
OneRenewalAtMost ==
  stopper \in {"none", "draining"} =>
    Len(wire) + Len(replies) + (IF armed THEN 1 ELSE 0) <= 1

Has(s, x) == \E i \in DOMAIN s : s[i] = x

\* While the servers answer in time a session that was renewed once is not lost
\* under the runner: not while it serves, and not while stop() waits for the
\* last tasks, however long these take.
LeaseHeld ==
  prompt /\ renewed /\ ~down /\ stopper \in {"none", "draining"} => session = "live"

\* When a failed start has stopped the runner, nothing renews the session any
\* more: a renewal that was under way when stop() began may arm the timer once
\* more, but its reply comes before the one stop() clears the timer after.
NoRenewalLeft ==
  closer = "start" /\ stopper = "done" =>
    ~armed /\ ~Has(wire, "EXPIRE") /\ ~Has(replies, "renewed")

\* However start() and stop() interleave, a stop that has returned has asked the
\* server to forget a session the runner knew of.
KnowsSession == call["registerRunner"] = "done" /\ step # "registering"
KnownSessionIsUnregistered ==
  stopper = "done" /\ KnowsSession => call["unregisterRunner"] \in {"done", "refused"}

\* A runner whose session is lost does not go on as if it served: it is told by
\* the next renewal and exits.
SessionLossIsNoticed == step # "idle" /\ session = "expired" ~> down \/ stopped

\* A signal that the hook does not ignore ends the process.
SignalEndsRunner == closer = "signal" ~> down

=============================================================================
