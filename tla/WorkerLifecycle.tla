--------------------------- MODULE WorkerLifecycle ---------------------------
(***************************************************************************)
(* The worker process (apps/worker/src/index.ts): it starts the queue      *)
(* client, subscribes its handlers, starts the timers of its schedulers    *)
(* and the health server, and takes them down again on a signal or when    *)
(* the startup failed.  Startup and shutdown are two asynchronous          *)
(* functions of one process, and neither waits for the other.              *)
(***************************************************************************)
EXTENDS Naturals, Sequences, FiniteSets, SequencesExt

CONSTANTS
  Queues,     \* registrations, subscribed one after another
  Schedulers  \* the five schedulers, in the order shutDown stops them

ASSUME WorkerAssumption == Schedulers \in Seq(Range(Schedulers)) \ {<<>>}

VARIABLES
  startup,     \* where start() stands
  shutdown,    \* where shutDown() stands: [pc, at]
  startupSeen, \* where start() stood when shutDown() was called
  boss,        \* pg-boss: "off", "on", "stopping"
  clientStarted, runtimeStarted,  \* the flags of PgBossQueue and of the runtime
  subscribed,  \* queues with a handler
  handling,    \* queues whose handler is at work
  outlived,    \* handlers that stop did not wait for
  armed, sweeping,  \* schedulers with an interval, with a sweep at work
  connected, listening

processVars == <<startup, shutdown, startupSeen>>
queueVars == <<boss, clientStarted, runtimeStarted, subscribed, handling, outlived>>
timerVars == <<armed, sweeping>>
workerVars == <<processVars, queueVars, timerVars, connected, listening>>

WorkerInit ==
  /\ startup = "client" /\ shutdown = [pc |-> "none", at |-> 0] /\ startupSeen = "none"
  /\ boss = "off" /\ clientStarted = FALSE /\ runtimeStarted = FALSE
  /\ subscribed = {} /\ handling = {} /\ outlived = {}
  /\ armed = {} /\ sweeping = {}
  /\ connected = TRUE /\ listening = FALSE

-----------------------------------------------------------------------------
(* pg-boss, as the client uses it.                                         *)

\* A subscribed queue hands its handler one delivery at a time.
Deliver(q) ==
  /\ boss = "on" /\ q \in subscribed \ handling
  /\ handling' = handling \cup {q}
  /\ UNCHANGED <<processVars, boss, clientStarted, runtimeStarted, subscribed, outlived,
                 timerVars, connected, listening>>

HandlerEnds(q) ==
  /\ q \in handling
  /\ handling' = handling \ {q} /\ outlived' = outlived \ {q}
  /\ UNCHANGED <<processVars, boss, clientStarted, runtimeStarted, subscribed, timerVars,
                 connected, listening>>

\* A graceful stop fetches no more and waits for the handlers, until the
\* timeout; it may also fail.  What is still at work then outlives it.
BossStops(ok) ==
  /\ boss' = "off" /\ outlived' = outlived \cup handling
  /\ clientStarted' = (clientStarted /\ ~ok)

-----------------------------------------------------------------------------
(* shutDown.                                                               *)

\* stop of a scheduler: the interval is cleared, the sweep at work awaited.
StopScheduler(k) ==
  /\ shutdown' = [pc |-> "scheduler", at |-> k]
  /\ armed' = armed \ {Schedulers[k]}

\* A second call returns the promise of the first.
shutDown ==
  /\ shutdown.pc = "none"
  /\ StopScheduler(1) /\ startupSeen' = startup'

Signal ==
  /\ UNCHANGED startup /\ shutDown
  /\ UNCHANGED <<queueVars, sweeping, connected, listening>>

SweepAwaitedNever(k) == TRUE
SweepAwaited(k) == Schedulers[k] \notin sweeping

\* The next scheduler, or the runtime: nothing to stop unless it had started,
\* and a client that is not started returns at once.
SchedulerStopped ==
  /\ shutdown.pc = "scheduler" /\ SweepAwaited(shutdown.at)
  /\ \/ /\ shutdown.at < Len(Schedulers)
        /\ StopScheduler(shutdown.at + 1)
        /\ UNCHANGED <<boss, runtimeStarted>>
     \/ /\ shutdown.at = Len(Schedulers) /\ runtimeStarted /\ clientStarted
        /\ shutdown' = [pc |-> "runtime", at |-> 0]
        /\ boss' = "stopping"
        /\ UNCHANGED <<armed, runtimeStarted>>
     \/ /\ shutdown.at = Len(Schedulers) /\ ~(runtimeStarted /\ clientStarted)
        /\ shutdown' = [pc |-> "database", at |-> 0]
        /\ runtimeStarted' = FALSE
        /\ UNCHANGED <<armed, boss>>
  /\ UNCHANGED <<startup, startupSeen, clientStarted, subscribed, handling, outlived, sweeping,
                 connected, listening>>

\* A failure of any stop ends shutDown where it stands.
RuntimeStopped ==
  /\ shutdown.pc = "runtime"
  /\ \E ok \in BOOLEAN :
       /\ BossStops(ok)
       /\ shutdown' = [pc |-> IF ok THEN "database" ELSE "failed", at |-> 0]
       /\ runtimeStarted' = ~ok
  /\ UNCHANGED <<startup, startupSeen, subscribed, handling, timerVars, connected, listening>>

\* $disconnect, then the server if it listens.
DatabaseDisconnected ==
  /\ shutdown.pc = "database"
  /\ \/ /\ connected' = FALSE
        /\ shutdown' = [pc |-> IF listening THEN "server" ELSE "done", at |-> 0]
     \/ /\ shutdown' = [pc |-> "failed", at |-> 0] /\ UNCHANGED connected
  /\ UNCHANGED <<startup, startupSeen, queueVars, timerVars, listening>>

ServerClosed ==
  /\ shutdown.pc = "server"
  /\ listening' = FALSE
  /\ shutdown' = [pc |-> "done", at |-> 0]
  /\ UNCHANGED <<startup, startupSeen, queueVars, timerVars, connected>>

-----------------------------------------------------------------------------
(* start.                                                                  *)

\* The catch of start: what is up is taken down.
StartFails ==
  /\ startup' = "failed"
  /\ \/ shutDown
     \/ shutdown.pc # "none" /\ UNCHANGED <<shutdown, startupSeen, armed>>

\* PgBossQueue.start, and from it to the runtime's verification.
ClientStarts ==
  /\ startup = "client"
  /\ boss' = "on" /\ clientStarted' = TRUE /\ startup' = "verify"
  /\ UNCHANGED <<shutdown, startupSeen, runtimeStarted, subscribed, handling, outlived, timerVars,
                 connected, listening>>

ClientFails ==
  /\ startup = "client"
  /\ StartFails
  /\ UNCHANGED <<queueVars, sweeping, connected, listening>>

\* verifyQueues, then work for each registration, which a client that is not
\* started refuses.
Subscribe ==
  /\ startup \in {"verify", "work"} /\ clientStarted
  /\ IF subscribed = Queues
     THEN /\ runtimeStarted' = TRUE /\ startup' = "check"
          /\ UNCHANGED subscribed
     ELSE /\ startup' = "work"
          /\ \E q \in Queues \ subscribed : subscribed' = subscribed \cup {q}
          /\ UNCHANGED runtimeStarted
  /\ UNCHANGED <<shutdown, startupSeen, boss, clientStarted, handling, outlived, timerVars,
                 connected, listening>>

\* The runtime's catch stops the client before it rethrows.
SubscriptionFails ==
  /\ startup \in {"verify", "work"}
  /\ startup' = "unwind"
  /\ boss' = "stopping"
  /\ UNCHANGED <<shutdown, startupSeen, clientStarted, runtimeStarted, subscribed, handling,
                 outlived, timerVars, connected, listening>>

Unwound ==
  /\ startup = "unwind"
  /\ StartFails
  /\ \E ok \in BOOLEAN : BossStops(ok)
  /\ UNCHANGED <<runtimeStarted, subscribed, handling, sweeping, connected, listening>>

\* The verification of every queue, whose last answer may come from a client
\* that is being stopped, and all that follows it in one turn: each scheduler's
\* start sweeps at once.
CheckPasses ==
  /\ startup = "check"
  /\ startup' = "up" /\ listening' = TRUE
  /\ armed' = Range(Schedulers) /\ sweeping' = Range(Schedulers)
  /\ UNCHANGED <<shutdown, startupSeen, queueVars, connected>>

CheckFails ==
  /\ startup = "check"
  /\ StartFails
  /\ UNCHANGED <<queueVars, sweeping, connected, listening>>

-----------------------------------------------------------------------------
(* The schedulers' ticks.                                                  *)

Tick(s) ==
  /\ s \in armed \ sweeping
  /\ sweeping' = sweeping \cup {s}
  /\ UNCHANGED <<processVars, queueVars, armed, connected, listening>>

\* A sweep that fails is reported, and ends like any other.
SweepEnds(s) ==
  /\ s \in sweeping
  /\ sweeping' = sweeping \ {s}
  /\ UNCHANGED <<processVars, queueVars, armed, connected, listening>>

WorkerNext ==
  \/ \E q \in Queues : Deliver(q) \/ HandlerEnds(q)
  \/ \E s \in Range(Schedulers) : Tick(s) \/ SweepEnds(s)
  \/ Signal \/ SchedulerStopped \/ RuntimeStopped \/ DatabaseDisconnected \/ ServerClosed
  \/ ClientStarts \/ ClientFails \/ Subscribe \/ SubscriptionFails \/ Unwound
  \/ CheckPasses \/ CheckFails

WorkerSpec == WorkerInit /\ [][WorkerNext]_workerVars

\* Once shutDown has let go of the database, of a worker that was up or whose
\* startup had failed, no timer is armed, no sweep and no fetching goes on, and
\* only a handler that outlived the grace period is still at work.  Of a worker
\* that was still starting nothing of the kind is promised.
ShutdownDrains ==
  ~connected /\ startupSeen \in {"up", "failed"} =>
    /\ armed = {} /\ sweeping = {}
    /\ boss = "off" /\ handling \subseteq outlived
=============================================================================
