------------------------------- MODULE Cluster -------------------------------
(***************************************************************************)
(* The master process of the cluster: it forks one worker per shard, forks *)
(* a replacement some time after a worker exits (a timer per exit, a       *)
(* budget of attempts that travels with the shard), and routes each TCP    *)
(* connection to a worker by the hash of the client's token over the list  *)
(* of live workers.  Workers start, listen, crash, drain on SIGTERM and    *)
(* exit; the master itself shuts down.                                     *)
(***************************************************************************)
EXTENDS Integers, FiniteSets

CONSTANTS
  NumWorkers,       \* config.numWorkers: workers, and shards
  MaxAttempts,      \* config.maxRestartAttempts
  Tokens,           \* client identities
  Anonymous,        \* no identity: the connection is routed round-robin
  Hash,             \* fnv1a32 of each token
  Conns,            \* client connections, each used once
  MaxCrashes, MaxRestartCalls, MaxAsks, MaxShutdowns  \* bounds on the environment

ASSUME ClusterAssumption ==
  /\ NumWorkers \in Nat \ {0} /\ MaxAttempts \in Nat
  /\ Anonymous \notin Tokens
  /\ Hash \in [Tokens -> Nat]
  /\ MaxCrashes \in Nat /\ MaxRestartCalls \in Nat
  /\ MaxAsks \in Nat /\ MaxShutdowns \in Nat

Shards == 0..(NumWorkers - 1)

VARIABLES
  master,     \* up, stopping (dispatcher closed), killed (workers told to exit), down
  workers,    \* cluster.workers with their workerStats: records of Worker
  timers,     \* pending restarts: records of Timer
  nextId,     \* the cluster id the next fork gets
  conn,       \* each connection's phase, and the shard or worker it goes to
  home,       \* history: where each token was routed last
  rrCounter,  \* round-robin counter of the dispatcher
  inbox,      \* IPC messages from workers to the master
  env         \* how often the environment has struck, against its bounds

proc == <<workers, timers, nextId>>
net == <<conn, home, rrCounter>>
vars == <<master, proc, net, inbox, env>>

Worker == [id : Nat, shard : Shards, attempts : Nat, phase : {"starting", "serving", "draining"}]
Timer == [id : Nat, shard : Shards, attempts : Nat]
NoHome == [worker |-> 0, shard |-> 0, whole |-> FALSE]
Closed == [phase |-> "closed", to |-> 0]

NewWorker(id, s, attempts) == [id |-> id, shard |-> s, attempts |-> attempts, phase |-> "starting"]

\* The first workers get the cluster ids 1 .. NumWorkers in the order of their shards.
Init ==
  /\ master = "up"
  /\ workers = {NewWorker(s + 1, s, 0) : s \in Shards}
  /\ timers = {} /\ nextId = NumWorkers + 1
  /\ conn = [c \in Conns |-> [phase |-> "new", to |-> 0]]
  /\ home = [t \in Tokens |-> NoHome]
  /\ rrCounter = 0
  /\ inbox = {}
  /\ env = [crashes |-> 0, restartCalls |-> 0, asks |-> 0, shutdowns |-> 0]

Strike(kind, max) == env[kind] < max /\ env' = [env EXCEPT ![kind] = @ + 1]

-----------------------------------------------------------------------------
(* Worker processes.                                                       *)

InPhase(w, phase) == [w EXCEPT !.phase = phase]
Draining(ws) == {InPhase(w, "draining") : w \in ws}

Listen(w) ==
  /\ w.phase = "starting"
  /\ workers' = (workers \ {w}) \cup {InPhase(w, "serving")}
  /\ UNCHANGED <<master, timers, nextId, net, inbox, env>>

\* SIGTERM from the master: the worker stops listening, then exits.
Terminate(ws) == workers' = (workers \ ws) \cup Draining(ws)

\* Mutant of ScheduleRestart: the budget is tested after counting one more.
ScheduleRestartOffByOne(w) ==
  timers' = IF w.attempts <= MaxAttempts
            THEN timers \cup {[id |-> w.id, shard |-> w.shard, attempts |-> w.attempts + 1]}
            ELSE timers
\* Mutant of ScheduleRestart: only a crash is followed by a restart.
ScheduleRestartCrashed(w) ==
  timers' = IF w.attempts < MaxAttempts /\ w.phase # "draining"
            THEN timers \cup {[id |-> w.id, shard |-> w.shard, attempts |-> w.attempts + 1]}
            ELSE timers

ScheduleRestart(w) ==
  timers' = IF w.attempts < MaxAttempts
            THEN timers \cup {[id |-> w.id, shard |-> w.shard, attempts |-> w.attempts + 1]}
            ELSE timers

\* The connections a worker held close with it.
Hangup(w) == conn' = [c \in Conns |-> IF conn[c].phase = "proxied" /\ conn[c].to = w.id
                                      THEN Closed ELSE conn[c]]

ExitOf(w) ==
  /\ workers' = workers \ {w}
  /\ Hangup(w)
  /\ IF master = "down" THEN UNCHANGED timers ELSE ScheduleRestart(w)
  /\ UNCHANGED <<master, nextId, home, rrCounter, inbox>>

Drained(w) == w.phase = "draining" /\ ExitOf(w) /\ UNCHANGED env
Crash(w) == Strike("crashes", MaxCrashes) /\ ExitOf(w)

TimerFires(t) ==
  /\ master # "down"
  /\ timers' = timers \ {t}
  /\ workers' = workers \cup {NewWorker(nextId, t.shard, t.attempts)}
  /\ nextId' = nextId + 1
  /\ UNCHANGED <<master, net, inbox, env>>

-----------------------------------------------------------------------------
(* Restarts on demand.                                                     *)

\* Mutant of RestartAll: the replacements are forked without waiting for the exits.
RestartAllAtOnce ==
  /\ master # "down" /\ Strike("restartCalls", MaxRestartCalls)
  /\ timers' = timers \cup {[id |-> w.id, shard |-> w.shard, attempts |-> w.attempts] : w \in workers}
  /\ workers' = Draining(workers)
  /\ UNCHANGED <<master, nextId, net, inbox>>

\* POST /master/restart.
RestartAll ==
  /\ master # "down" /\ Strike("restartCalls", MaxRestartCalls)
  /\ Terminate(workers)
  /\ UNCHANGED <<master, timers, nextId, net, inbox>>

\* POST /api/restart-service on a worker: it messages the master and reports success,
\* but under a type that the master does not act on (OnMessage).
RestartService(w) ==
  /\ master = "up" /\ w.phase = "serving" /\ Strike("asks", MaxAsks)
  /\ inbox' = inbox \cup {[type |-> "restart_request", from |-> w.id]}
  /\ UNCHANGED <<master, proc, net>>

\* The message handler acts on one type of this kind, "restart-request".
OnMessage(m) ==
  /\ master # "down" /\ inbox' = inbox \ {m}
  /\ IF m.type = "restart-request"
       THEN Terminate({w \in workers : w.id = m.from}) ELSE UNCHANGED workers
  /\ UNCHANGED <<master, timers, nextId, net, env>>

-----------------------------------------------------------------------------
(* The dispatcher.                                                         *)

\* Mutant of NthLive: the list keeps the order of cluster.workers (no sort).
NthLiveUnsorted(i) == CHOOSE w \in workers : Cardinality({v \in workers : v.id < w.id}) = i

\* getLiveShardPorts()[i]: every forked, not yet exited worker, by shard.
NthLive(i) == CHOOSE w \in workers : Cardinality({v \in workers : v.shard < w.shard}) = i

\* stickyWorkerIndex, and the fall-back of routeToShard.
Index(t) ==
  LET n == Cardinality(workers) IN
  IF n = 1 THEN 0 ELSE IF t = Anonymous THEN rrCounter % n ELSE Hash[t] % n

Accept(c) ==
  /\ master = "up" /\ conn[c].phase = "new"
  /\ conn' = [conn EXCEPT ![c].phase = "reading"]
  /\ UNCHANGED <<master, proc, home, rrCounter, inbox, env>>

\* Header timeout, malformed or oversized header, client gone: the socket is destroyed.
HeaderFails(c) ==
  /\ conn[c].phase = "reading"
  /\ conn' = [conn EXCEPT ![c] = Closed]
  /\ UNCHANGED <<master, proc, home, rrCounter, inbox, env>>

NoWorker(c) ==
  /\ conn[c].phase = "reading" /\ workers = {}
  /\ conn' = [conn EXCEPT ![c] = Closed]
  /\ UNCHANGED <<master, proc, home, rrCounter, inbox, env>>

RouteToShard(c, t) ==
  /\ conn[c].phase = "reading" /\ workers # {}
  /\ LET w == NthLive(Index(t)) IN
       /\ conn' = [conn EXCEPT ![c] = [phase |-> "connecting", to |-> w.shard]]
       /\ home' = [u \in Tokens |-> IF u # t THEN home[u] ELSE
                     [worker |-> w.id, shard |-> w.shard,
                      whole |-> Cardinality(workers) = NumWorkers]]
  /\ rrCounter' = IF t = Anonymous /\ Cardinality(workers) > 1 THEN rrCounter + 1 ELSE rrCounter
  /\ UNCHANGED <<master, proc, inbox, env>>

\* Mutant of Connect: a refused connection is retried instead of destroyed.
ConnectRetried(c) ==
  /\ conn[c].phase = "connecting"
  /\ \E w \in workers : /\ w.shard = conn[c].to /\ w.phase = "serving"
                        /\ conn' = [conn EXCEPT ![c] = [phase |-> "proxied", to |-> w.id]]
  /\ UNCHANGED <<master, proc, home, rrCounter, inbox, env>>

\* The port of a shard answers only while its worker listens.
Connect(c) ==
  /\ conn[c].phase = "connecting"
  /\ \/ \E w \in workers : /\ w.shard = conn[c].to /\ w.phase = "serving"
                           /\ conn' = [conn EXCEPT ![c] = [phase |-> "proxied", to |-> w.id]]
     \/ /\ ~\E w \in workers : w.shard = conn[c].to /\ w.phase = "serving"
        /\ conn' = [conn EXCEPT ![c] = Closed]
  /\ UNCHANGED <<master, proc, home, rrCounter, inbox, env>>

Close(c) ==
  /\ conn[c].phase \in {"connecting", "proxied"}
  /\ conn' = [conn EXCEPT ![c] = Closed]
  /\ UNCHANGED <<master, proc, home, rrCounter, inbox, env>>

-----------------------------------------------------------------------------
(* gracefulShutdown of the master.                                         *)

StopDispatcher ==
  /\ master = "up" /\ Strike("shutdowns", MaxShutdowns) /\ master' = "stopping"
  /\ UNCHANGED <<proc, net, inbox>>

KillWorkers ==
  /\ master = "stopping" /\ master' = "killed"
  /\ Terminate(workers)
  /\ UNCHANGED <<timers, nextId, net, inbox, env>>

\* Mutant of MasterExit: the workers do not notice that the master is gone.
MasterExitUnnoticed ==
  /\ master = "killed" /\ master' = "down"
  /\ timers' = {} /\ inbox' = {}
  /\ conn' = [c \in Conns |-> Closed]
  /\ UNCHANGED <<workers, nextId, home, rrCounter, env>>

\* Timers and sockets die with the process; every worker sees 'disconnect' and shuts down.
MasterExit ==
  /\ master = "killed" /\ master' = "down"
  /\ timers' = {} /\ inbox' = {}
  /\ Terminate(workers)
  /\ conn' = [c \in Conns |-> Closed]
  /\ UNCHANGED <<nextId, home, rrCounter, env>>

-----------------------------------------------------------------------------
AnyTimerFires == \E t \in timers : TimerFires(t)
AnyMessage == \E m \in inbox : OnMessage(m)
AnyListen == \E w \in workers : Listen(w)
AnyDrained == \E w \in workers : Drained(w)
Processes ==
  \/ AnyListen \/ AnyDrained \/ AnyTimerFires \/ AnyMessage
  \/ \E w \in workers : Crash(w) \/ RestartService(w)
  \/ RestartAll \/ StopDispatcher \/ KillWorkers \/ MasterExit

ConnStep(c) ==
  \/ Accept(c) \/ HeaderFails(c) \/ NoWorker(c) \/ Connect(c) \/ Close(c)
  \/ \E t \in Tokens \cup {Anonymous} : RouteToShard(c, t)

Next == Processes \/ \E c \in Conns : ConnStep(c)

Spec == Init /\ [][Next]_vars

\* A fork comes up or exits, a drained worker exits (10 s at most), timers fire,
\* messages arrive, headers time out after 5 s and connects are answered; a
\* shutdown runs to its end.  Nothing makes clients come or the environment strike.
Fairness ==
  /\ WF_vars(AnyListen) /\ WF_vars(AnyDrained)
  /\ WF_vars(AnyTimerFires) /\ WF_vars(AnyMessage)
  /\ WF_vars(KillWorkers) /\ WF_vars(MasterExit)
  /\ \A c \in Conns : WF_vars(HeaderFails(c)) /\ WF_vars(Connect(c))
FairSpec == Spec /\ Fairness

-----------------------------------------------------------------------------
(* Properties.                                                             *)

\* The processes, timers and connections keep their shapes, and no attempt goes
\* beyond maxRestartAttempts.
TypeOK ==
  /\ master \in {"up", "stopping", "killed", "down"}
  /\ workers \subseteq Worker /\ timers \subseteq Timer
  /\ \A w \in workers : w.attempts <= MaxAttempts /\ w.id < nextId
  /\ \A t \in timers : t.attempts <= MaxAttempts /\ t.id < nextId
  /\ nextId \in Nat /\ rrCounter \in Nat
  /\ conn \in [Conns -> [phase : {"new", "reading", "connecting", "proxied", "closed"}, to : Nat]]
  /\ home \in [Tokens -> [worker : Nat, shard : Shards, whole : BOOLEAN]]
  /\ inbox \subseteq [type : {"restart_request"}, from : Nat]
  /\ env \in [{"crashes", "restartCalls", "asks", "shutdowns"} -> Nat]

\* A shard has one process or one pending restart, never two: two workers of one
\* shard would fight for its loopback port and both own its accounts.
OneProcessPerShard ==
  /\ \A v, w \in workers : v.shard = w.shard => v = w
  /\ \A t, u \in timers : t.shard = u.shard => t = u
  /\ \A w \in workers, t \in timers : w.shard # t.shard

\* While no worker is missing, a token goes to the shard of its hash, whatever
\* restarts came before: a restarted worker takes its old place in the list.
HomeWhileWhole ==
  \A t \in Tokens : home[t].whole => home[t].shard = Hash[t] % NumWorkers

\* A token stays with its worker for as long as that worker has not exited.
StickyUntilWorkerExits ==
  [][\A t \in Tokens :
       (\E w \in workers : w.id = home[t].worker) => home'[t].shard = home[t].shard]_vars

\* While the master is up, every shard that is not served is served again, as long
\* as crashes and requested restarts together stay within one worker's budget: the
\* budget counts both and is never given back (master.js:328).
ShardsComeBack ==
  \A s \in Shards :
    LET served == \E w \in workers : w.shard = s /\ w.phase = "serving"
        spent  == env.crashes + env.restartCalls > MaxAttempts
    IN  master = "up" ~> (served \/ master # "up" \/ spent)

\* What that rests on: until the shutdown tells the workers to exit, a shard has a
\* process or a pending restart, or crashes and requested restarts together have
\* spent its budget; no order of exits, timers and restarts drops a shard.
ShardCaredFor ==
  master \in {"up", "stopping"} =>
    \A s \in Shards :
      \/ \E p \in workers \cup timers : p.shard = s
      \/ env.crashes + env.restartCalls > MaxAttempts

\* An accepted connection reaches a worker or is destroyed: nothing hangs between.
ConnectionsSettle ==
  \A c \in Conns : conn[c].phase \in {"reading", "connecting"} ~> conn[c].phase \in {"proxied", "closed"}

\* What the end of the shutdown rests on: once the master is gone nothing forks any
\* more, and every worker left, those forked while it was leaving included, has
\* been told to exit.
OrphansDrain ==
  master = "down" => timers = {} /\ \A w \in workers : w.phase = "draining"

\* A connection is forwarded only to a process that lives and listened: the end of a
\* worker takes its connections along, whatever replaces the worker.
ProxiedToLive ==
  \A c \in Conns : conn[c].phase = "proxied" =>
    \E w \in workers : w.id = conn[c].to /\ w.phase # "starting"

\* After a shutdown no worker outlives the master, those forked during it included.
NoWorkerOutlivesMaster == master = "killed" ~> (workers = {} /\ timers = {})
-----------------------------------------------------------------------------
\* The supervision of the shards as ShardSupervision has it: the processes of a shard
\* are the workers forked for it, until they have exited; its restarts left are what the
\* attempts its worker or timer carries leave of the budget, none without either
\* (forkWorker, the exit handler, gracefulShutdown).
ProcessesOf(s) == {w.id : w \in {v \in workers : v.shard = s}}
RestartsLeft(s) ==
  IF \E p \in workers \cup timers : p.shard = s
    THEN MaxAttempts - (CHOOSE p \in workers \cup timers : p.shard = s).attempts
    ELSE 0

Supervision == INSTANCE ShardSupervision WITH
  owners <- [s \in Shards |-> ProcessesOf(s)],
  waiting <- {t.shard : t \in timers},
  left <- [s \in Shards |-> RestartsLeft(s)],
  lastId <- nextId - 1,
  over <- master = "down"

ImplementsShardSupervision == Supervision!Spec
=============================================================================
