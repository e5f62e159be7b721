---------------------------- MODULE Cluster_proofs ----------------------------
(***************************************************************************)
(* Proofs about Cluster: the state keeps its shapes, a shard never has two *)
(* processes and is not dropped, while no worker is missing a token goes   *)
(* to the shard of its hash, and the cluster implements ShardSupervision.  *)
(***************************************************************************)
EXTENDS Cluster, FiniteSetTheorems, TLAPS

USE ClusterAssumption DEF ClusterAssumption

-----------------------------------------------------------------------------
(* Operators on worker records.                                            *)

LEMMA InPhaseType ==
  ASSUME NEW w \in Worker, NEW phase \in {"starting", "serving", "draining"}
  PROVE  /\ InPhase(w, phase) \in Worker
         /\ InPhase(w, phase).shard = w.shard
         /\ InPhase(w, phase).id = w.id
         /\ InPhase(w, phase).attempts = w.attempts
  BY DEF Worker, InPhase

LEMMA ShardsFinite == IsFiniteSet(Shards) /\ Cardinality(Shards) = NumWorkers
  BY FS_Interval DEF Shards

\* Terminating workers keeps what the invariants read: shards, ids, attempts.
LEMMA TerminateKeeps ==
  ASSUME workers \subseteq Worker, NEW ws \in SUBSET workers, Terminate(ws)
  PROVE  /\ workers' \subseteq Worker
         /\ \A v \in workers' : \E w \in workers :
              v.shard = w.shard /\ v.id = w.id /\ v.attempts = w.attempts
         /\ \A w \in workers : \E v \in workers' :
              v.shard = w.shard /\ v.id = w.id /\ v.attempts = w.attempts
         /\ (\A v, w \in workers : v.shard = w.shard => v = w)
              => (\A v, w \in workers' : v.shard = w.shard => v = w)
  <1> DEFINE D(w) == InPhase(w, "draining")
  <1>1. \A w \in workers : D(w) \in Worker /\ D(w).shard = w.shard
                           /\ D(w).id = w.id /\ D(w).attempts = w.attempts
    BY InPhaseType
  <1>2. \A v \in workers' : v \in workers \ ws \/ \E w \in ws : v = D(w)
    BY DEF Terminate, Draining
  <1>3. workers' \subseteq Worker BY <1>1, <1>2
  <1>4. \A v \in workers' : \E w \in workers :
          v.shard = w.shard /\ v.id = w.id /\ v.attempts = w.attempts
    BY <1>1, <1>2
  <1>6. \A w \in workers : \E v \in workers' :
          v.shard = w.shard /\ v.id = w.id /\ v.attempts = w.attempts
    BY <1>1 DEF Terminate, Draining
  <1>5. ASSUME \A v, w \in workers : v.shard = w.shard => v = w,
               NEW v \in workers', NEW w \in workers', v.shard = w.shard
        PROVE  v = w
    <2>1. CASE v \in workers \ ws /\ w \in workers \ ws BY <1>5, <2>1
    <2>2. CASE v \in workers \ ws /\ w \notin workers \ ws
      <3>1. PICK u \in ws : w = D(u) BY <1>2, <2>2
      <3>2. v = u BY <1>1, <1>5, <2>2, <3>1
      <3> QED BY <2>2, <3>2
    <2>3. CASE v \notin workers \ ws /\ w \in workers \ ws
      <3>1. PICK u \in ws : v = D(u) BY <1>2, <2>3
      <3>2. w = u BY <1>1, <1>5, <2>3, <3>1
      <3> QED BY <2>3, <3>2
    <2>4. CASE v \notin workers \ ws /\ w \notin workers \ ws
      <3>1. PICK u \in ws : v = D(u) BY <1>2, <2>4
      <3>2. PICK x \in ws : w = D(x) BY <1>2, <2>4
      <3>3. u = x BY <1>1, <1>5, <3>1, <3>2
      <3> QED BY <3>1, <3>2, <3>3
    <2> QED BY <2>1, <2>2, <2>3, <2>4
  <1> QED BY <1>3, <1>4, <1>5, <1>6

-----------------------------------------------------------------------------
(* The sorted list of live workers.                                        *)

Rank(w) == Cardinality({v \in workers : v.shard < w.shard})

\* One worker per shard, so finitely many.
LEMMA WorkersFinite ==
  ASSUME workers \subseteq Worker, OneProcessPerShard
  PROVE  /\ IsFiniteSet(workers)
         /\ Cardinality(workers) \in 0..NumWorkers
         /\ Cardinality(workers) = NumWorkers => \A s \in Shards : \E w \in workers : w.shard = s
  <1> DEFINE f == [w \in workers |-> w.shard]
  <1>1. f \in Injection(workers, Shards)
    BY DEF Injection, IsInjective, Worker, OneProcessPerShard
  <1>2. /\ IsFiniteSet(workers)
        /\ Cardinality(workers) <= Cardinality(Shards)
        /\ Cardinality(workers) = Cardinality(Shards) => f \in Surjection(workers, Shards)
    BY <1>1, ShardsFinite, FS_Injection
  <1>3. f \in Surjection(workers, Shards) => \A s \in Shards : \E w \in workers : w.shard = s
    BY DEF Surjection
  <1> QED BY <1>2, <1>3, ShardsFinite, FS_CardinalityType

\* The ranks of the n live workers are 0 .. n - 1, so NthLive(i) exists.
LEMMA NthLiveExists ==
  ASSUME workers \subseteq Worker, OneProcessPerShard,
         NEW i \in 0..(Cardinality(workers) - 1)
  PROVE  NthLive(i) \in workers /\ Rank(NthLive(i)) = i
  <1> DEFINE n == Cardinality(workers)
             Below(w) == {v \in workers : v.shard < w.shard}
             g == [w \in workers |-> Rank(w)]
  <1>1. IsFiniteSet(workers) /\ n \in Nat BY WorkersFinite, FS_CardinalityType
  <1>2. \A w \in workers : Rank(w) \in 0..(n - 1)
    <2> SUFFICES ASSUME NEW w \in workers PROVE Rank(w) \in 0..(n - 1) OBVIOUS
    <2>1. IsFiniteSet(workers \ {w}) /\ Cardinality(workers \ {w}) = n - 1
      BY <1>1, FS_RemoveElement
    <2>2. w.shard \in Int BY DEF Worker, Shards
    <2>3. Below(w) \in SUBSET (workers \ {w}) BY <2>2
    <2>4. IsFiniteSet(Below(w)) /\ Cardinality(Below(w)) <= n - 1
      BY <2>1, <2>3, FS_Subset
    <2>5. Cardinality(Below(w)) \in Nat BY <2>4, FS_CardinalityType
    <2> QED BY <1>1, <2>4, <2>5 DEF Rank
  <1>3. ASSUME NEW v \in workers, NEW w \in workers, v.shard < w.shard
        PROVE  Rank(v) # Rank(w)
    <2>0. v.shard \in Int /\ w.shard \in Int /\ \A u \in workers : u.shard \in Int
      BY DEF Worker, Shards
    <2>1. IsFiniteSet(Below(w)) BY <1>1, FS_Subset
    <2>2. Below(v) \in SUBSET Below(w) BY <1>3, <2>0
    <2>3. v \in Below(w) /\ v \notin Below(v) BY <1>3, <2>0
    <2>4. Cardinality(Below(w)) # Cardinality(Below(v)) BY <2>1, <2>2, <2>3, FS_Subset
    <2> QED BY <2>4 DEF Rank
  <1>4. g \in Injection(workers, 0..(n - 1))
    <2>1. ASSUME NEW v \in workers, NEW w \in workers, v # w PROVE Rank(v) # Rank(w)
      <3>1. v.shard \in Int /\ w.shard \in Int BY DEF Worker, Shards
      <3>2. v.shard # w.shard BY <2>1 DEF OneProcessPerShard
      <3>3. CASE v.shard < w.shard BY <1>3, <3>3
      <3>4. CASE w.shard < v.shard BY <1>3, <3>4
      <3> QED BY <3>1, <3>2, <3>3, <3>4
    <2> QED BY <1>2, <2>1 DEF Injection, IsInjective
  <1>5. IsFiniteSet(0..(n - 1)) /\ Cardinality(0..(n - 1)) = n BY <1>1, FS_Interval
  <1>6. g \in Surjection(workers, 0..(n - 1)) BY <1>4, <1>5, FS_Injection
  <1>7. \E w \in workers : Rank(w) = i BY <1>6 DEF Surjection
  <1> QED BY <1>7 DEF NthLive, Rank

\* With every worker there, the i-th of the list is the worker of shard i.
LEMMA NthLiveWhole ==
  ASSUME workers \subseteq Worker, OneProcessPerShard,
         Cardinality(workers) = NumWorkers, NEW i \in Shards
  PROVE  NthLive(i).shard = i
  <1> DEFINE w == NthLive(i)
             k == w.shard
             Below == {v \in workers : v.shard < k}
             f == [v \in Below |-> v.shard]
  <1>1. w \in workers /\ Rank(w) = i BY NthLiveExists DEF Shards
  <1>2. k \in Shards BY <1>1 DEF Worker
  <1>3. IsFiniteSet(Below) BY WorkersFinite, FS_Subset
  <1>4. f \in Bijection(Below, 0..(k - 1))
    <2>1. f \in [Below -> 0..(k - 1)] BY <1>2 DEF Worker, Shards
    <2>2. IsInjective(f) BY DEF IsInjective, OneProcessPerShard
    <2>3. \A s \in 0..(k - 1) : \E v \in Below : f[v] = s
      BY <1>2, WorkersFinite DEF Shards
    <2> QED BY <2>1, <2>2, <2>3 DEF Bijection, Injection, Surjection
  <1>5. Cardinality(Below) = Cardinality(0..(k - 1))
    BY <1>3, <1>4, FS_Bijection DEF ExistsBijection
  <1>6. Cardinality(0..(k - 1)) = k
    <2>1. k \in Nat /\ 0 \in Int /\ k - 1 \in Int BY <1>2 DEF Shards
    <2> HIDE DEF k
    <2>2. Cardinality(0..(k - 1)) = IF 0 > k - 1 THEN 0 ELSE (k - 1) - 0 + 1
      BY <2>1, FS_Interval
    <2> QED BY <2>1, <2>2
  <1> QED BY <1>1, <1>2, <1>5, <1>6 DEF Rank, Shards

-----------------------------------------------------------------------------
(* Type correctness and one process per shard, action by action.           *)

ClusterInv == TypeOK /\ OneProcessPerShard

LEMMA InitClusterInv == Init => ClusterInv
  <1> SUFFICES ASSUME Init PROVE ClusterInv OBVIOUS
  <1>1. \A s \in Shards : /\ NewWorker(s + 1, s, 0) \in Worker
                          /\ NewWorker(s + 1, s, 0).shard = s
                          /\ NewWorker(s + 1, s, 0).attempts = 0
                          /\ NewWorker(s + 1, s, 0).id = s + 1
    BY DEF NewWorker, Worker, Shards
  <1>2. \A w \in workers : \E s \in Shards : w = NewWorker(s + 1, s, 0) BY DEF Init
  <1>3. /\ workers \subseteq Worker
        /\ \A w \in workers : w.attempts <= MaxAttempts /\ w.id < nextId
    BY <1>1, <1>2 DEF Init, Shards
  <1>4. OneProcessPerShard BY <1>1, <1>2 DEF Init, OneProcessPerShard
  <1>5. home \in [Tokens -> [worker : Nat, shard : Shards, whole : BOOLEAN]]
    BY DEF Init, NoHome, Shards
  <1>6. conn \in [Conns -> [phase : {"new", "reading", "connecting", "proxied", "closed"}, to : Nat]]
    BY DEF Init
  <1>7. env \in [{"crashes", "restartCalls", "asks", "shutdowns"} -> Nat] BY DEF Init
  <1> QED BY <1>3, <1>4, <1>5, <1>6, <1>7 DEF Init, ClusterInv, TypeOK

\* The part of the invariant about processes.
ProcInv ==
  /\ workers \subseteq Worker /\ timers \subseteq Timer
  /\ \A w \in workers : w.attempts <= MaxAttempts /\ w.id < nextId
  /\ \A t \in timers : t.attempts <= MaxAttempts /\ t.id < nextId
  /\ nextId \in Nat
  /\ OneProcessPerShard

LEMMA TerminateProcInv ==
  ASSUME ProcInv, NEW ws \in SUBSET workers, Terminate(ws), nextId' = nextId,
         timers' = timers \/ timers' = {}
  PROVE  ProcInv'
  <1>1. /\ workers' \subseteq Worker
        /\ \A v \in workers' : \E w \in workers :
             v.shard = w.shard /\ v.id = w.id /\ v.attempts = w.attempts
        /\ \A v, w \in workers' : v.shard = w.shard => v = w
    BY TerminateKeeps DEF ProcInv, OneProcessPerShard
  <1> QED BY <1>1 DEF ProcInv, OneProcessPerShard

LEMMA ExitProcInv ==
  ASSUME ProcInv, NEW w \in workers, ExitOf(w)
  PROVE  ProcInv'
  <1> DEFINE t == [id |-> w.id, shard |-> w.shard, attempts |-> w.attempts + 1]
  <1>1. w \in Worker BY DEF ProcInv
  <1>2. t \in Timer /\ t.shard = w.shard /\ t.id = w.id /\ t.attempts = w.attempts + 1
    BY <1>1 DEF Worker, Timer
  <1>3. workers' = workers \ {w} /\ nextId' = nextId BY DEF ExitOf
  <1>4. timers' = timers \/ (w.attempts < MaxAttempts /\ timers' = timers \cup {t})
    BY DEF ExitOf, ScheduleRestart
  <1>5. CASE timers' = timers BY <1>3, <1>5 DEF ProcInv, OneProcessPerShard
  <1>6. CASE w.attempts < MaxAttempts /\ timers' = timers \cup {t}
    <2>1. w.attempts \in Nat BY <1>1 DEF Worker
    <2>2. \A u \in timers' : u \in Timer /\ u.attempts <= MaxAttempts /\ u.id < nextId'
      BY <1>2, <1>3, <1>6, <2>1 DEF ProcInv
    <2>3. OneProcessPerShard' BY <1>2, <1>3, <1>6 DEF ProcInv, OneProcessPerShard
    <2> QED BY <1>3, <2>2, <2>3 DEF ProcInv
  <1> QED BY <1>4, <1>5, <1>6

LEMMA TimerProcInv ==
  ASSUME ProcInv, NEW t \in timers, TimerFires(t)
  PROVE  ProcInv'
  <1> DEFINE w == NewWorker(nextId, t.shard, t.attempts)
  <1>1. t \in Timer BY DEF ProcInv
  <1>2. w \in Worker /\ w.shard = t.shard /\ w.id = nextId /\ w.attempts = t.attempts
    BY <1>1 DEF NewWorker, Worker, Timer, ProcInv
  <1>3. /\ timers' = timers \ {t} /\ workers' = workers \cup {w}
        /\ nextId' = nextId + 1
    BY DEF TimerFires
  <1>4. \A v \in workers' : v \in Worker /\ v.attempts <= MaxAttempts /\ v.id < nextId'
    BY <1>2, <1>3 DEF ProcInv, Worker
  <1>5. \A u \in timers' : u \in Timer /\ u.attempts <= MaxAttempts /\ u.id < nextId'
    BY <1>3 DEF ProcInv, Timer
  <1>6. OneProcessPerShard' BY <1>2, <1>3 DEF ProcInv, OneProcessPerShard
  <1> QED BY <1>3, <1>4, <1>5, <1>6 DEF ProcInv

LEMMA ListenProcInv ==
  ASSUME ProcInv, NEW w \in workers, Listen(w)
  PROVE  ProcInv'
  <1> DEFINE v == InPhase(w, "serving")
  <1>1. v \in Worker /\ v.shard = w.shard /\ v.id = w.id /\ v.attempts = w.attempts
    BY InPhaseType DEF ProcInv
  <1>2. workers' = (workers \ {w}) \cup {v} /\ timers' = timers /\ nextId' = nextId
    BY DEF Listen
  <1> QED BY <1>1, <1>2 DEF ProcInv, OneProcessPerShard

LEMMA NextProcInv == ProcInv /\ [Next]_vars => ProcInv'
  <1> SUFFICES ASSUME ProcInv, [Next]_vars PROVE ProcInv' OBVIOUS
  <1>1. CASE UNCHANGED proc BY <1>1 DEF proc, ProcInv, OneProcessPerShard
  <1>2. CASE AnyListen BY <1>2, ListenProcInv DEF AnyListen
  <1>3. CASE AnyDrained BY <1>3, ExitProcInv DEF AnyDrained, Drained
  <1>4. CASE AnyTimerFires BY <1>4, TimerProcInv DEF AnyTimerFires
  <1>5. CASE AnyMessage
    <2>1. PICK m \in inbox : OnMessage(m) BY <1>5 DEF AnyMessage
    <2>2. timers' = timers /\ nextId' = nextId BY <2>1 DEF OnMessage
    <2>3. CASE m.type = "restart-request"
      <3> DEFINE ws == {w \in workers : w.id = m.from}
      <3>1. Terminate(ws) BY <2>1, <2>3 DEF OnMessage
      <3> HIDE DEF ws
      <3>2. ws \in SUBSET workers BY DEF ws
      <3> QED BY <2>2, <3>1, <3>2, TerminateProcInv
    <2>4. CASE m.type # "restart-request" BY <1>1, <2>1, <2>2, <2>4 DEF OnMessage, proc
    <2> QED BY <2>3, <2>4
  <1>6. ASSUME NEW w \in workers, Crash(w) \/ RestartService(w) PROVE ProcInv'
    BY <1>1, <1>6, ExitProcInv DEF Crash, RestartService, proc
  <1>7. CASE RestartAll BY <1>7, TerminateProcInv DEF RestartAll
  <1>8. CASE StopDispatcher BY <1>1, <1>8 DEF StopDispatcher
  <1>9. CASE KillWorkers BY <1>9, TerminateProcInv DEF KillWorkers
  <1>10. CASE MasterExit BY <1>10, TerminateProcInv DEF MasterExit
  <1>11. ASSUME NEW c \in Conns, ConnStep(c) PROVE ProcInv'
    <2>1. UNCHANGED proc
      BY <1>11 DEF ConnStep, Accept, HeaderFails, NoWorker, Connect, Close, RouteToShard
    <2> QED BY <1>1, <2>1
  <1>12. CASE UNCHANGED vars BY <1>1, <1>12 DEF vars
  <1> QED BY <1>2, <1>3, <1>4, <1>5, <1>6, <1>7, <1>8, <1>9, <1>10, <1>11, <1>12 DEF Next, Processes

-----------------------------------------------------------------------------
(* The connections, the messages and the environment's counters.           *)

ConnType == [phase : {"new", "reading", "connecting", "proxied", "closed"}, to : Nat]
HomeType == [worker : Nat, shard : Shards, whole : BOOLEAN]
EnvType == [{"crashes", "restartCalls", "asks", "shutdowns"} -> Nat]

RestInv ==
  /\ master \in {"up", "stopping", "killed", "down"}
  /\ rrCounter \in Nat
  /\ conn \in [Conns -> ConnType]
  /\ home \in [Tokens -> HomeType]
  /\ inbox \subseteq [type : {"restart_request"}, from : Nat]
  /\ env \in EnvType

LEMMA TypeSplit == ClusterInv <=> ProcInv /\ RestInv
  BY DEF ClusterInv, TypeOK, ProcInv, RestInv, ConnType, HomeType, EnvType

LEMMA StrikeType ==
  ASSUME env \in EnvType, NEW kind \in {"crashes", "restartCalls", "asks", "shutdowns"},
         NEW max, Strike(kind, max)
  PROVE  env' \in EnvType
  BY DEF Strike, EnvType

LEMMA ConnUpdate ==
  ASSUME NEW f \in [Conns -> ConnType], NEW c \in Conns, NEW v \in ConnType
  PROVE  [f EXCEPT ![c] = v] \in [Conns -> ConnType]
  OBVIOUS

LEMMA ClosedType == Closed \in ConnType
  BY DEF Closed, ConnType

LEMMA ExitRest ==
  ASSUME RestInv, NEW w \in workers, ExitOf(w), env' \in EnvType
  PROVE  RestInv'
  <1>1. conn' \in [Conns -> ConnType] BY ClosedType DEF ExitOf, Hangup, RestInv
  <1> QED BY <1>1 DEF ExitOf, RestInv

\* A routed connection goes to a live worker's shard; the token remembers it.
LEMMA RouteRest ==
  ASSUME ProcInv, RestInv, NEW c \in Conns, NEW t \in Tokens \cup {Anonymous},
         RouteToShard(c, t)
  PROVE  RestInv' /\ (HomeWhileWhole => HomeWhileWhole')
  <1> DEFINE n == Cardinality(workers)
             w == NthLive(Index(t))
             h == [worker |-> w.id, shard |-> w.shard, whole |-> n = NumWorkers]
  <1>1. IsFiniteSet(workers) /\ n \in Nat /\ n # 0
    BY WorkersFinite, FS_CardinalityType, FS_EmptySet DEF ProcInv, RouteToShard
  <1>2. Index(t) \in 0..(n - 1) BY <1>1 DEF Index, RestInv
  <1>3. w \in workers BY <1>2, NthLiveExists DEF ProcInv
  <1>4. w.id \in Nat /\ w.shard \in Shards BY <1>3 DEF ProcInv, Worker
  <1>5. h \in HomeType BY <1>4 DEF HomeType
  <1>6. home' = [u \in Tokens |-> IF u # t THEN home[u] ELSE h] BY DEF RouteToShard
  <1>7. n = NumWorkers /\ t \in Tokens => w.shard = Hash[t] % NumWorkers
    <2> SUFFICES ASSUME n = NumWorkers, t \in Tokens PROVE w.shard = Hash[t] % NumWorkers OBVIOUS
    <2>1. Hash[t] \in Nat /\ t # Anonymous OBVIOUS
    <2>2. Index(t) = Hash[t] % NumWorkers BY <2>1 DEF Index
    <2> HIDE DEF w
    <2>3. NthLive(Index(t)).shard = Index(t) BY <1>2, NthLiveWhole DEF ProcInv, Shards
    <2> QED BY <2>2, <2>3 DEF w
  <1> HIDE DEF w, h, n
  <1>8. HomeWhileWhole => HomeWhileWhole'
    <2>1. h.whole = (n = NumWorkers) /\ h.shard = w.shard BY DEF h
    <2> QED BY <1>6, <1>7, <2>1 DEF HomeWhileWhole
  <1>9. home' \in [Tokens -> HomeType] BY <1>5, <1>6 DEF RestInv
  <1>10. conn' \in [Conns -> ConnType]
    <2>1. [phase |-> "connecting", to |-> w.shard] \in ConnType BY <1>4 DEF ConnType, Shards
    <2>2. conn' = [conn EXCEPT ![c] = [phase |-> "connecting", to |-> w.shard]]
      BY DEF RouteToShard, w
    <2> QED BY <2>1, <2>2, ConnUpdate DEF RestInv
  <1>11. rrCounter' \in Nat BY DEF RouteToShard, RestInv
  <1> QED BY <1>8, <1>9, <1>10, <1>11 DEF RouteToShard, RestInv

\* The other steps of a connection touch the connection alone.
LEMMA ConnRest ==
  ASSUME ProcInv, RestInv, NEW c \in Conns,
         Accept(c) \/ HeaderFails(c) \/ NoWorker(c) \/ Connect(c) \/ Close(c)
  PROVE  RestInv' /\ home' = home
  <1>1. \E v \in ConnType : conn' = [conn EXCEPT ![c] = v]
    <2>1. CASE Accept(c)
      <3>1. conn[c] \in ConnType BY DEF RestInv
      <3>2. [conn[c] EXCEPT !.phase = "reading"] \in ConnType BY <3>1 DEF ConnType
      <3> QED BY <2>1, <3>2 DEF Accept
    <2>2. CASE HeaderFails(c) \/ NoWorker(c) \/ Close(c)
      BY <2>2, ClosedType DEF HeaderFails, NoWorker, Close
    <2>3. CASE Connect(c)
      <3>1. ASSUME NEW w \in workers PROVE [phase |-> "proxied", to |-> w.id] \in ConnType
        BY DEF ConnType, ProcInv, Worker
      <3> QED BY <2>3, <3>1, ClosedType DEF Connect
    <2> QED BY <2>1, <2>2, <2>3
  <1>2. conn' \in [Conns -> ConnType] BY <1>1, ConnUpdate DEF RestInv
  <1>3. UNCHANGED <<master, home, rrCounter, inbox, env>>
    BY DEF Accept, HeaderFails, NoWorker, Connect, Close
  <1> QED BY <1>2, <1>3 DEF RestInv

LEMMA NextRest == ProcInv /\ RestInv /\ HomeWhileWhole /\ [Next]_vars => RestInv' /\ HomeWhileWhole'
  <1> SUFFICES ASSUME ProcInv, RestInv, HomeWhileWhole, [Next]_vars
               PROVE  RestInv' /\ HomeWhileWhole'
    OBVIOUS
  <1>0. home' = home => HomeWhileWhole' BY DEF HomeWhileWhole
  <1>1. ASSUME UNCHANGED <<master, net, inbox, env>> PROVE RestInv' /\ home' = home
    BY <1>1 DEF RestInv, net
  <1>2. CASE AnyListen \/ AnyTimerFires
    BY <1>0, <1>1, <1>2 DEF AnyListen, Listen, AnyTimerFires, TimerFires
  <1>3. CASE AnyDrained
    BY <1>0, <1>3, ExitRest DEF AnyDrained, Drained, ExitOf, RestInv
  <1>4. CASE AnyMessage
    <2>1. /\ inbox' \subseteq inbox
          /\ UNCHANGED <<master, conn, home, rrCounter, env>>
      BY <1>4 DEF AnyMessage, OnMessage, net
    <2> QED BY <1>0, <2>1 DEF RestInv
  <1>5. ASSUME NEW w \in workers, Crash(w) PROVE RestInv' /\ home' = home
    <2>1. env' \in EnvType BY <1>5, StrikeType DEF Crash, RestInv
    <2> QED BY <1>5, <2>1, ExitRest DEF Crash, ExitOf
  <1>6. ASSUME NEW w \in workers, RestartService(w) PROVE RestInv' /\ home' = home
    <2>1. env' \in EnvType BY <1>6, StrikeType DEF RestartService, RestInv
    <2>2. w.id \in Nat BY DEF ProcInv, Worker
    <2>3. [type |-> "restart_request", from |-> w.id] \in [type : {"restart_request"}, from : Nat]
      BY <2>2
    <2>4. inbox' \subseteq [type : {"restart_request"}, from : Nat]
      BY <1>6, <2>2, <2>3 DEF RestartService, RestInv
    <2>5. UNCHANGED <<master, conn, home, rrCounter>> BY <1>6 DEF RestartService, net
    <2> QED BY <2>1, <2>4, <2>5 DEF RestInv
  <1>7. CASE RestartAll \/ StopDispatcher
    <2>1. env' \in EnvType BY <1>7, StrikeType DEF RestartAll, StopDispatcher, RestInv
    <2> QED BY <1>0, <1>7, <2>1 DEF RestartAll, StopDispatcher, RestInv, net
  <1>8. CASE KillWorkers BY <1>0, <1>8 DEF KillWorkers, RestInv, net
  <1>9. CASE MasterExit BY <1>0, <1>9, ClosedType DEF MasterExit, RestInv
  <1>10. ASSUME NEW c \in Conns, ConnStep(c) PROVE RestInv' /\ HomeWhileWhole'
    <2>1. CASE \E t \in Tokens \cup {Anonymous} : RouteToShard(c, t) BY <2>1, RouteRest
    <2>2. CASE Accept(c) \/ HeaderFails(c) \/ NoWorker(c) \/ Connect(c) \/ Close(c)
      BY <1>0, <2>2, ConnRest
    <2> QED BY <1>10, <2>1, <2>2 DEF ConnStep
  <1>11. CASE UNCHANGED vars BY <1>0, <1>1, <1>11 DEF vars
  <1> QED BY <1>0, <1>2, <1>3, <1>4, <1>5, <1>6, <1>7, <1>8, <1>9, <1>10, <1>11 DEF Next, Processes

LEMMA Invariance == Spec => [](ProcInv /\ RestInv /\ HomeWhileWhole)
  <1>1. Init => ProcInv /\ RestInv /\ HomeWhileWhole
    <2>1. Init => HomeWhileWhole BY DEF Init, NoHome, HomeWhileWhole
    <2> QED BY <2>1, InitClusterInv, TypeSplit
  <1>2. ProcInv /\ RestInv /\ HomeWhileWhole /\ [Next]_vars
          => (ProcInv /\ RestInv /\ HomeWhileWhole)'
    BY NextProcInv, NextRest
  <1> QED BY <1>1, <1>2, PTL DEF Spec

\* The state of the cluster keeps its shapes, and no restart exceeds its budget.
THEOREM ClusterTypeCorrect == Spec => []TypeOK
  <1>1. ProcInv /\ RestInv => TypeOK BY TypeSplit DEF ClusterInv
  <1> QED BY <1>1, Invariance, PTL

\* A shard has one worker or one pending restart at most, whatever crashes, is
\* terminated or restarted: its port and its accounts never have two owners.
THEOREM OneOwnerPerShard == Spec => []OneProcessPerShard
  <1>1. ProcInv => OneProcessPerShard BY DEF ProcInv
  <1> QED BY <1>1, Invariance, PTL

\* For any number of workers and any hash, a token routed while all workers are
\* there goes to the shard of its hash, restarts before notwithstanding.
THEOREM StickyWhileWhole == Spec => []HomeWhileWhole
  <1> QED BY Invariance, PTL

-----------------------------------------------------------------------------
(* No shard is dropped before the shutdown.                                *)

Struck == env.crashes + env.restartCalls
Running == master \in {"up", "stopping"}

\* The budget of a shard pays for crashes and requested restarts only: the attempts
\* of its process, with the exit a draining process still owes, and of its
\* pending restart are no more than these.
BudgetPays ==
  /\ \A w \in workers : w.attempts + (IF w.phase = "draining" THEN 1 ELSE 0) <= Struck
  /\ \A t \in timers : t.attempts <= Struck

CareInv == Running => BudgetPays /\ ShardCaredFor

LEMMA StruckType ==
  ASSUME RestInv
  PROVE  Struck \in Nat
  BY DEF RestInv, EnvType, Struck

LEMMA StrikeCounts ==
  ASSUME RestInv, NEW kind \in {"crashes", "restartCalls"}, NEW max, Strike(kind, max)
  PROVE  Struck' = Struck + 1
  BY DEF RestInv, EnvType, Struck, Strike

LEMMA OtherStrikes ==
  ASSUME RestInv, NEW kind \in {"asks", "shutdowns"}, NEW max, Strike(kind, max)
  PROVE  Struck' = Struck
  BY DEF RestInv, EnvType, Struck, Strike

\* Steps that keep the processes or only move them from phase to phase.
LEMMA PhasesKeepCare ==
  ASSUME ProcInv, RestInv, CareInv, Running, timers' = timers,
         Struck' \in Nat, Struck <= Struck',
         \A w \in workers : \E v \in workers' : v.shard = w.shard,
         \A v \in workers' : \E w \in workers :
            /\ v.attempts = w.attempts
            /\ v.phase = "draining" => w.phase = "draining" \/ Struck < Struck'
  PROVE  CareInv'
  <1> USE DEF CareInv, BudgetPays
  <1>1. Struck \in Nat BY StruckType
  <1>2. \A w \in workers : w.attempts \in Nat BY DEF ProcInv, Worker
  <1>3. \A t \in timers : t.attempts \in Nat BY DEF ProcInv, Timer
  <1>4. BudgetPays' BY <1>1, <1>2, <1>3
  <1>5. ShardCaredFor'
    <2> SUFFICES ASSUME NEW s \in Shards, Struck' <= MaxAttempts
                 PROVE  \E p \in workers' \cup timers' : p.shard = s
      BY DEF ShardCaredFor, Struck
    <2>1. Struck <= MaxAttempts BY <1>1
    <2>2. \E p \in workers \cup timers : p.shard = s
      BY <1>1, <2>1 DEF ShardCaredFor, Running, Struck
    <2> QED BY <2>2
  <1> QED BY <1>4, <1>5

\* The exit of a process is paid for: it is replaced or the budget is spent.
LEMMA ExitKeepsCare ==
  ASSUME ProcInv, RestInv, CareInv, Running, NEW w \in workers, ExitOf(w),
         Struck' \in Nat, Struck <= Struck', w.attempts + 1 <= Struck'
  PROVE  CareInv'
  <1> DEFINE t == [id |-> w.id, shard |-> w.shard, attempts |-> w.attempts + 1]
  <1>1. Struck \in Nat BY StruckType
  <1>2. \A v \in workers : v.attempts \in Nat BY DEF ProcInv, Worker
  <1>3. \A u \in timers : u.attempts \in Nat BY DEF ProcInv, Timer
  <1>4. /\ workers' = workers \ {w}
        /\ timers' = IF w.attempts < MaxAttempts THEN timers \cup {t} ELSE timers
    BY DEF ExitOf, ScheduleRestart, Running
  <1>5. BudgetPays'
    <2>1. \A u \in timers' : u \in timers \/ u = t BY <1>4
    <2>2. \A u \in timers' : u.attempts <= Struck'
      BY <1>1, <1>3, <2>1 DEF CareInv, BudgetPays
    <2>3. \A v \in workers' : v.attempts + (IF v.phase = "draining" THEN 1 ELSE 0) <= Struck'
      BY <1>1, <1>2, <1>4 DEF CareInv, BudgetPays
    <2> QED BY <2>2, <2>3 DEF BudgetPays
  <1>6. ShardCaredFor'
    <2> SUFFICES ASSUME NEW s \in Shards, Struck' <= MaxAttempts
                 PROVE  \E p \in workers' \cup timers' : p.shard = s
      BY DEF ShardCaredFor, Struck
    <2>1. w.attempts < MaxAttempts BY <1>2
    <2>2. t \in timers' /\ t.shard = w.shard /\ timers \subseteq timers' BY <1>4, <2>1
    <2>3. PICK p \in workers \cup timers : p.shard = s
      BY <1>1 DEF CareInv, ShardCaredFor, Running, Struck
    <2>4. CASE p = w BY <2>2, <2>3, <2>4
    <2>5. CASE p # w BY <1>4, <2>2, <2>3, <2>5
    <2> QED BY <2>4, <2>5
  <1> QED BY <1>5, <1>6 DEF CareInv

LEMMA CareStep ==
  ASSUME ProcInv, RestInv, CareInv, [Next]_vars
  PROVE  CareInv'
  <1> SUFFICES ASSUME Running' PROVE CareInv' BY DEF CareInv
  <1>1. Struck \in Nat /\ \A w \in workers : w.attempts \in Nat
    BY StruckType DEF ProcInv, Worker
  <1>2. ASSUME master' = master, UNCHANGED <<workers, timers, env>> PROVE CareInv'
    BY <1>2 DEF CareInv, BudgetPays, ShardCaredFor, Running, Struck
  <1>3. CASE AnyListen
    <2>1. PICK w \in workers : Listen(w) BY <1>3 DEF AnyListen
    <2>2. /\ InPhase(w, "serving").shard = w.shard
          /\ InPhase(w, "serving").attempts = w.attempts
          /\ InPhase(w, "serving").phase = "serving"
      BY DEF InPhase, ProcInv, Worker
    <2>3. /\ Running /\ timers' = timers /\ Struck' = Struck
          /\ workers' = (workers \ {w}) \cup {InPhase(w, "serving")}
      BY <2>1 DEF Listen, Running, Struck
    <2> QED BY <1>1, <2>2, <2>3, PhasesKeepCare
  <1>4. CASE AnyDrained
    <2>1. PICK w \in workers : Drained(w) BY <1>4 DEF AnyDrained
    <2>2. /\ Running /\ Struck' = Struck /\ ExitOf(w) /\ w.phase = "draining"
      BY <2>1 DEF Drained, ExitOf, Running, Struck
    <2>3. w.attempts + 1 <= Struck BY <2>2 DEF CareInv, BudgetPays
    <2> QED BY <1>1, <2>2, <2>3, ExitKeepsCare
  <1>5. CASE AnyTimerFires
    <2>1. PICK t \in timers : TimerFires(t) BY <1>5 DEF AnyTimerFires
    <2> DEFINE w == NewWorker(nextId, t.shard, t.attempts)
    <2>2. /\ Running /\ env' = env /\ timers' = timers \ {t}
          /\ workers' = workers \cup {w}
      BY <2>1 DEF TimerFires, Running
    <2>3. w.shard = t.shard /\ w.attempts = t.attempts /\ w.phase = "starting"
          /\ t.attempts \in Nat
      BY DEF NewWorker, ProcInv, Timer
    <2>4. BudgetPays' BY <1>1, <2>2, <2>3 DEF CareInv, BudgetPays, Struck
    <2>5. ShardCaredFor'
      <3> SUFFICES ASSUME NEW s \in Shards, NEW p \in workers \cup timers, p.shard = s
                   PROVE  \E q \in workers' \cup timers' : q.shard = s
        BY <2>2 DEF CareInv, ShardCaredFor, Running
      <3>1. CASE p = t BY <2>2, <2>3, <3>1
      <3>2. CASE p # t BY <2>2, <3>2
      <3> QED BY <3>1, <3>2
    <2> QED BY <2>4, <2>5 DEF CareInv
  <1>6. CASE AnyMessage
    <2>1. PICK m \in inbox : OnMessage(m) BY <1>6 DEF AnyMessage
    <2>2. m.type # "restart-request" BY DEF RestInv
    <2> QED BY <1>2, <2>1, <2>2 DEF OnMessage
  <1>7. ASSUME NEW w \in workers, Crash(w) PROVE CareInv'
    <2>1. Running /\ ExitOf(w) /\ Struck' = Struck + 1
      BY <1>7, StrikeCounts DEF Crash, ExitOf, Running
    <2>2. w.attempts <= Struck BY <1>1, <2>1 DEF CareInv, BudgetPays
    <2> QED BY <1>1, <2>1, <2>2, ExitKeepsCare
  <1>8. ASSUME NEW w \in workers, RestartService(w) PROVE CareInv'
    <2>1. /\ Running /\ timers' = timers /\ workers' = workers /\ Struck' = Struck
      BY <1>8, OtherStrikes DEF RestartService, Running, proc
    <2> QED BY <1>1, <2>1, PhasesKeepCare
  <1>9. CASE RestartAll
    <2>1. Running /\ timers' = timers /\ Struck' = Struck + 1 /\ Terminate(workers)
      BY <1>9, StrikeCounts DEF RestartAll, Running
    <2>2. workers' = {InPhase(w, "draining") : w \in workers}
      BY <2>1 DEF Terminate, Draining
    <2>3. \A w \in workers : /\ InPhase(w, "draining").shard = w.shard
                             /\ InPhase(w, "draining").attempts = w.attempts
      BY DEF InPhase, ProcInv, Worker
    <2> QED BY <1>1, <2>1, <2>2, <2>3, PhasesKeepCare
  <1>10. CASE StopDispatcher
    <2>1. /\ Running /\ timers' = timers /\ workers' = workers /\ Struck' = Struck
      BY <1>10, OtherStrikes DEF StopDispatcher, Running, proc
    <2> QED BY <1>1, <2>1, PhasesKeepCare
  <1>11. ~KillWorkers /\ ~MasterExit BY DEF KillWorkers, MasterExit, Running
  <1>12. ASSUME NEW c \in Conns, ConnStep(c) PROVE CareInv'
    <2>1. master' = master /\ UNCHANGED proc /\ env' = env
      BY <1>12 DEF ConnStep, Accept, HeaderFails, NoWorker, Connect, Close, RouteToShard
    <2> QED BY <1>2, <2>1 DEF proc
  <1>13. CASE UNCHANGED vars BY <1>2, <1>13 DEF vars, proc
  <1> QED BY <1>3, <1>4, <1>5, <1>6, <1>7, <1>8, <1>9, <1>10, <1>11, <1>12, <1>13
          DEF Next, Processes

\* No order of crashes, drains, timers and restart requests drops a shard: until the
\* shutdown kills the workers it has a process or a pending restart, or its budget
\* is spent.  The safety half of ShardsComeBack.
THEOREM NoShardDropped == Spec => []ShardCaredFor
  <1>1. Init => CareInv
    <2> SUFFICES ASSUME Init PROVE CareInv OBVIOUS
    <2>1. \A s \in Shards : /\ NewWorker(s + 1, s, 0).shard = s
                            /\ NewWorker(s + 1, s, 0).attempts = 0
                            /\ NewWorker(s + 1, s, 0).phase = "starting"
      BY DEF NewWorker
    <2>2. workers = {NewWorker(s + 1, s, 0) : s \in Shards} /\ timers = {} /\ Struck = 0
      BY DEF Init, Struck
    <2>3. BudgetPays BY <2>1, <2>2 DEF BudgetPays
    <2>4. ShardCaredFor BY <2>1, <2>2 DEF ShardCaredFor
    <2> QED BY <2>3, <2>4 DEF CareInv
  <1>2. CareInv => ShardCaredFor BY DEF CareInv, ShardCaredFor, Running
  <1> QED BY <1>1, <1>2, CareStep, Invariance, PTL DEF Spec

-----------------------------------------------------------------------------
(* The end of the shutdown, and of a worker.                               *)

LEMMA OrphansStep ==
  ASSUME ProcInv, OrphansDrain, [Next]_vars
  PROVE  OrphansDrain'
  <1> SUFFICES ASSUME master' = "down"
               PROVE  timers' = {} /\ \A w \in workers' : w.phase = "draining"
    BY DEF OrphansDrain
  <1>1. CASE MasterExit
    <2>1. workers' = {InPhase(w, "draining") : w \in workers} /\ timers' = {}
      BY <1>1 DEF MasterExit, Terminate, Draining
    <2>2. \A w \in workers : InPhase(w, "draining").phase = "draining"
      BY DEF InPhase, ProcInv, Worker
    <2> QED BY <2>1, <2>2
  <1>2. CASE ~MasterExit /\ master # "down"
    BY <1>2 DEF Next, Processes, AnyListen, Listen, AnyDrained, Drained, Crash, ExitOf,
       AnyTimerFires, TimerFires, AnyMessage, OnMessage, RestartService, RestartAll,
       StopDispatcher, KillWorkers, ConnStep, Accept, HeaderFails, NoWorker, Connect, Close,
       RouteToShard, vars
  <1>3. CASE master = "down"
    <2>1. timers = {} /\ \A w \in workers : w.phase = "draining" BY <1>3 DEF OrphansDrain
    <2>2. workers' \subseteq workers /\ timers' = timers
      BY <1>3, <2>1 DEF Next, Processes, AnyListen, Listen, AnyDrained, Drained, Crash, ExitOf,
         AnyTimerFires, TimerFires, AnyMessage, OnMessage, RestartService, RestartAll,
         StopDispatcher, KillWorkers, MasterExit, ConnStep, Accept, HeaderFails, NoWorker,
         Connect, Close, RouteToShard, vars, proc
    <2> QED BY <2>1, <2>2
  <1> QED BY <1>1, <1>2, <1>3

\* Whatever was forked while the master was leaving: once it is gone no restart is
\* pending and every worker left is exiting.  The safety half of
\* NoWorkerOutlivesMaster.
THEOREM NothingForkedAfterMaster == Spec => []OrphansDrain
  <1>1. Init => OrphansDrain BY DEF Init, OrphansDrain
  <1> QED BY <1>1, OrphansStep, Invariance, PTL DEF Spec

LEMMA ProxiedStep ==
  ASSUME ProcInv, RestInv, ProxiedToLive, [Next]_vars
  PROVE  ProxiedToLive'
  <1>1. ASSUME conn' = conn,
               \A w \in workers : w.phase # "starting" =>
                  \E v \in workers' : v.id = w.id /\ v.phase # "starting"
        PROVE  ProxiedToLive'
    BY <1>1 DEF ProxiedToLive
  <1>2. \A w \in workers, phase \in {"serving", "draining"} :
           InPhase(w, phase).id = w.id /\ InPhase(w, phase).phase = phase
    BY DEF InPhase, ProcInv, Worker
  <1>3. ASSUME NEW ws \in SUBSET workers, Terminate(ws), conn' = conn PROVE ProxiedToLive'
    BY <1>1, <1>2, <1>3 DEF Terminate, Draining
  <1>4. ASSUME NEW w \in workers, ExitOf(w) PROVE ProxiedToLive'
    <2>1. workers' = workers \ {w} BY <1>4 DEF ExitOf
    <2>2. \A c \in Conns : conn'[c].phase = "proxied" => conn'[c] = conn[c] /\ conn[c].to # w.id
      BY <1>4 DEF ExitOf, Hangup, Closed, RestInv
    <2> QED BY <2>1, <2>2 DEF ProxiedToLive
  <1>5. CASE AnyListen
    BY <1>1, <1>2, <1>5 DEF AnyListen, Listen, net
  <1>6. CASE AnyDrained BY <1>4, <1>6 DEF AnyDrained, Drained
  <1>7. CASE AnyTimerFires BY <1>1, <1>7 DEF AnyTimerFires, TimerFires, net
  <1>8. CASE AnyMessage
    <2>1. workers' = workers /\ conn' = conn
      BY <1>8 DEF AnyMessage, OnMessage, RestInv, net
    <2> QED BY <1>1, <2>1
  <1>9. ASSUME NEW w \in workers, Crash(w) \/ RestartService(w) PROVE ProxiedToLive'
    BY <1>1, <1>4, <1>9 DEF Crash, RestartService, proc, net
  <1>10. CASE RestartAll \/ KillWorkers BY <1>3, <1>10 DEF RestartAll, KillWorkers, net
  <1>11. CASE StopDispatcher BY <1>1, <1>11 DEF StopDispatcher, proc, net
  <1>12. CASE MasterExit
    <2>1. \A c \in Conns : conn'[c].phase = "closed" BY <1>12 DEF MasterExit, Closed
    <2> QED BY <2>1 DEF ProxiedToLive
  <1>13. ASSUME NEW c \in Conns, ConnStep(c) PROVE ProxiedToLive'
    <2>1. workers' = workers
      BY <1>13 DEF ConnStep, Accept, HeaderFails, NoWorker, Connect, Close, RouteToShard, proc
    <2>2. \A d \in Conns \ {c} : conn'[d] = conn[d]
      BY <1>13 DEF ConnStep, Accept, HeaderFails, NoWorker, Connect, Close, RouteToShard, RestInv
    <2>3. conn'[c].phase = "proxied" =>
            \E w \in workers : conn'[c].to = w.id /\ w.phase = "serving"
      <3>1. CASE Connect(c) BY <3>1 DEF Connect, Closed, RestInv
      <3>2. CASE ~Connect(c)
        BY <1>13, <3>2 DEF ConnStep, Accept, HeaderFails, NoWorker, Close, RouteToShard,
           Closed, RestInv, ConnType
      <3> QED BY <3>1, <3>2
    <2> QED BY <2>1, <2>2, <2>3 DEF ProxiedToLive
  <1>14. CASE UNCHANGED vars BY <1>1, <1>14 DEF vars, proc, net
  <1> QED BY <1>5, <1>6, <1>7, <1>8, <1>9, <1>10, <1>11, <1>12, <1>13, <1>14 DEF Next, Processes

\* A forwarded connection has a living process that listened at its other end,
\* whatever exits and replacements came meanwhile.
THEOREM ForwardedToLive == Spec => []ProxiedToLive
  <1>1. Init => ProxiedToLive BY DEF Init, ProxiedToLive
  <1> QED BY <1>1, ProxiedStep, Invariance, PTL DEF Spec
-----------------------------------------------------------------------------
(* Cluster implements ShardSupervision.                                    *)

Ids == [s \in Shards |-> ProcessesOf(s)]
Waiting == {t.shard : t \in timers}
Left == [s \in Shards |-> RestartsLeft(s)]

\* The operators of the mapping, for a shard with a worker, with a worker or a timer,
\* and without.
LEMMA OwnersOf ==
  ASSUME ProcInv, NEW w \in workers
  PROVE  ProcessesOf(w.shard) = {w.id}
  BY DEF ProcInv, OneProcessPerShard, ProcessesOf

LEMMA NoOwners ==
  ASSUME NEW s, \A w \in workers : w.shard # s
  PROVE  ProcessesOf(s) = {}
  BY DEF ProcessesOf

LEMMA LeftOf ==
  ASSUME ProcInv, NEW p \in workers \cup timers
  PROVE  RestartsLeft(p.shard) = MaxAttempts - p.attempts
  <1>1. \A q \in workers \cup timers : q.shard = p.shard => q = p
    BY DEF ProcInv, OneProcessPerShard
  <1>2. (CHOOSE q \in workers \cup timers : q.shard = p.shard) = p
    BY <1>1
  <1> QED BY <1>2 DEF RestartsLeft

LEMMA NoneLeft ==
  ASSUME NEW s, \A p \in workers \cup timers : p.shard # s
  PROVE  RestartsLeft(s) = 0
  BY DEF RestartsLeft

\* What happens to one shard leaves the processes of the others alone.
LEMMA OthersKeep ==
  ASSUME ProcInv, ProcInv', NEW s \in Shards,
         \A w \in workers : w.shard = s => \E v \in workers' :
           v.shard = s /\ v.id = w.id /\ v.attempts = w.attempts,
         \A v \in workers' : v.shard = s => \E w \in workers :
           w.shard = s /\ v.id = w.id /\ v.attempts = w.attempts,
         \A t : t.shard = s => (t \in timers <=> t \in timers')
  PROVE  /\ ProcessesOf(s)' = ProcessesOf(s)
         /\ RestartsLeft(s)' = RestartsLeft(s)
         /\ s \in Waiting' <=> s \in Waiting
  <1>1. ProcessesOf(s)' = ProcessesOf(s) BY DEF ProcessesOf
  <1>2. s \in Waiting' <=> s \in Waiting BY DEF Waiting
  <1>3. RestartsLeft(s)' = RestartsLeft(s)
    <2>1. CASE \E p \in workers \cup timers : p.shard = s
      <3>1. PICK p \in workers \cup timers : p.shard = s BY <2>1
      <3>2. PICK q \in workers' \cup timers' : q.shard = s /\ q.attempts = p.attempts
        BY <3>1
      <3>3. RestartsLeft(s) = MaxAttempts - p.attempts BY <3>1, LeftOf
      <3>4. RestartsLeft(s)' = MaxAttempts - q.attempts
        <4>1. \A u \in workers' \cup timers' : u.shard = q.shard => u = q
          BY DEF ProcInv, OneProcessPerShard
        <4>2. (CHOOSE u \in workers' \cup timers' : u.shard = s) = q
          BY <3>2, <4>1
        <4> QED BY <3>2, <4>2 DEF RestartsLeft
      <3> QED BY <3>2, <3>3, <3>4
    <2>2. CASE ~\E p \in workers \cup timers : p.shard = s
      <3>1. ~\E q \in workers' \cup timers' : q.shard = s BY <2>2
      <3> QED BY <2>2, <3>1 DEF RestartsLeft
    <2> QED BY <2>1, <2>2
  <1> QED BY <1>1, <1>2, <1>3

\* Steps that only move processes from phase to phase, and those elsewhere.
LEMMA SupervisionStutters ==
  ASSUME ProcInv, ProcInv',
         \A w \in workers : \E v \in workers' :
           v.shard = w.shard /\ v.id = w.id /\ v.attempts = w.attempts,
         \A v \in workers' : \E w \in workers :
           v.shard = w.shard /\ v.id = w.id /\ v.attempts = w.attempts,
         timers' = timers, nextId' = nextId, (master' = "down") = (master = "down")
  PROVE  [Supervision!Next]_(Supervision!vars)
  <1>1. \A s \in Shards : ProcessesOf(s)' = ProcessesOf(s) /\ RestartsLeft(s)' = RestartsLeft(s)
    BY OthersKeep
  <1>2. Ids' = Ids /\ Left' = Left /\ Waiting' = Waiting BY <1>1 DEF Ids, Left, Waiting
  <1> QED BY <1>2 DEF Supervision!vars, Ids, Left, Waiting

\* The exit of a process is the end of its shard's one, with a restart or without.
LEMMA ExitSupervised ==
  ASSUME ProcInv, ProcInv', NEW w \in workers, ExitOf(w)
  PROVE  [Supervision!Next]_(Supervision!vars)
  <1> DEFINE s == w.shard
             t == [id |-> w.id, shard |-> w.shard, attempts |-> w.attempts + 1]
  <1>1. w \in Worker /\ s \in Shards /\ w.attempts \in Nat /\ w.attempts <= MaxAttempts
    BY DEF ProcInv, Worker
  <1>2. /\ workers' = workers \ {w} /\ nextId' = nextId /\ master' = master
        /\ timers' = IF master # "down" /\ w.attempts < MaxAttempts THEN timers \cup {t} ELSE timers
    BY DEF ExitOf, ScheduleRestart
  <1>3. ProcessesOf(s) = {w.id} /\ RestartsLeft(s) = MaxAttempts - w.attempts
    BY OwnersOf, LeftOf
  <1>4. ProcessesOf(s)' = {} BY <1>2 DEF ProcInv, OneProcessPerShard, ProcessesOf
  <1>5. ASSUME NEW z \in Shards, z # s
        PROVE  /\ ProcessesOf(z)' = ProcessesOf(z)
               /\ RestartsLeft(z)' = RestartsLeft(z)
    <2>1. \A u : u.shard = z => (u \in timers <=> u \in timers') BY <1>2, <1>5
    <2>2. \A v \in workers : v.shard = z => v \in workers' BY <1>2, <1>5
    <2> QED BY <1>2, <2>1, <2>2, OthersKeep
  <1>6. Ids' = [Ids EXCEPT ![s] = {}] BY <1>1, <1>4, <1>5 DEF Ids
  <1>7. CASE master # "down" /\ w.attempts < MaxAttempts
    <2>1. t \in timers' /\ t.shard = s /\ t.attempts = w.attempts + 1 BY <1>2, <1>7
    <2>2. RestartsLeft(s)' = MaxAttempts - (w.attempts + 1)
      <3>1. \A q \in workers' \cup timers' : q.shard = s => q = t
        BY <2>1 DEF ProcInv, OneProcessPerShard
      <3>2. (CHOOSE q \in workers' \cup timers' : q.shard = s) = t BY <2>1, <3>1
      <3> QED BY <2>1, <3>2 DEF RestartsLeft
    <2>3. Left' = [Left EXCEPT ![s] = @ - 1] BY <1>1, <1>3, <1>5, <2>2 DEF Left
    <2>4. Waiting' = Waiting \cup {s}
      <3>1. timers' = timers \cup {t} BY <1>2, <1>7
      <3> HIDE DEF t
      <3> QED BY <2>1, <3>1 DEF Waiting
    <2>5. Ids[s] # {} /\ Left[s] > 0 BY <1>1, <1>3, <1>7 DEF Ids, Left
    <2>6. Supervision!Schedule(s)
      BY <1>2, <1>6, <1>7, <2>3, <2>4, <2>5
         DEF Supervision!Schedule, Supervision!End, Ids, Left, Waiting
    <2> QED BY <1>1, <2>6 DEF Supervision!Next, Supervision!Shards, Shards
  <1>8. CASE ~(master # "down" /\ w.attempts < MaxAttempts)
    <2>1. timers' = timers BY <1>2, <1>8
    <2>2. \A q \in workers' \cup timers' : q.shard # s
      BY <1>2, <2>1 DEF ProcInv, OneProcessPerShard
    <2>3. RestartsLeft(s)' = 0 BY <2>2 DEF RestartsLeft
    <2>4. Left' = [Left EXCEPT ![s] = 0] BY <1>1, <1>5, <2>3 DEF Left
    <2>5. Waiting' = Waiting BY <2>1 DEF Waiting
    <2>6. Ids[s] # {} /\ (master = "down" \/ Left[s] = 0)
      <3>1. Ids[s] = {w.id} /\ Left[s] = MaxAttempts - w.attempts
        BY <1>1, <1>3 DEF Ids, Left
      <3>2. master = "down" \/ w.attempts = MaxAttempts BY <1>1, <1>8
      <3> HIDE DEF s
      <3> QED BY <3>1, <3>2
    <2>7. Supervision!GiveUp(s)
      BY <1>2, <1>6, <2>4, <2>5, <2>6
         DEF Supervision!GiveUp, Supervision!End, Ids, Left, Waiting
    <2> QED BY <1>1, <2>7 DEF Supervision!Next, Supervision!Shards, Shards
  <1> QED BY <1>7, <1>8

\* A timer that fires starts the process its shard waits for.
LEMMA TimerSupervised ==
  ASSUME ProcInv, ProcInv', NEW t \in timers, TimerFires(t)
  PROVE  [Supervision!Next]_(Supervision!vars)
  <1> DEFINE s == t.shard
             w == NewWorker(nextId, t.shard, t.attempts)
  <1>1. t \in Timer /\ s \in Shards /\ nextId \in Nat BY DEF ProcInv, Timer
  <1>2. w.shard = s /\ w.id = nextId /\ w.attempts = t.attempts BY DEF NewWorker
  <1>3. /\ master # "down" /\ master' = master
        /\ timers' = timers \ {t} /\ workers' = workers \cup {w} /\ nextId' = nextId + 1
    BY DEF TimerFires
  <1>4. \A v \in workers' : v.shard = s => v = w
    BY <1>2, <1>3 DEF ProcInv, OneProcessPerShard
  <1>5. ProcessesOf(s)' = {nextId} BY <1>2, <1>3, <1>4 DEF ProcessesOf
  <1>6. RestartsLeft(s)' = RestartsLeft(s)
    <2>1. RestartsLeft(s) = MaxAttempts - t.attempts BY LeftOf
    <2>2. \A q \in workers' \cup timers' : q.shard = s => q = w
      BY <1>2, <1>3 DEF ProcInv, OneProcessPerShard
    <2>3. (CHOOSE q \in workers' \cup timers' : q.shard = s) = w BY <1>2, <1>3, <2>2
    <2> QED BY <1>2, <1>3, <2>1, <2>3 DEF RestartsLeft
  <1>7. ASSUME NEW z \in Shards, z # s
        PROVE  /\ ProcessesOf(z)' = ProcessesOf(z)
               /\ RestartsLeft(z)' = RestartsLeft(z)
    <2>1. \A u : u.shard = z => (u \in timers <=> u \in timers') BY <1>3, <1>7
    <2>2. \A v \in workers' : v.shard = z => v \in workers BY <1>2, <1>3, <1>7
    <2> QED BY <1>3, <2>1, <2>2, OthersKeep
  <1>8. Ids' = [Ids EXCEPT ![s] = {nextId}] BY <1>1, <1>5, <1>7 DEF Ids
  <1>9. Left' = Left BY <1>6, <1>7 DEF Left
  <1>10. Waiting' = Waiting \ {s} /\ s \in Waiting
    BY <1>3 DEF Waiting, ProcInv, OneProcessPerShard
  <1>11. nextId' - 1 = (nextId - 1) + 1 /\ nextId = (nextId - 1) + 1 BY <1>1, <1>3
  <1>12. Supervision!Start(s)
    BY <1>3, <1>8, <1>9, <1>10, <1>11 DEF Supervision!Start, Ids, Left, Waiting
  <1> QED BY <1>1, <1>12 DEF Supervision!Next, Supervision!Shards, Shards

\* With the master its timers go, and the restarts their shards had left.
LEMMA MasterExitSupervised ==
  ASSUME ProcInv, ProcInv', MasterExit
  PROVE  [Supervision!Next]_(Supervision!vars)
  <1>1. /\ master # "down" /\ master' = "down" /\ timers' = {} /\ nextId' = nextId
        /\ Terminate(workers)
    BY DEF MasterExit
  <1>2. /\ \A v \in workers' : \E w \in workers :
             v.shard = w.shard /\ v.id = w.id /\ v.attempts = w.attempts
        /\ \A w \in workers : \E v \in workers' :
             v.shard = w.shard /\ v.id = w.id /\ v.attempts = w.attempts
    BY <1>1, TerminateKeeps DEF ProcInv
  <1>3. Ids' = Ids
    <2>1. ASSUME NEW s \in Shards PROVE ProcessesOf(s)' = ProcessesOf(s)
      BY <1>2 DEF ProcessesOf
    <2> QED BY <2>1 DEF Ids
  <1>4. Waiting' = {} BY <1>1 DEF Waiting
  <1>5. Left' = [s \in Shards |-> IF s \in Waiting THEN 0 ELSE Left[s]]
    <2>1. ASSUME NEW s \in Waiting PROVE RestartsLeft(s)' = 0
      <3>1. PICK t \in timers : t.shard = s BY DEF Waiting
      <3>2. \A q \in workers' \cup timers' : q.shard # s
        BY <1>1, <1>2, <3>1 DEF ProcInv, OneProcessPerShard
      <3> QED BY <3>2 DEF RestartsLeft
    <2>2. ASSUME NEW s \in Shards, s \notin Waiting PROVE RestartsLeft(s)' = RestartsLeft(s)
      <3>1. \A t : t.shard = s => (t \in timers <=> t \in timers') BY <1>1, <2>2 DEF Waiting
      <3> QED BY <1>2, <3>1, OthersKeep
    <2> QED BY <2>1, <2>2 DEF Left
  <1>6. Supervision!MasterGoes
    BY <1>1, <1>3, <1>4, <1>5 DEF Supervision!MasterGoes, Supervision!Shards, Shards, Ids, Left, Waiting
  <1> QED BY <1>6 DEF Supervision!Next

LEMMA SupervisionStep ==
  ASSUME ProcInv, RestInv, [Next]_vars
  PROVE  [Supervision!Next]_(Supervision!vars)
  <1>0. ProcInv' BY NextProcInv
  <1>1. ASSUME UNCHANGED proc, (master' = "down") = (master = "down")
        PROVE  [Supervision!Next]_(Supervision!vars)
    BY <1>0, <1>1, SupervisionStutters DEF proc
  <1>2. ASSUME Terminate(workers), timers' = timers, nextId' = nextId,
               (master' = "down") = (master = "down")
        PROVE  [Supervision!Next]_(Supervision!vars)
    <2>1. workers \subseteq Worker /\ workers \in SUBSET workers BY DEF ProcInv
    <2> QED BY <1>0, <1>2, <2>1, TerminateKeeps, SupervisionStutters
  <1>3. CASE AnyListen
    <2>1. PICK w \in workers : Listen(w) BY <1>3 DEF AnyListen
    <2> DEFINE v == InPhase(w, "serving")
    <2>2. v.shard = w.shard /\ v.id = w.id /\ v.attempts = w.attempts
      BY InPhaseType DEF ProcInv
    <2>3. /\ workers' = (workers \ {w}) \cup {v}
          /\ timers' = timers /\ nextId' = nextId /\ master' = master
      BY <2>1 DEF Listen
    <2> HIDE DEF v
    <2> QED BY <1>0, <2>2, <2>3, SupervisionStutters
  <1>4. CASE AnyDrained BY <1>0, <1>4, ExitSupervised DEF AnyDrained, Drained
  <1>5. CASE AnyTimerFires BY <1>0, <1>5, TimerSupervised DEF AnyTimerFires
  <1>6. CASE AnyMessage
    <2>1. UNCHANGED proc /\ master' = master
      BY <1>6 DEF AnyMessage, OnMessage, RestInv, proc
    <2> QED BY <1>1, <2>1
  <1>7. ASSUME NEW w \in workers, Crash(w) PROVE [Supervision!Next]_(Supervision!vars)
    BY <1>0, <1>7, ExitSupervised DEF Crash
  <1>8. ASSUME NEW w \in workers, RestartService(w) PROVE [Supervision!Next]_(Supervision!vars)
    BY <1>1, <1>8 DEF RestartService
  <1>9. CASE RestartAll BY <1>2, <1>9 DEF RestartAll
  <1>10. CASE StopDispatcher BY <1>1, <1>10 DEF StopDispatcher, proc
  <1>11. CASE KillWorkers BY <1>2, <1>11 DEF KillWorkers
  <1>12. CASE MasterExit BY <1>0, <1>12, MasterExitSupervised
  <1>13. ASSUME NEW c \in Conns, ConnStep(c) PROVE [Supervision!Next]_(Supervision!vars)
    <2>1. UNCHANGED proc /\ master' = master
      BY <1>13 DEF ConnStep, Accept, HeaderFails, NoWorker, Connect, Close, RouteToShard
    <2> QED BY <1>1, <2>1
  <1>14. CASE UNCHANGED vars BY <1>1, <1>14 DEF vars
  <1> QED BY <1>3, <1>4, <1>5, <1>6, <1>7, <1>8, <1>9, <1>10, <1>11, <1>12, <1>13, <1>14
          DEF Next, Processes

\* For any number of workers and any budget the cluster implements ShardSupervision:
\* crashes, drains, timers and a shutdown in any order give a shard one process after
\* another, within its budget.
THEOREM ShardsSupervised == Spec => ImplementsShardSupervision
  <1>1. Init => Supervision!Init
    <2> SUFFICES ASSUME Init PROVE Supervision!Init OBVIOUS
    <2>1. \A s \in Shards : /\ NewWorker(s + 1, s, 0).shard = s
                            /\ NewWorker(s + 1, s, 0).id = s + 1
                            /\ NewWorker(s + 1, s, 0).attempts = 0
      BY DEF NewWorker
    <2>2. workers = {NewWorker(s + 1, s, 0) : s \in Shards} /\ timers = {} BY DEF Init
    <2>3. ASSUME NEW s \in Shards
          PROVE  ProcessesOf(s) = {s + 1} /\ RestartsLeft(s) = MaxAttempts
      <3> DEFINE w == NewWorker(s + 1, s, 0)
      <3>1. w \in workers /\ w.shard = s /\ w.id = s + 1 /\ w.attempts = 0 BY <2>1, <2>2
      <3>2. ProcInv BY InitClusterInv, TypeSplit
      <3> HIDE DEF w
      <3>3. ProcessesOf(s) = {s + 1} BY <3>1, <3>2, OwnersOf
      <3>4. RestartsLeft(s) = MaxAttempts - 0 BY <3>1, <3>2, LeftOf
      <3> QED BY <3>3, <3>4
    <2>4. nextId - 1 = NumWorkers /\ (master = "down") = FALSE BY DEF Init
    <2>5. {t.shard : t \in timers} = {} BY <2>2
    <2>6. [s \in Shards |-> ProcessesOf(s)] = [s \in Shards |-> {s + 1}]
      BY <2>3
    <2>7. [s \in Shards |-> RestartsLeft(s)] = [s \in Shards |-> MaxAttempts]
      BY <2>3
    <2> QED BY <2>4, <2>5, <2>6, <2>7 DEF Supervision!Init, Supervision!Shards, Shards
  <1>2. Spec => Supervision!Spec
    BY <1>1, SupervisionStep, Invariance, PTL DEF Spec, Supervision!Spec
  <1> QED BY <1>2 DEF ImplementsShardSupervision
-----------------------------------------------------------------------------
(* What ShardSupervision promises the shards, proved of its own steps.     *)

LastId == nextId - 1
Over == master = "down"

\* The steps of ShardSupervision in the names of the mapping.
LEMMA StepsNamed ==
  /\ Supervision!Init <=>
       /\ Ids = [s \in Shards |-> {s + 1}] /\ LastId = NumWorkers
       /\ Waiting = {} /\ Left = [s \in Shards |-> MaxAttempts] /\ Over = FALSE
  /\ \A s : Supervision!Start(s) <=>
       /\ s \in Waiting /\ ~Over
       /\ LastId' = LastId + 1 /\ Ids' = [Ids EXCEPT ![s] = {LastId + 1}]
       /\ Waiting' = Waiting \ {s} /\ Left' = Left /\ Over' = Over
  /\ \A s : Supervision!Schedule(s) <=>
       /\ ~Over /\ Left[s] > 0 /\ Ids[s] # {} /\ Ids' = [Ids EXCEPT ![s] = {}]
       /\ Waiting' = Waiting \cup {s} /\ Left' = [Left EXCEPT ![s] = @ - 1]
       /\ LastId' = LastId /\ Over' = Over
  /\ \A s : Supervision!GiveUp(s) <=>
       /\ Over \/ Left[s] = 0
       /\ Ids[s] # {} /\ Ids' = [Ids EXCEPT ![s] = {}]
       /\ Left' = [Left EXCEPT ![s] = 0]
       /\ Waiting' = Waiting /\ LastId' = LastId /\ Over' = Over
  /\ Supervision!MasterGoes <=>
       /\ ~Over /\ Over' = TRUE /\ Waiting' = {}
       /\ Left' = [s \in Shards |-> IF s \in Waiting THEN 0 ELSE Left[s]]
       /\ Ids' = Ids /\ LastId' = LastId
  BY DEF Supervision!Init, Supervision!Start, Supervision!Schedule, Supervision!GiveUp,
     Supervision!End, Supervision!MasterGoes, Supervision!Shards, Shards,
     Ids, Waiting, Left, LastId, Over

Accounted ==
  /\ LastId \in Nat
  /\ Ids = [s \in Shards |-> Ids[s]] /\ Left = [s \in Shards |-> Left[s]]
  /\ \A s \in Shards : Ids[s] = {} \/ \E id \in 1..LastId : Ids[s] = {id}
  /\ \A s, z \in Shards : s # z => Ids[s] \cap Ids[z] = {}
  /\ \A s \in Shards : Ids[s] = {} => s \in Waiting \/ Left[s] = 0
  /\ \A s \in Waiting : s \in Shards /\ Ids[s] = {} /\ ~Over

LEMMA AccountedInit == Supervision!Init => Accounted
  <1> SUFFICES ASSUME Supervision!Init PROVE Accounted OBVIOUS
  <1>1. /\ Ids = [s \in Shards |-> {s + 1}] /\ LastId = NumWorkers
        /\ Waiting = {} /\ Left = [s \in Shards |-> MaxAttempts]
    BY StepsNamed
  <1> QED BY <1>1 DEF Accounted, Shards

LEMMA AccountedStep ==
  ASSUME Accounted, [Supervision!Next]_(Supervision!vars)
  PROVE  /\ Accounted'
         /\ \A s \in Shards : \A id \in Ids'[s] \ Ids[s] :
              Ids[s] = {} /\ s \in Waiting /\ id > LastId
  <1> DEFINE Younger == \A s \in Shards : \A id \in Ids'[s] \ Ids[s] :
                          Ids[s] = {} /\ s \in Waiting /\ id > LastId
  <1>1. ASSUME NEW s \in Shards, Supervision!Start(s) PROVE Accounted' /\ Younger
    <2>1. /\ s \in Waiting /\ ~Over /\ Ids[s] = {}
          /\ LastId' = LastId + 1 /\ Ids' = [Ids EXCEPT ![s] = {LastId + 1}]
          /\ Waiting' = Waiting \ {s} /\ Left' = Left /\ Over' = Over
      BY <1>1, StepsNamed DEF Accounted
    <2>2. LastId \in Nat /\ Ids = [z \in Shards |-> Ids[z]] BY DEF Accounted
    <2>3. Ids'[s] = {LastId + 1} /\ \A z \in Shards \ {s} : Ids'[z] = Ids[z] BY <2>1, <2>2
    <2>4. \A z \in Shards : LastId + 1 \notin Ids[z] BY <2>2 DEF Accounted
    <2>5. Younger BY <2>1, <2>2, <2>3
    <2>6. \A z \in Shards : Ids'[z] = {} \/ \E id \in 1..LastId' : Ids'[z] = {id}
      BY <2>1, <2>2, <2>3 DEF Accounted
    <2>7. \A y, z \in Shards : y # z => Ids'[y] \cap Ids'[z] = {}
      BY <2>3, <2>4 DEF Accounted
    <2>8. Ids' = [z \in Shards |-> Ids'[z]] BY <2>1, <2>2
    <2>9. /\ \A z \in Shards : Ids'[z] = {} => z \in Waiting' \/ Left'[z] = 0
          /\ \A z \in Waiting' : z \in Shards /\ Ids'[z] = {} /\ ~Over'
      BY <2>1, <2>3 DEF Accounted
    <2>10. LastId' \in Nat /\ Left' = [z \in Shards |-> Left'[z]] BY <2>1, <2>2 DEF Accounted
    <2> QED BY <2>5, <2>6, <2>7, <2>8, <2>9, <2>10 DEF Accounted
  <1>2. ASSUME NEW s \in Shards, Supervision!Schedule(s) \/ Supervision!GiveUp(s)
        PROVE  Accounted' /\ Younger
    <2>1. /\ Ids[s] # {} /\ Ids' = [Ids EXCEPT ![s] = {}]
          /\ LastId' = LastId /\ Over' = Over
          /\ \E n : Left' = [Left EXCEPT ![s] = n]
          /\ \/ Waiting' = Waiting \cup {s} /\ ~Over
             \/ Waiting' = Waiting /\ Left' = [Left EXCEPT ![s] = 0]
      BY <1>2, StepsNamed
    <2>2. /\ LastId \in Nat /\ Ids = [z \in Shards |-> Ids[z]]
          /\ Left = [z \in Shards |-> Left[z]]
      BY DEF Accounted
    <2>3. Ids'[s] = {} /\ \A z \in Shards \ {s} : Ids'[z] = Ids[z] /\ Left'[z] = Left[z]
      BY <2>1, <2>2
    <2>4. Younger BY <2>3
    <2>5. /\ \A z \in Shards : Ids'[z] = {} \/ \E id \in 1..LastId' : Ids'[z] = {id}
          /\ \A y, z \in Shards : y # z => Ids'[y] \cap Ids'[z] = {}
      BY <2>1, <2>3 DEF Accounted
    <2>6. s \in Waiting' \/ Left'[s] = 0 BY <2>1, <2>2
    <2>7. /\ \A z \in Shards : Ids'[z] = {} => z \in Waiting' \/ Left'[z] = 0
          /\ \A z \in Waiting' : z \in Shards /\ Ids'[z] = {} /\ ~Over'
      BY <2>1, <2>3, <2>6 DEF Accounted
    <2>8. Ids' = [z \in Shards |-> Ids'[z]] /\ Left' = [z \in Shards |-> Left'[z]]
      BY <2>1, <2>2
    <2> QED BY <2>1, <2>2, <2>4, <2>5, <2>7, <2>8 DEF Accounted
  <1>3. CASE Supervision!MasterGoes
    <2>1. /\ Waiting' = {} /\ Ids' = Ids /\ LastId' = LastId
          /\ Left' = [s \in Shards |-> IF s \in Waiting THEN 0 ELSE Left[s]]
      BY <1>3, StepsNamed
    <2> QED BY <2>1 DEF Accounted
  <1>4. CASE UNCHANGED Supervision!vars
    <2>1. UNCHANGED <<Ids, Waiting, Left, LastId, Over>>
      BY <1>4 DEF Supervision!vars, Ids, Waiting, Left, LastId, Over
    <2> QED BY <2>1 DEF Accounted
  <1>5. Supervision!Shards = Shards BY DEF Supervision!Shards, Shards
  <1> QED BY <1>1, <1>2, <1>3, <1>4, <1>5 DEF Supervision!Next

LEMMA AccountedAlways == Supervision!Spec => []Accounted
  BY AccountedInit, AccountedStep, PTL DEF Supervision!Spec

\* What ShardSupervision promises holds of the cluster: no shard has two processes, no
\* process two shards, and a shard without process or pending restart has used up
\* its restarts, or the master has gone.
THEOREM ShardsAccountedFor == Spec => []Supervision!AllShardsAccounted
  <1>1. Accounted => Supervision!AllShardsAccounted
    BY DEF Accounted, Supervision!AllShardsAccounted, Supervision!Shards, Shards,
       Ids, Waiting, Left, LastId, Over
  <1>2. ImplementsShardSupervision => Supervision!Spec BY DEF ImplementsShardSupervision
  <1> QED BY <1>1, <1>2, AccountedAlways, ShardsSupervised, PTL

\* Each shard gets one process after another: only while it has none and a restart is
\* pending, and with an id younger than any before it.
THEOREM ShardsOneAfterAnother == Spec => Supervision!OneAfterAnother
  <1>1. ASSUME Accounted, [Supervision!Next]_(Supervision!vars)
        PROVE  Supervision!Succession
    BY <1>1, AccountedStep DEF Supervision!Succession, Supervision!Shards, Shards, Ids, Waiting, LastId
  <1>2. ImplementsShardSupervision => Supervision!Spec BY DEF ImplementsShardSupervision
  <1>3. Supervision!Spec => [][Supervision!Succession]_(Supervision!vars)
    BY <1>1, AccountedAlways, PTL DEF Supervision!Spec
  <1> QED BY <1>2, <1>3, ShardsSupervised, PTL DEF Supervision!OneAfterAnother
=============================================================================
