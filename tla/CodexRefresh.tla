---------------------------- MODULE CodexRefresh ----------------------------
(***************************************************************************)
(* The token refresh of one Codex account.  The authorization server       *)
(* rotates: each refresh token is accepted once and answered with the next *)
(* one, here its successor.  Every process of the cluster may hold several *)
(* service instances of the account (one per proxy setting), each with its *)
(* own copy of the credentials; the row of oauth_credentials is shared.    *)
(* A refresh runs under a Redis lock with a time to live or, without       *)
(* Redis, under a MySQL lock; the calls of one instance wait on            *)
(* refreshInFlight, those of one process are merged by withDeduplication.  *)
(***************************************************************************)
EXTENDS Integers, FiniteSets

CONSTANTS
  Procs,      \* worker processes
  Instances,  \* CodexApiService objects of the account
  ProcOf,     \* the process of each instance
  Callers,    \* requests in progress on the account
  InstOf,     \* the instance each of them uses
  MaxToken,   \* bound on the rotations of the token
  MaxFaults,  \* bound on the kinds of faults of one behaviour
  Nobody, Orphan  \* a free lock; a lock left in Redis by a dead process

\* Faults; and what may happen without any: a loading instance writes an older
\* token back, a caller takes over a row that has changed since it read it.
FaultKinds == {"lapse", "answer", "read", "write", "crash", "redis"}
Surprises == {"overwrite", "late"}

ASSUME RefreshAssumption ==
  /\ ProcOf \in [Instances -> Procs]
  /\ InstOf \in [Callers -> Instances]
  /\ MaxToken \in Nat \ {0} /\ MaxFaults \in Nat
  /\ Nobody # Orphan /\ {Nobody, Orphan} \cap Instances = {}

VARIABLES
  db,      \* the stored refresh token
  raw,     \* the stored row still lacks the normalised fields
  server,  \* the token the server accepts
  redis,   \* holder of lock:codex:refresh:<id>
  mysql,   \* holder of the MySQL lock codex-refresh:<id>
  mem,     \* this.credentials.refreshToken of each instance, 0 before loading
  pc,      \* where the refresh (or the loading) of each instance is
  got,     \* the token in its hands: the one it goes by and posts (oldRefreshToken,
           \* oldRT), then the answer, not yet stored; of a loading, the one it read
  out,     \* how its refresh ends
  caller,  \* what each caller waits for, or how its refresh ended
  seen,    \* the token a waiting caller read from the database
  faults   \* kinds of faults and surprises so far

store == <<db, raw>>
locks == <<redis, mysql>>
instance == <<mem, pc, got, out>>
callers == <<caller, seen>>
vars == <<store, server, locks, instance, callers, faults>>

Ended == {"idle", "ok", "busy", "dead", "error"}

Init ==
  /\ db = 1 /\ raw \in BOOLEAN
  /\ server = 1
  /\ redis = Nobody /\ mysql = Nobody
  /\ mem = [i \in Instances |-> 0]
  /\ pc = [i \in Instances |-> "idle"]
  /\ got = [i \in Instances |-> 0]
  /\ out = [i \in Instances |-> "ok"]
  /\ caller = [c \in Callers |-> "idle"]
  /\ seen = [c \in Callers |-> 0]
  /\ faults = {}

-----------------------------------------------------------------------------
Fault(kind) ==
  faults' = faults \cup {kind} /\ Cardinality(faults' \cap FaultKinds) <= MaxFaults
Surprise(kind, happens) == faults' = IF happens THEN faults \cup {kind} ELSE faults
Remember(i, t) == mem' = [mem EXCEPT ![i] = t]
Goto(i, from, to) == pc[i] = from /\ pc' = [pc EXCEPT ![i] = to]

\* The refresh of i is over with result o; its lock is still to be released.
Conclude(i, from, o) ==
  /\ Goto(i, from, "releasing")
  /\ got' = [got EXCEPT ![i] = 0] /\ out' = [out EXCEPT ![i] = o]

\* What reading the row gives: the stored token or, when the query fails (the
\* error is swallowed), the one in memory.
Reads(i, t) ==
  \/ t = db /\ UNCHANGED faults
  \/ t = mem[i] /\ Fault("read")

\* loadCredentials: a row that lacks normalised fields is written back later.
Load(i) ==
  /\ mem[i] = 0
  /\ Goto(i, "idle", IF raw THEN "normalising" ELSE "idle")
  /\ IF raw THEN got' = [got EXCEPT ![i] = db] /\ UNCHANGED mem
            ELSE Remember(i, db) /\ UNCHANGED got
  /\ UNCHANGED <<store, server, locks, out, callers, faults>>

\* ... under the lock oauth-credentials:<id>, which no refresh takes.
Normalise(i) ==
  /\ Goto(i, "normalising", "idle")
  /\ db' = got[i] /\ raw' = FALSE
  /\ Remember(i, got[i]) /\ got' = [got EXCEPT ![i] = 0]
  /\ Surprise("overwrite", db # got[i])
  /\ UNCHANGED <<server, locks, out, callers>>

-----------------------------------------------------------------------------
(* A call finds its token near expiry, or upstream answers 401 or 403.     *)

Running(i) == pc[i] \notin {"idle", "merged", "normalising"}
Siblings(i) == {j \in Instances : ProcOf[j] = ProcOf[i]}

\* Mutant of Dedupe: every instance refreshes on its own.
DedupeOff(i) == "locking"

\* withDeduplication: join the refresh of another instance of the process.
Dedupe(i) == IF \E j \in Siblings(i) : Running(j) THEN "merged" ELSE "locking"

Call(c) ==
  LET i == InstOf[c] IN
  /\ caller[c] = "idle" /\ mem[i] # 0
  /\ \/ /\ Goto(i, "idle", Dedupe(i))
        /\ caller' = [caller EXCEPT ![c] = "owner"]
     \/ /\ pc[i] # "idle" /\ UNCHANGED pc
        /\ caller' = [caller EXCEPT ![c] = "joined"]
  /\ UNCHANGED <<store, server, locks, mem, got, out, seen, faults>>

\* Mutant of AcquireRedis: SET without NX.
AcquireAnyway(i) ==
  /\ redis' = i /\ Goto(i, "locking", "locked")
  /\ got' = [got EXCEPT ![i] = mem[i]]
  /\ UNCHANGED <<store, server, mysql, mem, out, callers, faults>>

\* With the lock refreshOperation begins: it keeps the token it knows.
Begin(i) == Goto(i, "locking", "locked") /\ got' = [got EXCEPT ![i] = mem[i]] /\ UNCHANGED out

\* tryAcquireRedisLock: SET NX PX, polled for 200 ms; a failed SET counts as
\* busy although the server may have executed it.
AcquireRedis(i) ==
  /\ \/ redis = Nobody /\ redis' = i /\ Begin(i) /\ UNCHANGED faults
     \/ redis # Nobody /\ Conclude(i, "locking", "busy") /\ UNCHANGED <<redis, faults>>
     \/ /\ redis' \in {redis, IF redis = Nobody THEN Orphan ELSE redis}
        /\ Conclude(i, "locking", "busy") /\ Fault("redis")
  /\ UNCHANGED <<store, server, mysql, mem, callers>>

\* isRedisAvailable says no: GET_LOCK with no wait.
AcquireMysql(i) ==
  /\ Fault("redis")
  /\ \/ mysql = Nobody /\ mysql' = i /\ Begin(i)
     \/ mysql # Nobody /\ Conclude(i, "locking", "busy") /\ UNCHANGED mysql
  /\ UNCHANGED <<store, server, redis, mem, callers>>

\* Mutant of Reload: the credentials in memory are saved instead of the row loaded.
SaveInstead(i) ==
  /\ db' = mem[i] /\ Goto(i, "locked", "posting")
  /\ UNCHANGED <<raw, server, locks, mem, got, out, callers, faults>>

\* Rotated by another process, or still valid: nothing to refresh.  A token that is
\* near its expiry, or whose refresh is forced, is posted: any but the last.
Reload(i) == \E t \in {db, mem[i]} :
  /\ Reads(i, t) /\ Remember(i, t)
  /\ \/ Conclude(i, "locked", "ok")
     \/ t = got[i] /\ t < MaxToken /\ Goto(i, "locked", "posting") /\ UNCHANGED <<got, out>>
  /\ UNCHANGED <<store, server, locks, callers>>

-----------------------------------------------------------------------------
(* The token request.                                                      *)

Rotate(i) ==
  /\ got[i] = server
  /\ server' = server + 1
  /\ got' = [got EXCEPT ![i] = server + 1]
  /\ Goto(i, "posting", "writing")
  /\ UNCHANGED <<store, locks, mem, out, callers, faults>>

\* The request or its answer is lost: the server may have rotated the token.
PostFails(i) ==
  /\ Conclude(i, "posting", "error") /\ Fault("answer")
  /\ server' \in {server, IF got[i] = server THEN server + 1 ELSE server}
  /\ UNCHANGED <<store, locks, mem, callers>>

Refuse(i) ==
  /\ got[i] # server /\ Goto(i, "posting", "reused")
  /\ got' = [got EXCEPT ![i] = mem[i]]
  /\ UNCHANGED <<store, server, locks, mem, out, callers, faults>>

\* refresh_token_reused: look again; the same token means CODEX_REFRESH_TOKEN_DEAD.
RefreshTokenReused(i) == \E t \in {db, mem[i]} :
  /\ Reads(i, t) /\ Remember(i, t)
  /\ Conclude(i, "reused", IF t # got[i] THEN "ok" ELSE "dead")
  /\ UNCHANGED <<store, server, locks, callers>>

\* Mutant of Write: the answer is kept in memory only.
WriteMemoryOnly(i) ==
  /\ Remember(i, got[i]) /\ Conclude(i, "writing", "ok") /\ mysql = Nobody
  /\ UNCHANGED <<store, server, locks, callers, faults>>

\* updateCredentialsById, under the MySQL lock codex-refresh:<id> in any mode.
Write(i) ==
  /\ mysql = Nobody
  /\ db' = got[i] /\ raw' = FALSE
  /\ Remember(i, got[i]) /\ Conclude(i, "writing", "ok")
  /\ UNCHANGED <<server, locks, callers, faults>>

\* The 10 s wait for that lock expires: in MySQL mode the caller holds it itself.
WriteTimesOut(i) ==
  /\ mysql # Nobody
  /\ Conclude(i, "writing", IF mysql = i THEN "busy" ELSE "error")
  /\ UNCHANGED <<store, server, locks, mem, callers, faults>>

WriteFails(i) ==
  /\ Conclude(i, "writing", "error") /\ Fault("write")
  /\ UNCHANGED <<store, server, locks, mem, callers>>

-----------------------------------------------------------------------------
(* The end: release the lock (if it is still ours), answer those who wait. *)

\* Mutants of Released: the connection goes back to its pool without RELEASE_LOCK.
ReleaseForgotten(lock, i) == IF lock = i THEN Orphan ELSE lock
\* ... or the release is not in a finally.
ReleaseOnSuccess(lock, i) == IF lock = i /\ out[i] = "ok" THEN Nobody ELSE lock

Released(lock, i) == IF lock = i THEN Nobody ELSE lock

\* Mutant of Answered: the calls of a merged instance are forgotten.
AnsweredOwn(i, c) == InstOf[c] = i

Answered(i, c) == InstOf[c] = i \/ (pc[InstOf[c]] = "merged" /\ InstOf[c] \in Siblings(i))

Finish(i) ==
  /\ pc[i] = "releasing"
  /\ \/ redis' = Released(redis, i) /\ UNCHANGED faults
     \/ redis = i /\ redis' = Orphan /\ Fault("redis")
  /\ mysql' = Released(mysql, i)
  /\ pc' = [j \in Instances |->
              IF j = i \/ (j \in Siblings(i) /\ pc[j] = "merged") THEN "idle" ELSE pc[j]]
  /\ caller' = [c \in Callers |->
       CASE ~Answered(i, c) \/ caller[c] \notin {"owner", "joined"} -> caller[c]
         [] caller[c] = "joined" /\ out[i] = "ok" -> "reloading"
         [] OTHER -> out[i]]
  /\ out' = [out EXCEPT ![i] = "ok"]
  /\ UNCHANGED <<store, server, mem, got, seen>>

\* A caller that had joined reads the row, and later takes over what it read.
JoinedReads(c) ==
  /\ caller[c] = "reloading"
  /\ caller' = [caller EXCEPT ![c] = "reading"]
  /\ seen' = [seen EXCEPT ![c] = db]
  /\ UNCHANGED <<store, server, locks, instance, faults>>

JoinedEnds(c) ==
  /\ caller[c] = "reading"
  /\ caller' = [caller EXCEPT ![c] = "ok"]
  /\ \/ Remember(InstOf[c], seen[c]) /\ Surprise("late", seen[c] # db)
     \/ UNCHANGED mem /\ Fault("read")
  /\ seen' = [seen EXCEPT ![c] = 0]
  /\ UNCHANGED <<store, server, locks, pc, got, out>>

-----------------------------------------------------------------------------
(* Time and faults.                                                        *)

\* CODEX_REFRESH_REDIS_TTL_MS passes; a fault only if the holder still works.
Lapse ==
  /\ redis # Nobody /\ redis' = Nobody
  /\ IF redis = Orphan THEN UNCHANGED faults ELSE Fault("lapse")
  /\ UNCHANGED <<store, server, mysql, instance, callers>>

\* A worker dies: Redis keeps its lock, MySQL frees it with the connection.
Crash(p) ==
  LET Mine == {i \in Instances : ProcOf[i] = p}
      Reset(f, v) == [i \in Instances |-> IF i \in Mine THEN v ELSE f[i]] IN
  /\ Fault("crash")
  /\ redis' = IF redis \in Mine THEN Orphan ELSE redis
  /\ mysql' = IF mysql \in Mine THEN Nobody ELSE mysql
  /\ mem' = Reset(mem, 0) /\ pc' = Reset(pc, "idle") /\ got' = Reset(got, 0)
  /\ out' = Reset(out, "ok")
  /\ caller' = [c \in Callers |-> IF InstOf[c] \in Mine /\ caller[c] # "idle"
                                   THEN "error" ELSE caller[c]]
  /\ UNCHANGED <<store, server, seen>>

Progress(i) ==
  \/ Normalise(i) \/ AcquireRedis(i) \/ AcquireMysql(i) \/ Reload(i)
  \/ Rotate(i) \/ Refuse(i) \/ RefreshTokenReused(i)
  \/ Write(i) \/ WriteTimesOut(i) \/ Finish(i)

Next ==
  \/ \E i \in Instances : Load(i) \/ Progress(i) \/ PostFails(i) \/ WriteFails(i)
  \/ \E c \in Callers : Call(c) \/ JoinedReads(c) \/ JoinedEnds(c)
  \/ Lapse \/ \E p \in Procs : Crash(p)

Spec == Init /\ [][Next]_vars

\* Awaited answers and timers come; no call waits for a lock to lapse.
FairSpec ==
  /\ Spec
  /\ \A i \in Instances : WF_vars(Progress(i))
  /\ \A c \in Callers : WF_vars(JoinedReads(c)) /\ WF_vars(JoinedEnds(c))

-----------------------------------------------------------------------------
(* Properties                                                              *)

TypeOK ==
  /\ db \in Nat /\ raw \in BOOLEAN /\ server \in Nat
  /\ redis \in Instances \cup {Nobody, Orphan} /\ mysql \in Instances \cup {Nobody}
  /\ mem \in [Instances -> Nat] /\ got \in [Instances -> Nat]
  /\ pc \in [Instances -> {"idle", "normalising", "merged", "locking", "locked",
                           "posting", "reused", "writing", "releasing"}]
  /\ out \in [Instances -> Ended \ {"idle"}]
  /\ caller \in [Callers -> Ended \cup {"owner", "joined", "reloading", "reading"}]
  /\ seen \in [Callers -> Nat]
  /\ faults \subseteq FaultKinds \cup Surprises

Working == {"locked", "posting", "reused", "writing"}

\* Whatever lapses or fails, the instances of one process never refresh at the
\* same time (withDeduplication).
OneRefreshPerProcess ==
  \A i, j \in Instances :
    i # j /\ ProcOf[i] = ProcOf[j] => ~(Running(i) /\ Running(j))

\* Two processes refresh the account at once only after a lock lapsed under its
\* holder, or with Redis out of reach for one of them (the locks of tryAcquireRedisLock).
OneRefreshUnlessLockLost ==
  (\E i, j \in Instances : i # j /\ pc[i] \in Working /\ pc[j] \in Working)
    => faults \cap {"lapse", "redis"} # {}

\* The newest token is neither stored nor in the hands of a refresh that will store it.
Lost == db # server /\ \A i \in Instances : ~(pc[i] = "writing" /\ got[i] = server)

\* Neither a lock that lapses under a slow refresh nor a failed read loses the
\* newest token: it takes a lost answer, a failed write, a crash, the fallback
\* to MySQL, or loadCredentials writing back what it read before a rotation.
NewestTokenKept ==
  Lost => faults \cap {"answer", "write", "crash", "redis", "overwrite"} # {}

\* CODEX_REFRESH_TOKEN_DEAD, on which the account is deleted, is declared of a
\* token that is not lost only when a lock lapsed, Redis or a read failed, or a
\* caller took over an outdated row.
DeclaresDead(i) == pc[i] = "reused" /\ pc'[i] = "releasing" /\ out'[i] = "dead"
DeadOnlyWhenLost ==
  [][\A i \in Instances : DeclaresDead(i) =>
       Lost \/ faults' \cap {"lapse", "redis", "read", "late"} # {}]_vars

\* No refresh, however late its write, takes the stored token back to an older
\* one; only loadCredentials can.
StoreNeverGoesBack ==
  [][db' >= db \/ \E i \in Instances : pc[i] = "normalising" /\ pc'[i] = "idle"]_vars

\* Every call that waits for a refresh, its own or another's, is answered
\* (there are finitely many calls, each made once).
EveryCallEnds == []<>(\A c \in Callers : caller[c] \in Ended)

\* What EveryCallEnds rests on: a waiting call is in the hands of a refresh that
\* runs, its instance's own or the one its instance was merged with; no end of
\* a refresh, failure or crash leaves it waiting on nothing (withDeduplication,
\* refreshInFlight).
CallsInHand ==
  \A c \in Callers : caller[c] \in {"owner", "joined"} =>
    LET i == InstOf[c] IN
    Running(i) \/ (pc[i] = "merged" /\ \E j \in Siblings(i) : Running(j))

\* A lock is held by an instance that works under it or is about to release it;
\* what a failed release or a dead process leaves in Redis has no owner and
\* lapses (releaseRedisLock, withDbLock).
NoLockLeftBehind ==
  \A i \in Instances : i \in {redis, mysql} => pc[i] \in Working \cup {"releasing"}

\* The comment on the fallback: "Redis 不可用时，DB 锁降级为短等待（最多 1s）".  So
\* no refresh under the MySQL lock waits the 10 s of updateCredentialsById out.
FallbackWaitsShortly ==
  [][\A i \in Instances : pc[i] = "writing" /\ mysql = i => out'[i] # "busy"]_vars

\* The comment on the verdict: the same token in the database means "token 已被
\* 消费但新 token 未持久化，credential 不可用".
DeadMeansLost == [][\A i \in Instances : DeclaresDead(i) => Lost]_vars

=============================================================================
