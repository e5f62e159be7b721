----------------------------- MODULE SharedSlots -----------------------------
(***************************************************************************)
(* One concurrency counter of the limiter in Redis mode: the key of an     *)
(* account (or of a user: both follow the same protocol), shared by the    *)
(* worker processes.  incrementXConcurrency is INCR then EXPIRE,           *)
(* decrementXConcurrency is DECR then, at zero or below, DEL; each command *)
(* is a step of its own.  A worker whose connection is down, or whose      *)
(* command fails, counts in its own memory instead.  Keys lapse with their *)
(* TTL; workers crash and lose their requests; the master restarts the     *)
(* whole cluster and resets the runtime keys.                              *)
(***************************************************************************)
EXTENDS Integers, FiniteSets

CONSTANTS
  Workers,         \* worker processes
  Requests,        \* connections: each carries one request after another
  WorkerOf,        \* the worker that serves each request
  Max,             \* accountMaxConcurrency
  Ttl,             \* CONCURRENCY_TTL, in ticks
  MaxFaults,       \* bound on crashes and lost connections
  MaxRestarts,     \* bound on restarts of the cluster
  KeyPrefix        \* REDIS_KEY_PREFIX || 'accounthub:', put before every key

NoTtl == -1   \* ttl of a key that never expires
Absent == 0   \* ttl of a key that does not exist

ASSUME SharedAssumption ==
  /\ IsFiniteSet(Requests)
  /\ WorkerOf \in [Requests -> Workers]
  /\ Max \in Nat \ {0} /\ Ttl \in Nat \ {0}
  /\ MaxFaults \in Nat /\ MaxRestarts \in Nat

VARIABLES
  count,     \* value of the key, 0 when absent
  ttl,       \* its ticks to live, NoTtl or Absent
  memory,    \* the fallback counter of each worker
  connected, \* isConnected of each worker's Redis client
  pc,        \* where each request is
  faults, restarts, \* how many so far
  torn       \* how many of them struck between an INCR and its EXPIRE

key == <<count, ttl>>
present == ttl # Absent
disruptions == <<faults, restarts, torn>>
vars == <<key, memory, connected, pc, disruptions>>

Init ==
  /\ count = 0 /\ ttl = Absent
  /\ memory = [w \in Workers |-> 0]
  /\ connected = [w \in Workers |-> TRUE]
  /\ pc = [r \in Requests |-> "idle"]
  /\ faults = 0 /\ restarts = 0 /\ torn = 0

-----------------------------------------------------------------------------
(* Redis commands (a missing key counts as 0, a new key has no TTL).       *)

SetCount(c) == count' = c /\ ttl' = IF present THEN ttl ELSE NoTtl
INCR == SetCount(count + 1)
DECR == SetCount(count - 1)
DEL == count' = 0 /\ ttl' = Absent

EXPIRE == ttl' = (IF present THEN Ttl ELSE Absent) /\ UNCHANGED count

-----------------------------------------------------------------------------
(* A request of worker WorkerOf[r].                                        *)

Up(r) == connected[WorkerOf[r]]
Goto(r, from, to) == pc[r] = from /\ pc' = [pc EXCEPT ![r] = to]
CountInMemory(r) == memory' = [memory EXCEPT ![WorkerOf[r]] = @ + 1]

\* Mutant of UncountInMemory: no Math.max(0, ...).
UncountUnfloored(r) == memory' = [memory EXCEPT ![WorkerOf[r]] = @ - 1]

UncountInMemory(r) == memory' = [memory EXCEPT ![WorkerOf[r]] = IF @ > 0 THEN @ - 1 ELSE 0]

\* getAccountConcurrency, as selectProvider and the handler read it.
Concurrency(w) == IF connected[w] THEN count ELSE memory[w]

Admit(r) ==
  /\ Goto(r, "idle", "charging")
  /\ Concurrency(WorkerOf[r]) < Max
  /\ UNCHANGED <<key, memory, connected, disruptions>>

Increment(r) ==
  /\ Goto(r, "charging", IF Up(r) THEN "expiring" ELSE "serving")
  /\ IF Up(r) THEN INCR /\ UNCHANGED memory ELSE CountInMemory(r) /\ UNCHANGED key
  /\ UNCHANGED <<connected, disruptions>>

\* Mutants of SetExpiry: the EXPIRE is forgotten; the INCR is sent again with it.
NoExpiry(r) ==
  /\ Goto(r, "expiring", "serving")
  /\ UNCHANGED <<key, memory, connected, disruptions>>
IncrementAgain(r) ==
  /\ Goto(r, "expiring", "serving")
  /\ INCR /\ UNCHANGED <<memory, connected, disruptions>>

\* A failed EXPIRE throws after the INCR: the request is counted in memory too.
SetExpiry(r) ==
  /\ Goto(r, "expiring", "serving")
  /\ IF Up(r) THEN EXPIRE /\ UNCHANGED memory ELSE CountInMemory(r) /\ UNCHANGED key
  /\ UNCHANGED <<connected, disruptions>>

\* Mutant of Decrement: DEL at zero is forgotten.
DecrementOnly(r) ==
  /\ Goto(r, "serving", "idle")
  /\ IF Up(r) THEN DECR /\ UNCHANGED memory ELSE UncountInMemory(r) /\ UNCHANGED key
  /\ UNCHANGED <<connected, disruptions>>

Decrement(r) ==
  /\ Goto(r, "serving", IF Up(r) /\ count - 1 <= 0 THEN "deleting" ELSE "idle")
  /\ IF Up(r) THEN DECR /\ UNCHANGED memory ELSE UncountInMemory(r) /\ UNCHANGED key
  /\ UNCHANGED <<connected, disruptions>>

\* A failed DEL throws after the DECR: memory is decremented too.
Delete(r) ==
  /\ Goto(r, "deleting", "idle")
  /\ IF Up(r) THEN DEL /\ UNCHANGED memory ELSE UncountInMemory(r) /\ UNCHANGED key
  /\ UNCHANGED <<connected, disruptions>>

-----------------------------------------------------------------------------
(* Time and faults.                                                        *)

\* A key whose TTL runs out is gone.
Tick ==
  /\ present /\ ttl # NoTtl
  /\ IF ttl > 1 THEN ttl' = ttl - 1 /\ UNCHANGED count ELSE DEL
  /\ UNCHANGED <<memory, connected, pc, disruptions>>

MidCharge(w) == \E r \in Requests : WorkerOf[r] = w /\ pc[r] = "expiring"
Tears(ws) == torn' = IF \E w \in ws : MidCharge(w) THEN torn + 1 ELSE torn
Fault(w) == faults < MaxFaults /\ faults' = faults + 1 /\ Tears({w})

\* The worker dies with its requests and its memory; the master forks another.
Crash(w) ==
  /\ Fault(w)
  /\ pc' = [r \in Requests |-> IF WorkerOf[r] = w THEN "idle" ELSE pc[r]]
  /\ memory' = [memory EXCEPT ![w] = 0]
  /\ connected' = [connected EXCEPT ![w] = TRUE]
  /\ UNCHANGED <<key, restarts>>

Disconnect(w) ==
  /\ Fault(w)
  /\ connected[w] /\ connected' = [connected EXCEPT ![w] = FALSE]
  /\ UNCHANGED <<key, memory, pc, restarts>>

\* ioredis retries a few times; after that the worker stays in memory mode.
Reconnect(w) ==
  /\ ~connected[w] /\ connected' = [connected EXCEPT ![w] = TRUE]
  /\ UNCHANGED <<key, memory, pc, disruptions>>

\* SCAN MATCH 'concurrency:account:*' is compared with the whole stored name, to
\* which the client has put KeyPrefix; the prefix is not put before the pattern.
ScanMatches == KeyPrefix = ""

\* The master starts again: it resets the runtime keys, then forks the workers.
RestartCluster ==
  /\ restarts < MaxRestarts /\ restarts' = restarts + 1
  /\ Tears(Workers)
  /\ IF ScanMatches THEN DEL ELSE UNCHANGED key
  /\ memory' = [w \in Workers |-> 0]
  /\ connected' = [w \in Workers |-> TRUE]
  /\ pc' = [r \in Requests |-> "idle"]
  /\ UNCHANGED faults

-----------------------------------------------------------------------------
Work(r) == Increment(r) \/ SetExpiry(r) \/ Decrement(r) \/ Delete(r)

Next ==
  \/ \E r \in Requests : Admit(r) \/ Work(r)
  \/ \E w \in Workers : Crash(w) \/ Disconnect(w) \/ Reconnect(w)
  \/ Tick \/ RestartCluster

Spec == Init /\ [][Next]_vars

\* Admitted requests proceed and time passes; nothing forces a request to come,
\* a worker to fail or a connection to return.
Fairness == WF_vars(Tick) /\ \A r \in Requests : WF_vars(Work(r))
FairSpec == Spec /\ Fairness

-----------------------------------------------------------------------------
(* Properties.                                                             *)

States == {"idle", "charging", "expiring", "serving", "deleting"}

\* The key, when absent, has no value; the fallback counters are naturals.
TypeOK ==
  /\ count \in Int /\ ttl \in (0..Ttl) \cup {NoTtl}
  /\ ~present => count = 0
  /\ memory \in [Workers -> Nat] /\ connected \in [Workers -> BOOLEAN]
  /\ pc \in [Requests -> States]
  /\ faults \in 0..MaxFaults /\ restarts \in 0..MaxRestarts /\ torn \in 0..(faults + restarts)

Charged == {r \in Requests : pc[r] \in {"expiring", "serving"}}

Undisturbed == faults = 0 /\ restarts = 0

\* As long as nothing has failed, the shared counter never shows more than the requests in
\* flight, whatever the races of INCR with DEL and the expiry under long
\* requests: the limiter may let too many through, it never blocks an account
\* for slots nobody holds (incrementAccountConcurrency, decrementAccountConcurrency).
NeverOvercounts == Undisturbed => count <= Cardinality(Charged)

\* As long as nothing has failed, when no request is in flight the key is gone: the last DECR
\* always reaches zero or below and its DEL follows.
KeyGoneWhenIdle ==
  Undisturbed =>
    ((\A r \in Requests : pc[r] \in {"idle", "charging"}) => ~present)

\* What that rests on, whatever fails and however often keys lapse and return: unless
\* a fault struck between INCR and EXPIRE, a key that does not expire counts no
\* more than requests about to set its TTL (incrementAccountConcurrency).
Expiring == {r \in Requests : pc[r] = "expiring"}
ExpiryInHand == ttl = NoTtl /\ torn = 0 => count <= Cardinality(Expiring)

\* A full account comes back: its counter falls below the limit again, by the
\* requests ending or by the TTL taking what crashes, lost connections and restarts
\* left behind (concurrency-limiter.js:22) - unless one of them struck between INCR
\* and EXPIRE: that key has no TTL, and nobody charges a full account again.
FullAccountComesBack == (count >= Max) ~> (count < Max \/ torn > 0)

\* master.js:271, the counts "start from 0 after a restart".
CountsStartAtZero == [][restarts' # restarts => count' = 0]_vars
=============================================================================
