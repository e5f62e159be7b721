---------------------------- MODULE RequestSlots ----------------------------
(***************************************************************************)
(* The concurrency slots of one gateway process, in the limiter's          *)
(* in-memory mode (no Redis): what handleContentGenerationRequest does     *)
(* around the upstream call, with the operations of ConcurrencyLimiter it  *)
(* awaits.  A request picks an account whose counter is below the limit,   *)
(* passes the check of its user's, waits for the account's queue lock,     *)
(* charges both counters, registers itself in requestTracking, calls the   *)
(* upstream (perhaps switching credential), and gives everything back      *)
(* through the entry it finds under its request id.                        *)
(*                                                                         *)
(* Every await is a step of its own, so other requests may run between any *)
(* two of them.  The periodic clean-up is a timer callback: it never runs  *)
(* inside a chain of awaits that are resolved already (see Settled).       *)
(* Time is not modelled: leases lapse and requests become stale when they  *)
(* may, MaxAttempts bounds the polls that fit in waitTimeoutMs.            *)
(* Peaks, recent users and traces are monitoring data and are left out.    *)
(***************************************************************************)
EXTENDS Naturals, FiniteSets

CONSTANTS
  Requests,          \* the requests that ever arrive
  Users,             \* user keys: a token id, or an IP address
  Accounts,          \* uuids of the accounts of the pool
  UserOf,            \* the user key of each request
  RequestId,         \* the trace id of each request: a client may send its own
  MaxUser,           \* userMaxConcurrency
  MaxAccount,        \* accountMaxConcurrency
  QueueLockEnabled,  \* ACCOUNT_QUEUE_LOCK_ENABLED
  MaxAttempts,       \* polls of the queue lock that fit in waitTimeoutMs
  MaxSwitches,       \* CREDENTIAL_SWITCH_MAX_RETRIES
  LeaseMayLapse,     \* some request outlives lockTtlMs
  MayOutliveCleanup, \* some request outlives the 30-minute clean-up threshold
  None               \* no entry in a map, no account

TraceIds == {RequestId[r] : r \in Requests}

\* What requestTracking holds for a request, and accountQueueLocks for an account.
Entry == [user : Users, account : Accounts, token : Requests \cup {None}]
Lease == [token : Requests, live : BOOLEAN]

ASSUME SlotAssumption ==
  /\ IsFiniteSet(Requests)
  /\ UserOf \in [Requests -> Users]
  /\ RequestId \in [Requests -> TraceIds]
  /\ MaxUser \in Nat \ {0} /\ MaxAccount \in Nat \ {0}
  /\ MaxAttempts \in Nat \ {0} /\ MaxSwitches \in Nat
  /\ QueueLockEnabled \in BOOLEAN /\ LeaseMayLapse \in BOOLEAN
  /\ MayOutliveCleanup \in BOOLEAN
  /\ None \notin Requests \cup Accounts \cup Entry \cup Lease

\* Trace ids are unique when the server generates them; the theorems about the
\* slots assume it, since a client that sends its own can break it.
UniqueIds == \A r, s \in Requests : RequestId[r] = RequestId[s] => r = s

VARIABLES
  userConcurrency,        \* Map<userKey, count>
  accountConcurrency,     \* Map<accountUuid, count>
  accountUserConcurrency, \* Map<accountUuid, Map<userKey, count>>
  requestTracking,        \* Map<requestId, entry>
  accountQueueLocks,      \* Map<accountUuid, lease>
  pc,                     \* where each request is in the handler
  actualUuid,             \* the account each request was charged to
  upstream,               \* the account whose credential is in use now
  switches,               \* retryContext.currentRetry
  attempts,               \* polls of the queue lock so far
  tracking                \* local of releaseSlots: the entry it read

counters == <<userConcurrency, accountConcurrency, accountUserConcurrency>>
locals == <<actualUuid, upstream, switches, attempts, tracking>>
vars == <<counters, requestTracking, accountQueueLocks, pc, locals>>

Init ==
  /\ userConcurrency = [u \in Users |-> 0]
  /\ accountConcurrency = [a \in Accounts |-> 0]
  /\ accountUserConcurrency = [a \in Accounts |-> [u \in Users |-> 0]]
  /\ requestTracking = [i \in TraceIds |-> None]
  /\ accountQueueLocks = [a \in Accounts |-> None]
  /\ pc = [r \in Requests |-> "selecting"]
  /\ actualUuid = [r \in Requests |-> None]
  /\ upstream = [r \in Requests |-> None]
  /\ switches = [r \in Requests |-> 0]
  /\ attempts = [r \in Requests |-> 0]
  /\ tracking = [r \in Requests |-> None]

Goto(r, from, to) == pc[r] = from /\ pc' = [pc EXCEPT ![r] = to]

-----------------------------------------------------------------------------
(* Admission: account selection, user check, queue lock.                   *)

Available(a) == accountConcurrency[a] < MaxAccount

\* selectProvider hands out an account that was below its limit when read.
SelectAccount(r) ==
  /\ Goto(r, "selecting", "checking")
  /\ \E a \in Accounts :
       /\ Available(a)
       /\ actualUuid' = [actualUuid EXCEPT ![r] = a]
       /\ upstream' = [upstream EXCEPT ![r] = a]
  /\ UNCHANGED <<counters, requestTracking, accountQueueLocks, switches, attempts, tracking>>

RejectNoAccount(r) ==
  /\ Goto(r, "selecting", "rejected")
  /\ \A a \in Accounts : ~Available(a)
  /\ UNCHANGED <<counters, requestTracking, accountQueueLocks, locals>>

\* The user limit the handler sees: it looks for result.poolConcurrencyConfig,
\* but getApiServiceWithFallback merges the pool's limits into serviceConfig and
\* returns no such field, so no limit is ever found.
UserLimitSeen == None

AtUserLimit(r) == UserLimitSeen # None /\ userConcurrency[UserOf[r]] >= UserLimitSeen

\* Mutant of CheckUserLimit: the queue lock is skipped.
CheckUserLimitOnly(r) ==
  /\ Goto(r, "checking", IF AtUserLimit(r) THEN "rejected" ELSE "charging")
  /\ UNCHANGED <<counters, requestTracking, accountQueueLocks, locals>>

\* Where the user's counter would be read; it is incremented only in ChargeUser.
CheckUserLimit(r) ==
  /\ Goto(r, "checking",
          IF AtUserLimit(r) THEN "rejected"
          ELSE IF QueueLockEnabled THEN "queueing" ELSE "charging")
  /\ UNCHANGED <<counters, requestTracking, accountQueueLocks, locals>>

LockFree(a, r) ==
  LET current == accountQueueLocks[a]
  IN  current # None /\ current.live => current.token = r

TryLock(r) ==
  LET a == actualUuid[r] IN
  /\ Goto(r, "queueing", "charging")
  /\ LockFree(a, r)
  /\ accountQueueLocks' = [accountQueueLocks EXCEPT ![a] = [token |-> r, live |-> TRUE]]
  /\ UNCHANGED <<counters, requestTracking, locals>>

LockBusy(r) ==
  /\ Goto(r, "queueing", "polling")
  /\ ~LockFree(actualUuid[r], r)
  /\ attempts' = [attempts EXCEPT ![r] = @ + 1]
  /\ UNCHANGED <<counters, requestTracking, accountQueueLocks, actualUuid, upstream, switches, tracking>>

PollAgain(r) ==
  /\ attempts[r] < MaxAttempts
  /\ Goto(r, "polling", "queueing")
  /\ UNCHANGED <<counters, requestTracking, accountQueueLocks, locals>>

\* Mutant of QueueTimeout: the request goes on without the lock.
QueueTimeoutIgnored(r) ==
  /\ Goto(r, "polling", "charging")
  /\ UNCHANGED <<counters, requestTracking, accountQueueLocks, locals>>

\* The wait limit can be over after any failed attempt: polls are not punctual.
QueueTimeout(r) ==
  /\ Goto(r, "polling", "rejected")
  /\ UNCHANGED <<counters, requestTracking, accountQueueLocks, locals>>

-----------------------------------------------------------------------------
(* Charging the counters and the upstream call.                            *)

ChargeUser(r) ==
  /\ Goto(r, "charging", "chargingAccount")
  /\ userConcurrency' = [userConcurrency EXCEPT ![UserOf[r]] = @ + 1]
  /\ UNCHANGED <<accountConcurrency, accountUserConcurrency, requestTracking, accountQueueLocks, locals>>

ChargeAccount(r) ==
  /\ Goto(r, "chargingAccount", "tracking")
  /\ accountConcurrency' = [accountConcurrency EXCEPT ![actualUuid[r]] = @ + 1]
  /\ UNCHANGED <<userConcurrency, accountUserConcurrency, requestTracking, accountQueueLocks, locals>>

\* An entry already under this id (another request's) is overwritten.
StartTracking(r) ==
  /\ Goto(r, "tracking", "serving")
  /\ requestTracking' = [requestTracking EXCEPT ![RequestId[r]] =
       [user |-> UserOf[r], account |-> actualUuid[r],
        token |-> IF QueueLockEnabled THEN r ELSE None]]
  /\ accountUserConcurrency' =
       [accountUserConcurrency EXCEPT ![actualUuid[r]][UserOf[r]] = @ + 1]
  /\ UNCHANGED <<userConcurrency, accountConcurrency, accountQueueLocks, locals>>

\* The upstream call failed: retry on an account other than the last one.
\* Counters, lock and tracking entry stay with the first account.
SwitchCredential(r) ==
  /\ pc[r] = "serving" /\ switches[r] < MaxSwitches
  /\ \E a \in Accounts \ {upstream[r]} :
       Available(a) /\ upstream' = [upstream EXCEPT ![r] = a]
  /\ switches' = [switches EXCEPT ![r] = @ + 1]
  /\ UNCHANGED <<counters, requestTracking, accountQueueLocks, pc, actualUuid, attempts, tracking>>

\* The handler returned or threw: both paths call releaseSlots.
Finish(r) ==
  /\ Goto(r, "serving", "releasing")
  /\ UNCHANGED <<counters, requestTracking, accountQueueLocks, locals>>

-----------------------------------------------------------------------------
(* releaseSlots: everything is given back as the tracking entry says.      *)

\* Mutant of Decrement: released twice, and not floored at zero.
DecrementTwice(c) == c - 2

Decrement(c) == IF c > 0 THEN c - 1 ELSE 0

ReadTracking(r) ==
  LET entry == requestTracking[RequestId[r]] IN
  /\ Goto(r, "releasing", IF entry = None THEN "done" ELSE "releaseUser")
  /\ tracking' = [tracking EXCEPT ![r] = entry]
  /\ UNCHANGED <<counters, requestTracking, accountQueueLocks, actualUuid, upstream, switches, attempts>>

ReleaseUser(r) ==
  /\ Goto(r, "releaseUser", "releaseAccount")
  /\ userConcurrency' = [userConcurrency EXCEPT ![tracking[r].user] = Decrement(@)]
  /\ UNCHANGED <<accountConcurrency, accountUserConcurrency, requestTracking, accountQueueLocks, locals>>

ReleaseAccount(r) ==
  /\ Goto(r, "releaseAccount", "releaseAccountUser")
  /\ accountConcurrency' = [accountConcurrency EXCEPT ![tracking[r].account] = Decrement(@)]
  /\ UNCHANGED <<userConcurrency, accountUserConcurrency, requestTracking, accountQueueLocks, locals>>

ReleaseAccountUser(r) ==
  /\ Goto(r, "releaseAccountUser", IF tracking[r].token = None THEN "untracking" ELSE "releaseLock")
  /\ accountUserConcurrency' =
       [accountUserConcurrency EXCEPT ![tracking[r].account][tracking[r].user] = Decrement(@)]
  /\ UNCHANGED <<userConcurrency, accountConcurrency, requestTracking, accountQueueLocks, locals>>

\* Mutant of ReleaseQueueLock: deletes without comparing the token.
ReleaseAnyQueueLock(r) ==
  /\ Goto(r, "releaseLock", "untracking")
  /\ accountQueueLocks' = [accountQueueLocks EXCEPT ![tracking[r].account] = None]
  /\ UNCHANGED <<counters, requestTracking, locals>>

\* releaseAccountQueueLock deletes the lease only if the token is still its own.
ReleaseQueueLock(r) ==
  LET a == tracking[r].account IN
  /\ Goto(r, "releaseLock", "untracking")
  /\ accountQueueLocks' =
       IF accountQueueLocks[a] # None /\ accountQueueLocks[a].token = tracking[r].token
       THEN [accountQueueLocks EXCEPT ![a] = None]
       ELSE accountQueueLocks
  /\ UNCHANGED <<counters, requestTracking, locals>>

Untrack(r) ==
  /\ Goto(r, "untracking", "done")
  /\ requestTracking' = [requestTracking EXCEPT ![RequestId[r]] = None]
  /\ UNCHANGED <<counters, accountQueueLocks, locals>>

-----------------------------------------------------------------------------
(* Time passing: a lease expires, the clean-up timer fires.                *)

\* The states in which a request owns its account's queue lock.
Holding == {"charging", "chargingAccount", "tracking", "serving", "releasing",
            "releaseUser", "releaseAccount", "releaseAccountUser", "releaseLock"}

\* Mutant of LeaseLapse: the lease is stored without its TTL.
LeaseNeverLapses(a) == FALSE

LeaseLapse(a) ==
  /\ accountQueueLocks[a] # None /\ accountQueueLocks[a].live
  /\ LeaseMayLapse \/ pc[accountQueueLocks[a].token] \notin Holding
  /\ accountQueueLocks' = [accountQueueLocks EXCEPT ![a].live = FALSE]
  /\ UNCHANGED <<counters, requestTracking, pc, locals>>

\* Mutant of Settled: the clean-up runs between two awaits of a release.
SettledAlways(r) == TRUE

\* Without Redis the awaits of the charging and releasing chains are resolved
\* promises: their microtasks all run before the next timer callback.
Settled(r) == pc[r] \in {"selecting", "checking", "queueing", "polling", "serving", "done", "rejected"}

Fewer(c, n) == IF c > n THEN c - n ELSE 0

\* _cleanupStale drops the entries older than 30 minutes and their counts;
\* it leaves the queue lock to its lease.
CleanupStale ==
  /\ MayOutliveCleanup
  /\ \A r \in Requests : Settled(r)
  /\ \E S \in SUBSET {i \in TraceIds : requestTracking[i] # None} :
       LET Stale(u, a) == {i \in S : requestTracking[i].user = u /\ requestTracking[i].account = a}
       IN
       /\ S # {}
       /\ userConcurrency' = [u \in Users |->
            Fewer(userConcurrency[u], Cardinality({i \in S : requestTracking[i].user = u}))]
       /\ accountConcurrency' = [a \in Accounts |->
            Fewer(accountConcurrency[a], Cardinality({i \in S : requestTracking[i].account = a}))]
       /\ accountUserConcurrency' = [a \in Accounts |-> [u \in Users |->
            Fewer(accountUserConcurrency[a][u], Cardinality(Stale(u, a)))]]
       /\ requestTracking' = [i \in TraceIds |-> IF i \in S THEN None ELSE requestTracking[i]]
  /\ UNCHANGED <<accountQueueLocks, pc, locals>>

-----------------------------------------------------------------------------
Admission(r) ==
  \/ SelectAccount(r) \/ RejectNoAccount(r) \/ CheckUserLimit(r)
  \/ TryLock(r) \/ LockBusy(r) \/ PollAgain(r) \/ QueueTimeout(r)

Charging(r) == ChargeUser(r) \/ ChargeAccount(r) \/ StartTracking(r)

ReleaseSlots(r) ==
  \/ ReadTracking(r) \/ ReleaseUser(r) \/ ReleaseAccount(r) \/ ReleaseAccountUser(r)
  \/ ReleaseQueueLock(r) \/ Untrack(r)

Step(r) == Admission(r) \/ Charging(r) \/ SwitchCredential(r) \/ Finish(r) \/ ReleaseSlots(r)

\* Every request was answered: the process is idle.
Idle ==
  /\ \A r \in Requests : pc[r] \in {"done", "rejected"}
  /\ UNCHANGED vars

Next ==
  \/ \E r \in Requests : Step(r)
  \/ \E a \in Accounts : LeaseLapse(a)
  \/ CleanupStale
  \/ Idle

Spec == Init /\ [][Next]_vars

\* The event loop runs every ready continuation; polling ends because the wait
\* is limited; Finish is fair because every upstream call has a timeout; a
\* lease that nobody renews expires.
Fairness ==
  /\ \A r \in Requests :
       /\ WF_vars(Admission(r)) /\ WF_vars(Charging(r))
       /\ WF_vars(Finish(r)) /\ WF_vars(ReleaseSlots(r))
  /\ \A a \in Accounts : WF_vars(LeaseLapse(a))

FairSpec == Spec /\ Fairness

-----------------------------------------------------------------------------
(* Properties.                                                             *)

States == {"selecting", "checking", "queueing", "polling", "untracking", "done", "rejected"} \cup Holding

\* The variables keep their types; no counter goes negative and an entry is
\* complete: user, account and token (requestTracking.set in startTracking).
TypeOK ==
  /\ userConcurrency \in [Users -> Nat]
  /\ accountConcurrency \in [Accounts -> Nat]
  /\ accountUserConcurrency \in [Accounts -> [Users -> Nat]]
  /\ requestTracking \in [TraceIds -> Entry \cup {None}]
  /\ accountQueueLocks \in [Accounts -> Lease \cup {None}]
  /\ pc \in [Requests -> States]
  /\ actualUuid \in [Requests -> Accounts \cup {None}]
  /\ upstream \in [Requests -> Accounts \cup {None}]
  /\ switches \in [Requests -> Nat]
  /\ attempts \in [Requests -> Nat]
  /\ tracking \in [Requests -> Entry \cup {None}]

Tracked(r) == requestTracking[RequestId[r]] # None

\* The requests whose increment has happened and whose decrement (their own, or
\* the clean-up's) has not.
ChargesUser(r) ==
  \/ pc[r] \in {"chargingAccount", "tracking", "releaseUser"}
  \/ pc[r] \in {"serving", "releasing"} /\ Tracked(r)
ChargesAccount(r) ==
  \/ pc[r] \in {"tracking", "releaseUser", "releaseAccount"}
  \/ pc[r] \in {"serving", "releasing"} /\ Tracked(r)
ChargesAccountUser(r) ==
  \/ pc[r] \in {"releaseUser", "releaseAccount", "releaseAccountUser"}
  \/ pc[r] \in {"serving", "releasing"} /\ Tracked(r)

UserCharges(u) == {r \in Requests : ChargesUser(r) /\ UserOf[r] = u}
AccountCharges(a) == {r \in Requests : ChargesAccount(r) /\ actualUuid[r] = a}
AccountUserCharges(a, u) ==
  {r \in Requests : ChargesAccountUser(r) /\ actualUuid[r] = a /\ UserOf[r] = u}

UserCountsMatch == \A u \in Users : userConcurrency[u] = Cardinality(UserCharges(u))
AccountCountsMatch == \A a \in Accounts : accountConcurrency[a] = Cardinality(AccountCharges(a))
AccountUserCountsMatch ==
  \A a \in Accounts, u \in Users :
    accountUserConcurrency[a][u] = Cardinality(AccountUserCharges(a, u))

\* Each counter equals the number of requests that hold a slot there, at every
\* step of every interleaving with the clean-up: nothing is counted twice,
\* released twice or leaked (incrementX, startTracking, releaseSlots, _cleanupStale).
CountersMatchCharges == UserCountsMatch /\ AccountCountsMatch /\ AccountUserCountsMatch

\* With the queue lock on and requests that finish within their lease, two
\* requests never hold the same account at once, from the acquisition to the
\* release (acquireAccountQueueLock, releaseAccountQueueLock).
QueueLockExclusion ==
  QueueLockEnabled /\ ~LeaseMayLapse =>
    \A r, s \in Requests :
      pc[r] \in Holding /\ pc[s] \in Holding /\ actualUuid[r] = actualUuid[s] => r = s

\* Under the same conditions an account is never charged more than once,
\* whatever accountMaxConcurrency lets selectProvider hand out.
OneChargeUnderQueueLock ==
  QueueLockEnabled /\ ~LeaseMayLapse => \A a \in Accounts : accountConcurrency[a] <= 1

\* Two requests that call the upstream with one account at the same time: one of
\* them has switched its credential, since the lock, the charge and the tracking
\* entry stay with the account it was given first (handleStreamRequest's retry).
UpstreamSharedOnlyAfterSwitch ==
  QueueLockEnabled /\ ~LeaseMayLapse =>
    \A r, s \in Requests :
      /\ r # s /\ pc[r] = "serving" /\ pc[s] = "serving"
      /\ upstream[r] = upstream[s]
      => switches[r] > 0 \/ switches[s] > 0

\* The refinement mapping: a request holds the account it is charged to in the
\* states in which it owns the lock, and it is over once it gave the lock back.
HeldAccount == [r \in Requests |-> IF pc[r] \in Holding THEN actualUuid[r] ELSE None]
Answered == {r \in Requests : pc[r] \in {"untracking", "done", "rejected"}}

Promised == INSTANCE AccountLease WITH held <- HeldAccount, answered <- Answered

\* With the queue lock on and leases that outlive their requests, the handler and
\* the limiter implement AccountLease: whatever the interleaving, the credential
\* switches and the clean-up, each step is a grant of a free account, a refusal, a
\* return, or invisible (acquireAccountQueueLock ... releaseSlots).
ImplementsAccountLease == Promised!Spec

LeaseChange(a) ==
  LET held == accountQueueLocks[a] IN
  held # None /\ held.live /\ accountQueueLocks'[a] # held
  => \/ accountQueueLocks'[a] = [held EXCEPT !.live = FALSE]
     \/ pc[held.token] = "releaseLock" /\ accountQueueLocks'[a] = None

\* A lease that is still running disappears or changes hands only when its own
\* holder releases it: a late release after the lapse of one's own lease cannot
\* free the successor's (the token comparison of releaseAccountQueueLock).
LeaseOnlyRemovedByOwner == [][\A a \in Accounts : LeaseChange(a)]_vars

\* Once requests stop arriving, all of them are answered and the process returns
\* to its initial resources for good: no count, no tracking entry and no running
\* lease is left behind, whatever the clean-up and the leases did meanwhile.
EventuallyDrained ==
  <>[](/\ \A r \in Requests : pc[r] \in {"done", "rejected"}
       /\ \A u \in Users : userConcurrency[u] = 0
       /\ \A a \in Accounts : accountConcurrency[a] = 0
       /\ \A i \in TraceIds : requestTracking[i] = None
       /\ \A a \in Accounts : accountQueueLocks[a] # None => ~accountQueueLocks[a].live)

\* concurrency-limiter.js:4, "at most N concurrent per account".
AccountLimit == \A a \in Accounts : accountConcurrency[a] <= MaxAccount

\* common.js:2826, the entry is there "to release at the end of the request":
\* once every request is over, every slot is free again.
SlotsFreeWhenIdle ==
  (\A r \in Requests : pc[r] \in {"done", "rejected"}) =>
    /\ \A u \in Users : userConcurrency[u] = 0
    /\ \A a \in Accounts : accountConcurrency[a] = 0
    /\ \A a \in Accounts, u \in Users : accountUserConcurrency[a][u] = 0

\* More than that: no tracking entry is left either, and no lease, running or lapsed,
\* unless the clean-up took the entry its holder would have released it by.
NothingHeldWhenIdle ==
  /\ SlotsFreeWhenIdle
  /\ (\A r \in Requests : pc[r] \in {"done", "rejected"}) =>
       /\ \A i \in TraceIds : requestTracking[i] = None
       /\ \A a \in Accounts : accountQueueLocks[a] # None => MayOutliveCleanup

\* A request whose user is at its limit when it is checked goes no further:
\* "user level: the same user has N requests at most" (concurrency-limiter.js:3).
UserLimitEnforced ==
  [][\A r \in Requests :
       pc[r] = "checking" /\ pc'[r] # "checking" /\ userConcurrency[UserOf[r]] >= MaxUser
         => pc'[r] = "rejected"]_vars
=============================================================================
