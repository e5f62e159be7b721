------------------------ MODULE RequestSlots_proofs ------------------------
(***************************************************************************)
(* Theorems about RequestSlots, for any finite set of requests, any users, *)
(* accounts and limits.  TypeInv is inductive on its own; TrackingInv adds *)
(* where a request's entry is in requestTracking, and the exactness of the *)
(* counters and the exclusion of the queue lock rest on it.                *)
(***************************************************************************)
EXTENDS RequestSlots, FiniteSetTheorems, TLAPS

\* Once a request has selected an account, it has one until it is answered.
Bound == \A r \in Requests :
  pc[r] \in States \ {"selecting", "done", "rejected"} => actualUuid[r] \in Accounts

TypeInv == TypeOK /\ Bound

LEMMA TraceIdsFinite == IsFiniteSet(TraceIds)
  <1>1. RequestId \in Surjection(Requests, TraceIds)
    BY SlotAssumption DEF Surjection, TraceIds
  <1> QED BY <1>1, SlotAssumption, FS_Surjection

\* The counter left by the clean-up is a natural number.
LEMMA FewerType ==
  ASSUME NEW c \in Nat, NEW S \in SUBSET TraceIds
  PROVE  Fewer(c, Cardinality(S)) \in Nat
  <1>1. Cardinality(S) \in Nat BY TraceIdsFinite, FS_Subset, FS_CardinalityType
  <1> QED BY <1>1 DEF Fewer

\* A Map of counts stays one after an increment or a decrement at any key.
LEMMA CountMapType ==
  ASSUME NEW D, NEW f \in [D -> Nat], NEW d
  PROVE  /\ [f EXCEPT ![d] = @ + 1] \in [D -> Nat]
         /\ [f EXCEPT ![d] = Decrement(@)] \in [D -> Nat]
  <1>1. ASSUME NEW c \in Nat PROVE Decrement(c) \in Nat BY <1>1 DEF Decrement
  <1>2. ASSUME NEW x \in D
        PROVE  /\ [f EXCEPT ![d] = @ + 1][x] \in Nat
               /\ [f EXCEPT ![d] = Decrement(@)][x] \in Nat
    <2>1. CASE x = d BY <1>1, <2>1
    <2>2. CASE x # d BY <2>2
    <2> QED BY <2>1, <2>2
  <1> QED BY <1>2

LEMMA CountMapMapType ==
  ASSUME NEW D, NEW E, NEW f \in [D -> [E -> Nat]], NEW d, NEW e
  PROVE  /\ [f EXCEPT ![d][e] = @ + 1] \in [D -> [E -> Nat]]
         /\ [f EXCEPT ![d][e] = Decrement(@)] \in [D -> [E -> Nat]]
  <1>1. CASE d \in D
    <2>1. /\ [f[d] EXCEPT ![e] = @ + 1] \in [E -> Nat]
          /\ [f[d] EXCEPT ![e] = Decrement(@)] \in [E -> Nat]
      BY <1>1, CountMapType
    <2> QED BY <1>1, <2>1
  <1>2. CASE d \notin D BY <1>2
  <1> QED BY <1>1, <1>2

LEMMA CountMapMapAt ==
  ASSUME NEW D, NEW E, NEW f \in [D -> [E -> Nat]], NEW d, NEW e, NEW x \in D, NEW y \in E
  PROVE  /\ [f EXCEPT ![d][e] = @ + 1][x][y] = IF x = d /\ y = e THEN f[x][y] + 1 ELSE f[x][y]
         /\ [f EXCEPT ![d][e] = Decrement(@)][x][y] =
              IF x = d /\ y = e THEN Decrement(f[x][y]) ELSE f[x][y]
  OBVIOUS

LEMMA InitTypeInv == Init => TypeInv
  BY SlotAssumption DEF Init, TypeInv, TypeOK, Bound, States, Holding

LEMMA StepTypeInv ==
  ASSUME TypeInv, NEW r \in Requests, Step(r)
  PROVE  TypeInv'
  <1> USE SlotAssumption DEF TypeInv, TypeOK, Bound, Goto, States, Holding, counters, locals
  <1>1. CASE SelectAccount(r) BY <1>1 DEF SelectAccount
  <1>2. CASE RejectNoAccount(r) BY <1>2 DEF RejectNoAccount
  <1>3. CASE CheckUserLimit(r) BY <1>3 DEF CheckUserLimit
  <1>4. CASE TryLock(r)
    <2>1. [token |-> r, live |-> TRUE] \in Lease BY DEF Lease
    <2> QED BY <1>4, <2>1 DEF TryLock
  <1>5. CASE LockBusy(r) BY <1>5 DEF LockBusy
  <1>6. CASE PollAgain(r) BY <1>6 DEF PollAgain
  <1>7. CASE QueueTimeout(r) BY <1>7 DEF QueueTimeout
  <1>8. CASE ChargeUser(r) BY <1>8 DEF ChargeUser
  <1>9. CASE ChargeAccount(r)
    <2>1. accountConcurrency \in [Accounts -> Nat] OBVIOUS
    <2>2. accountConcurrency' = [accountConcurrency EXCEPT ![actualUuid[r]] = @ + 1]
      BY <1>9 DEF ChargeAccount
    <2>3. accountConcurrency' \in [Accounts -> Nat] BY ONLY <2>1, <2>2, CountMapType
    <2> QED BY <1>9, <2>3 DEF ChargeAccount
  <1>10. CASE StartTracking(r)
    <2> DEFINE entry == [user |-> UserOf[r], account |-> actualUuid[r],
                         token |-> IF QueueLockEnabled THEN r ELSE None]
    <2>1. entry \in Entry BY <1>10 DEF StartTracking, Entry
    <2>2. requestTracking' = [requestTracking EXCEPT ![RequestId[r]] = entry]
      BY <1>10 DEF StartTracking
    <2> HIDE DEF entry
    <2>3. requestTracking' \in [TraceIds -> Entry \cup {None}] BY <2>1, <2>2
    <2>4. accountUserConcurrency' \in [Accounts -> [Users -> Nat]] BY <1>10, CountMapMapType DEF StartTracking
    <2> QED BY <1>10, <2>3, <2>4 DEF StartTracking
  <1>11. CASE SwitchCredential(r) BY <1>11 DEF SwitchCredential
  <1>12. CASE Finish(r) BY <1>12 DEF Finish
  <1>13. CASE ReadTracking(r) BY <1>13 DEF ReadTracking
  <1>14. CASE ReleaseUser(r)
    <2>1. userConcurrency' \in [Users -> Nat] BY <1>14, CountMapType DEF ReleaseUser
    <2> QED BY <1>14, <2>1 DEF ReleaseUser
  <1>15. CASE ReleaseAccount(r)
    <2>1. accountConcurrency' \in [Accounts -> Nat] BY <1>15, CountMapType DEF ReleaseAccount
    <2> QED BY <1>15, <2>1 DEF ReleaseAccount
  <1>16. CASE ReleaseAccountUser(r)
    <2>1. accountUserConcurrency' \in [Accounts -> [Users -> Nat]] BY <1>16, CountMapMapType DEF ReleaseAccountUser
    <2> QED BY <1>16, <2>1 DEF ReleaseAccountUser
  <1>17. CASE ReleaseQueueLock(r) BY <1>17 DEF ReleaseQueueLock
  <1>18. CASE Untrack(r) BY <1>18 DEF Untrack
  <1> QED BY <1>1, <1>2, <1>3, <1>4, <1>5, <1>6, <1>7, <1>8, <1>9, <1>10, <1>11,
             <1>12, <1>13, <1>14, <1>15, <1>16, <1>17, <1>18
          DEF Step, Admission, Charging, ReleaseSlots

LEMMA NextTypeInv == TypeInv /\ [Next]_vars => TypeInv'
  <1> SUFFICES ASSUME TypeInv, [Next]_vars PROVE TypeInv' OBVIOUS
  <1>1. ASSUME NEW r \in Requests, Step(r) PROVE TypeInv' BY <1>1, StepTypeInv
  <1>2. ASSUME NEW a \in Accounts, LeaseLapse(a) PROVE TypeInv'
    <2>1. accountQueueLocks[a] \in Lease BY <1>2 DEF LeaseLapse, TypeInv, TypeOK
    <2>2. [accountQueueLocks[a] EXCEPT !.live = FALSE] \in Lease BY <2>1 DEF Lease
    <2>3. accountQueueLocks' \in [Accounts -> Lease \cup {None}]
      BY <1>2, <2>2 DEF LeaseLapse, TypeInv, TypeOK
    <2> QED BY <1>2, <2>3 DEF LeaseLapse, TypeInv, TypeOK, Bound, counters, locals
  <1>3. CASE CleanupStale
    <2>1. PICK S \in SUBSET {i \in TraceIds : requestTracking[i] # None} :
            /\ userConcurrency' = [u \in Users |->
                 Fewer(userConcurrency[u], Cardinality({i \in S : requestTracking[i].user = u}))]
            /\ accountConcurrency' = [a \in Accounts |->
                 Fewer(accountConcurrency[a], Cardinality({i \in S : requestTracking[i].account = a}))]
            /\ accountUserConcurrency' = [a \in Accounts |-> [u \in Users |->
                 Fewer(accountUserConcurrency[a][u], Cardinality(
                   {i \in S : requestTracking[i].user = u /\ requestTracking[i].account = a}))]]
            /\ requestTracking' = [i \in TraceIds |-> IF i \in S THEN None ELSE requestTracking[i]]
      BY <1>3 DEF CleanupStale
    <2>2. userConcurrency' \in [Users -> Nat]
      <3> SUFFICES ASSUME NEW u \in Users
                   PROVE  Fewer(userConcurrency[u],
                            Cardinality({i \in S : requestTracking[i].user = u})) \in Nat
        BY <2>1
      <3>1. {i \in S : requestTracking[i].user = u} \in SUBSET TraceIds OBVIOUS
      <3>2. userConcurrency[u] \in Nat BY DEF TypeInv, TypeOK
      <3> QED BY <3>1, <3>2, FewerType
    <2>3. accountConcurrency' \in [Accounts -> Nat]
      <3> SUFFICES ASSUME NEW a \in Accounts
                   PROVE  Fewer(accountConcurrency[a],
                            Cardinality({i \in S : requestTracking[i].account = a})) \in Nat
        BY <2>1
      <3>1. {i \in S : requestTracking[i].account = a} \in SUBSET TraceIds OBVIOUS
      <3>2. accountConcurrency[a] \in Nat BY DEF TypeInv, TypeOK
      <3> QED BY <3>1, <3>2, FewerType
    <2>4. accountUserConcurrency' \in [Accounts -> [Users -> Nat]]
      <3> SUFFICES ASSUME NEW a \in Accounts, NEW u \in Users
                   PROVE  Fewer(accountUserConcurrency[a][u], Cardinality(
                            {i \in S : requestTracking[i].user = u /\ requestTracking[i].account = a})) \in Nat
        BY <2>1
      <3>1. {i \in S : requestTracking[i].user = u /\ requestTracking[i].account = a} \in SUBSET TraceIds
        OBVIOUS
      <3>2. accountUserConcurrency[a][u] \in Nat BY DEF TypeInv, TypeOK
      <3> QED BY <3>1, <3>2, FewerType
    <2>5. requestTracking' \in [TraceIds -> Entry \cup {None}] BY <2>1 DEF TypeInv, TypeOK
    <2> QED BY <1>3, <2>2, <2>3, <2>4, <2>5 DEF CleanupStale, TypeInv, TypeOK, Bound, locals
  <1>4. CASE UNCHANGED vars
    BY <1>4 DEF TypeInv, TypeOK, Bound, vars, counters, locals
  <1> QED BY <1>1, <1>2, <1>3, <1>4 DEF Next, Idle

\* Type correctness: the maps keep their shapes, the counters stay natural.
THEOREM TypeCorrect == Spec => []TypeOK
  <1>1. Spec => []TypeInv BY InitTypeInv, NextTypeInv, PTL DEF Spec
  <1>2. TypeInv => TypeOK BY DEF TypeInv
  <1> QED BY <1>1, <1>2, PTL

-----------------------------------------------------------------------------
(* Where a request's entry is in requestTracking.                          *)

EntryOf(r) == [user |-> UserOf[r], account |-> actualUuid[r],
               token |-> IF QueueLockEnabled THEN r ELSE None]

Releasing == {"releaseUser", "releaseAccount", "releaseAccountUser", "releaseLock", "untracking"}

\* Before startTracking and after Untrack there is no entry; a running request
\* has its own, or none if the clean-up took it; a releasing one has read its own.
TrackingOf(r) ==
  LET entry == requestTracking[RequestId[r]] IN
  /\ pc[r] \in {"serving", "releasing"} => entry \in {None, EntryOf(r)}
  /\ pc[r] \in Releasing => entry = EntryOf(r) /\ tracking[r] = EntryOf(r)
  /\ pc[r] \notin {"serving", "releasing"} \cup Releasing => entry = None

TrackingInv == \A r \in Requests : TrackingOf(r)

\* A step of one request leaves the state of the others alone.
LEMMA StepFrame ==
  ASSUME TypeInv, UniqueIds, NEW r \in Requests, Step(r), NEW q \in Requests, q # r
  PROVE  /\ pc'[q] = pc[q]
         /\ actualUuid'[q] = actualUuid[q]
         /\ tracking'[q] = tracking[q]
         /\ requestTracking'[RequestId[q]] = requestTracking[RequestId[q]]
  <1>1. RequestId[q] # RequestId[r] BY DEF UniqueIds
  <1>2. pc'[q] = pc[q]
    BY DEF TypeInv, TypeOK, Step, Admission, Charging, ReleaseSlots, Goto, SelectAccount,
           RejectNoAccount, CheckUserLimit, TryLock, LockBusy, PollAgain, QueueTimeout,
           ChargeUser, ChargeAccount, StartTracking, SwitchCredential, Finish, ReadTracking,
           ReleaseUser, ReleaseAccount, ReleaseAccountUser, ReleaseQueueLock, Untrack
  <1>3. actualUuid'[q] = actualUuid[q]
    BY DEF TypeInv, TypeOK, Step, Admission, Charging, ReleaseSlots, SelectAccount,
           RejectNoAccount, CheckUserLimit, TryLock, LockBusy, PollAgain, QueueTimeout,
           ChargeUser, ChargeAccount, StartTracking, SwitchCredential, Finish, ReadTracking,
           ReleaseUser, ReleaseAccount, ReleaseAccountUser, ReleaseQueueLock, Untrack, locals
  <1>4. tracking'[q] = tracking[q]
    BY DEF TypeInv, TypeOK, Step, Admission, Charging, ReleaseSlots, SelectAccount,
           RejectNoAccount, CheckUserLimit, TryLock, LockBusy, PollAgain, QueueTimeout,
           ChargeUser, ChargeAccount, StartTracking, SwitchCredential, Finish, ReadTracking,
           ReleaseUser, ReleaseAccount, ReleaseAccountUser, ReleaseQueueLock, Untrack, locals
  <1>5. requestTracking'[RequestId[q]] = requestTracking[RequestId[q]]
    BY <1>1, SlotAssumption
       DEF TypeInv, TypeOK, Step, Admission, Charging, ReleaseSlots, SelectAccount,
           RejectNoAccount, CheckUserLimit, TryLock, LockBusy, PollAgain, QueueTimeout,
           ChargeUser, ChargeAccount, StartTracking, SwitchCredential, Finish, ReadTracking,
           ReleaseUser, ReleaseAccount, ReleaseAccountUser, ReleaseQueueLock, Untrack
  <1> QED BY <1>2, <1>3, <1>4, <1>5

\* A step of a request takes its own entry from one stage to the next.
LEMMA StepTracking ==
  ASSUME TypeInv, NEW r \in Requests, TrackingOf(r), Step(r)
  PROVE  TrackingOf(r)'
  <1> USE SlotAssumption DEF TypeInv, TypeOK, TrackingOf, EntryOf, Releasing, Goto, locals
  <1>1. CASE SelectAccount(r) BY <1>1 DEF SelectAccount
  <1>2. CASE RejectNoAccount(r) BY <1>2 DEF RejectNoAccount
  <1>3. CASE CheckUserLimit(r) BY <1>3 DEF CheckUserLimit
  <1>4. CASE TryLock(r) BY <1>4 DEF TryLock
  <1>5. CASE LockBusy(r) BY <1>5 DEF LockBusy
  <1>6. CASE PollAgain(r) BY <1>6 DEF PollAgain
  <1>7. CASE QueueTimeout(r) BY <1>7 DEF QueueTimeout
  <1>8. CASE ChargeUser(r) BY <1>8 DEF ChargeUser
  <1>9. CASE ChargeAccount(r) BY <1>9 DEF ChargeAccount
  <1>10. CASE StartTracking(r) BY <1>10 DEF StartTracking
  <1>11. CASE SwitchCredential(r) BY <1>11 DEF SwitchCredential
  <1>12. CASE Finish(r) BY <1>12 DEF Finish
  <1>13. CASE ReadTracking(r) BY <1>13 DEF ReadTracking
  <1>14. CASE ReleaseUser(r) BY <1>14 DEF ReleaseUser
  <1>15. CASE ReleaseAccount(r) BY <1>15 DEF ReleaseAccount
  <1>16. CASE ReleaseAccountUser(r) BY <1>16 DEF ReleaseAccountUser
  <1>17. CASE ReleaseQueueLock(r) BY <1>17 DEF ReleaseQueueLock
  <1>18. CASE Untrack(r) BY <1>18 DEF Untrack
  <1> QED BY <1>1, <1>2, <1>3, <1>4, <1>5, <1>6, <1>7, <1>8, <1>9, <1>10, <1>11,
             <1>12, <1>13, <1>14, <1>15, <1>16, <1>17, <1>18
          DEF Step, Admission, Charging, ReleaseSlots

LEMMA InitTracking == Init => TrackingInv
  BY SlotAssumption DEF Init, TrackingInv, TrackingOf, Releasing

LEMMA NextTracking ==
  ASSUME UniqueIds, TypeInv, TrackingInv, [Next]_vars
  PROVE  TrackingInv'
  <1> SUFFICES ASSUME NEW q \in Requests PROVE TrackingOf(q)' BY DEF TrackingInv
  <1>0. TrackingOf(q) BY DEF TrackingInv
  <1>1. ASSUME NEW r \in Requests, Step(r) PROVE TrackingOf(q)'
    <2>1. CASE q = r BY <1>0, <1>1, <2>1, StepTracking
    <2>2. CASE q # r
      <3>1. /\ pc'[q] = pc[q] /\ actualUuid'[q] = actualUuid[q] /\ tracking'[q] = tracking[q]
            /\ requestTracking'[RequestId[q]] = requestTracking[RequestId[q]]
        BY <1>1, <2>2, StepFrame
      <3> QED BY <1>0, <3>1 DEF TrackingOf, EntryOf
    <2> QED BY <2>1, <2>2
  <1>2. ASSUME NEW a \in Accounts, LeaseLapse(a) PROVE TrackingOf(q)'
    BY <1>0, <1>2 DEF LeaseLapse, TrackingOf, EntryOf, locals
  <1>3. CASE CleanupStale
    <2>1. pc[q] \notin Releasing BY <1>3 DEF CleanupStale, Settled, Releasing
    <2>2. requestTracking'[RequestId[q]] \in {None, requestTracking[RequestId[q]]}
      BY <1>3, SlotAssumption DEF CleanupStale
    <2>3. pc' = pc /\ actualUuid' = actualUuid /\ tracking' = tracking
      BY <1>3 DEF CleanupStale, locals
    <2> QED BY <1>0, <2>1, <2>2, <2>3 DEF TrackingOf, EntryOf
  <1>4. CASE UNCHANGED vars
    BY <1>0, <1>4 DEF TrackingOf, EntryOf, vars, locals
  <1> QED BY <1>1, <1>2, <1>3, <1>4 DEF Next, Idle

-----------------------------------------------------------------------------
(* The counters count the charged requests.                                *)

\* Sets of charged requests are finite; one request more or less counts one.
LEMMA CountChange ==
  ASSUME NEW S \in SUBSET Requests, NEW T \in SUBSET Requests, NEW r \in Requests,
         T \ {r} = S \ {r}
  PROVE  /\ Cardinality(S) \in Nat
         /\ (r \in S <=> r \in T) => Cardinality(T) = Cardinality(S)
         /\ r \notin S /\ r \in T => Cardinality(T) = Cardinality(S) + 1
         /\ r \in S /\ r \notin T => Cardinality(T) = Decrement(Cardinality(S))
  <1>1. IsFiniteSet(S) /\ IsFiniteSet(T) BY SlotAssumption, FS_Subset
  <1>2. Cardinality(S) \in Nat /\ Cardinality(T) \in Nat BY <1>1, FS_CardinalityType
  <1>3. (r \in S <=> r \in T) => S = T OBVIOUS
  <1>4. ASSUME r \notin S, r \in T PROVE Cardinality(T) = Cardinality(S) + 1
    <2>1. T = S \cup {r} BY <1>4
    <2> QED BY <1>1, <1>4, <2>1, FS_AddElement
  <1>5. ASSUME r \in S, r \notin T PROVE Cardinality(T) = Decrement(Cardinality(S))
    <2>1. S = T \cup {r} BY <1>5
    <2>2. Cardinality(S) = Cardinality(T) + 1 BY <1>1, <1>5, <2>1, FS_AddElement
    <2> QED BY <1>2, <2>2 DEF Decrement
  <1> QED BY <1>2, <1>3, <1>4, <1>5

\* Removing from a set of charged requests the ones whose ids are in S lowers its
\* size by the number of these ids.
LEMMA CountRemoved ==
  ASSUME UniqueIds, NEW X \in SUBSET Requests, NEW Y \in SUBSET TraceIds,
         NEW Z \in SUBSET X, Y = {RequestId[r] : r \in Z}
  PROVE  Cardinality(X \ Z) = Fewer(Cardinality(X), Cardinality(Y))
  <1>1. IsFiniteSet(X) /\ IsFiniteSet(Z) BY SlotAssumption, FS_Subset
  <1>2. [r \in Z |-> RequestId[r]] \in Bijection(Z, Y)
    <2> DEFINE f == [r \in Z |-> RequestId[r]]
    <2>1. f \in [Z -> Y] OBVIOUS
    <2>2. \A x, y \in Z : f[x] = f[y] => x = y BY DEF UniqueIds
    <2>3. \A y \in Y : \E x \in Z : f[x] = y OBVIOUS
    <2> HIDE DEF f
    <2>4. f \in Bijection(Z, Y) BY <2>1, <2>2, <2>3 DEF Bijection, Injection, Surjection, IsInjective
    <2> QED BY <2>4 DEF f
  <1>3. Cardinality(Y) = Cardinality(Z)
    BY <1>1, <1>2, FS_Bijection DEF ExistsBijection
  <1>4. X \cap Z = Z OBVIOUS
  <1>5. Cardinality(X \ Z) = Cardinality(X) - Cardinality(Z)
    <2>1. Cardinality(X \ Z) = Cardinality(X) - Cardinality(X \cap Z)
      BY ONLY <1>1, FS_Difference
    <2> QED BY ONLY <1>4, <2>1
  <1>6. Cardinality(X) \in Nat /\ Cardinality(Z) \in Nat /\ Cardinality(X \ Z) \in Nat
    BY <1>1, FS_CardinalityType, FS_Difference
  <1> QED BY <1>3, <1>5, <1>6 DEF Fewer

SlotsInv == TypeInv /\ TrackingInv /\ CountersMatchCharges

LEMMA InitCounters == Init => CountersMatchCharges
  <1> SUFFICES ASSUME Init PROVE CountersMatchCharges OBVIOUS
  <1>1. \A r \in Requests : ~ChargesUser(r) /\ ~ChargesAccount(r) /\ ~ChargesAccountUser(r)
    BY DEF Init, ChargesUser, ChargesAccount, ChargesAccountUser
  <1>2. \A u \in Users : UserCharges(u) = {} BY <1>1 DEF UserCharges
  <1>3. \A a \in Accounts : AccountCharges(a) = {} BY <1>1 DEF AccountCharges
  <1>4. \A a \in Accounts, u \in Users : AccountUserCharges(a, u) = {}
    BY <1>1 DEF AccountUserCharges
  <1> QED BY <1>2, <1>3, <1>4, FS_EmptySet
       DEF Init, CountersMatchCharges, UserCountsMatch, AccountCountsMatch, AccountUserCountsMatch

\* A releasing request gives back what it was charged to: its own entry.
LEMMA OwnEntry ==
  ASSUME NEW r \in Requests, TrackingOf(r), pc[r] \in Releasing
  PROVE  /\ tracking[r].user = UserOf[r]
         /\ tracking[r].account = actualUuid[r]
         /\ tracking[r].token = IF QueueLockEnabled THEN r ELSE None
  BY DEF TrackingOf, EntryOf

\* What a step of r does to r's own charges and to the counters, action by action.
LEMMA StepUserCharge ==
  ASSUME TypeInv, NEW r \in Requests, TrackingOf(r), Step(r)
  PROVE  \/ /\ ~ChargesUser(r) /\ ChargesUser(r)'
            /\ userConcurrency' = [userConcurrency EXCEPT ![UserOf[r]] = @ + 1]
         \/ /\ ChargesUser(r) /\ ~ChargesUser(r)'
            /\ userConcurrency' = [userConcurrency EXCEPT ![UserOf[r]] = Decrement(@)]
         \/ /\ ChargesUser(r) <=> ChargesUser(r)'
            /\ userConcurrency' = userConcurrency
  <1> USE SlotAssumption DEF TypeInv, TypeOK, TrackingOf, EntryOf, Releasing, Goto, counters,
          ChargesUser, Tracked
  <1>1. CASE Admission(r)
    BY <1>1 DEF Admission, SelectAccount, RejectNoAccount, CheckUserLimit, TryLock, LockBusy,
                PollAgain, QueueTimeout
  <1>2. CASE ChargeUser(r) BY <1>2 DEF ChargeUser
  <1>3. CASE ChargeAccount(r) BY <1>3 DEF ChargeAccount
  <1>4. CASE StartTracking(r)
    <2>1. EntryOf(r) \in Entry BY <1>4 DEF StartTracking, Entry, Bound, States, Holding
    <2>2. requestTracking'[RequestId[r]] = EntryOf(r) BY <1>4 DEF StartTracking
    <2>3. requestTracking'[RequestId[r]] # None BY <2>1, <2>2
    <2> QED BY <1>4, <2>3 DEF StartTracking
  <1>5. CASE SwitchCredential(r) BY <1>5 DEF SwitchCredential
  <1>6. CASE Finish(r) BY <1>6 DEF Finish
  <1>7. CASE ReadTracking(r) BY <1>7 DEF ReadTracking
  <1>8. CASE ReleaseUser(r) BY <1>8, OwnEntry DEF ReleaseUser
  <1>9. CASE ReleaseAccount(r) \/ ReleaseAccountUser(r) \/ ReleaseQueueLock(r) \/ Untrack(r)
    BY <1>9 DEF ReleaseAccount, ReleaseAccountUser, ReleaseQueueLock, Untrack
  <1> QED BY <1>1, <1>2, <1>3, <1>4, <1>5, <1>6, <1>7, <1>8, <1>9 DEF Step, Charging, ReleaseSlots

LEMMA StepAccountCharge ==
  ASSUME TypeInv, NEW r \in Requests, TrackingOf(r), Step(r)
  PROVE  \/ /\ ~ChargesAccount(r) /\ ChargesAccount(r)'
            /\ actualUuid' = actualUuid
            /\ accountConcurrency' = [accountConcurrency EXCEPT ![actualUuid[r]] = @ + 1]
         \/ /\ ChargesAccount(r) /\ ~ChargesAccount(r)'
            /\ actualUuid' = actualUuid
            /\ accountConcurrency' = [accountConcurrency EXCEPT ![actualUuid[r]] = Decrement(@)]
         \/ /\ ChargesAccount(r) <=> ChargesAccount(r)'
            /\ ChargesAccount(r) => actualUuid' = actualUuid
            /\ accountConcurrency' = accountConcurrency
  <1> USE SlotAssumption DEF TypeInv, TypeOK, TrackingOf, EntryOf, Releasing, Goto, counters, locals,
          ChargesAccount, Tracked
  <1>1. CASE Admission(r)
    BY <1>1 DEF Admission, SelectAccount, RejectNoAccount, CheckUserLimit, TryLock, LockBusy,
                PollAgain, QueueTimeout
  <1>2. CASE ChargeUser(r) BY <1>2 DEF ChargeUser
  <1>3. CASE ChargeAccount(r) BY <1>3 DEF ChargeAccount
  <1>4. CASE StartTracking(r)
    <2>1. EntryOf(r) \in Entry BY <1>4 DEF StartTracking, Entry, Bound, States, Holding
    <2>2. requestTracking'[RequestId[r]] = EntryOf(r) BY <1>4 DEF StartTracking
    <2>3. requestTracking'[RequestId[r]] # None BY <2>1, <2>2
    <2> QED BY <1>4, <2>3 DEF StartTracking
  <1>5. CASE SwitchCredential(r) BY <1>5 DEF SwitchCredential
  <1>6. CASE Finish(r) BY <1>6 DEF Finish
  <1>7. CASE ReadTracking(r) BY <1>7 DEF ReadTracking
  <1>8. CASE ReleaseUser(r) BY <1>8, OwnEntry DEF ReleaseUser
  <1>9. CASE ReleaseAccount(r) BY <1>9, OwnEntry DEF ReleaseAccount
  <1>10. CASE ReleaseAccountUser(r) \/ ReleaseQueueLock(r) \/ Untrack(r)
    BY <1>10 DEF ReleaseAccountUser, ReleaseQueueLock, Untrack
  <1> QED BY <1>1, <1>2, <1>3, <1>4, <1>5, <1>6, <1>7, <1>8, <1>9, <1>10
          DEF Step, Charging, ReleaseSlots

LEMMA StepAccountUserCharge ==
  ASSUME TypeInv, NEW r \in Requests, TrackingOf(r), Step(r)
  PROVE  \/ /\ ~ChargesAccountUser(r) /\ ChargesAccountUser(r)'
            /\ actualUuid' = actualUuid
            /\ accountUserConcurrency' =
                 [accountUserConcurrency EXCEPT ![actualUuid[r]][UserOf[r]] = @ + 1]
         \/ /\ ChargesAccountUser(r) /\ ~ChargesAccountUser(r)'
            /\ actualUuid' = actualUuid
            /\ accountUserConcurrency' =
                 [accountUserConcurrency EXCEPT ![actualUuid[r]][UserOf[r]] = Decrement(@)]
         \/ /\ ChargesAccountUser(r) <=> ChargesAccountUser(r)'
            /\ ChargesAccountUser(r) => actualUuid' = actualUuid
            /\ accountUserConcurrency' = accountUserConcurrency
  <1> USE SlotAssumption DEF TypeInv, TypeOK, TrackingOf, EntryOf, Releasing, Goto, counters, locals,
          ChargesAccountUser, Tracked
  <1>1. CASE Admission(r)
    BY <1>1 DEF Admission, SelectAccount, RejectNoAccount, CheckUserLimit, TryLock, LockBusy,
                PollAgain, QueueTimeout
  <1>2. CASE ChargeUser(r) BY <1>2 DEF ChargeUser
  <1>3. CASE ChargeAccount(r) BY <1>3 DEF ChargeAccount
  <1>4. CASE StartTracking(r)
    <2>1. EntryOf(r) \in Entry BY <1>4 DEF StartTracking, Entry, Bound, States, Holding
    <2>2. requestTracking'[RequestId[r]] = EntryOf(r) BY <1>4 DEF StartTracking
    <2>3. requestTracking'[RequestId[r]] # None BY <2>1, <2>2
    <2> QED BY <1>4, <2>3 DEF StartTracking
  <1>5. CASE SwitchCredential(r) BY <1>5 DEF SwitchCredential
  <1>6. CASE Finish(r) BY <1>6 DEF Finish
  <1>7. CASE ReadTracking(r) BY <1>7 DEF ReadTracking
  <1>8. CASE ReleaseUser(r) BY <1>8, OwnEntry DEF ReleaseUser
  <1>9. CASE ReleaseAccount(r) BY <1>9, OwnEntry DEF ReleaseAccount
  <1>10. CASE ReleaseAccountUser(r) BY <1>10, OwnEntry DEF ReleaseAccountUser
  <1>11. CASE ReleaseQueueLock(r) \/ Untrack(r) BY <1>11 DEF ReleaseQueueLock, Untrack
  <1> QED BY <1>1, <1>2, <1>3, <1>4, <1>5, <1>6, <1>7, <1>8, <1>9, <1>10, <1>11
          DEF Step, Charging, ReleaseSlots

\* A step of one request leaves the charges of the others alone.
LEMMA OthersCharges ==
  ASSUME TypeInv, UniqueIds, NEW r \in Requests, Step(r), NEW q \in Requests, q # r
  PROVE  /\ ChargesUser(q)' <=> ChargesUser(q)
         /\ ChargesAccount(q)' <=> ChargesAccount(q)
         /\ ChargesAccountUser(q)' <=> ChargesAccountUser(q)
         /\ actualUuid'[q] = actualUuid[q]
  <1>1. /\ pc'[q] = pc[q] /\ actualUuid'[q] = actualUuid[q]
        /\ requestTracking'[RequestId[q]] = requestTracking[RequestId[q]]
    BY StepFrame
  <1> QED BY <1>1 DEF ChargesUser, ChargesAccount, ChargesAccountUser, Tracked

LEMMA StepUserCounts ==
  ASSUME UniqueIds, TypeInv, TrackingInv, UserCountsMatch, NEW r \in Requests, Step(r)
  PROVE  UserCountsMatch'
  <1> SUFFICES ASSUME NEW u \in Users
               PROVE  userConcurrency'[u] = Cardinality(UserCharges(u)')
    BY DEF UserCountsMatch
  <1> DEFINE S == UserCharges(u)
             T == UserCharges(u)'
  <1>1. S \in SUBSET Requests /\ T \in SUBSET Requests BY DEF UserCharges
  <1>2. T \ {r} = S \ {r} BY OthersCharges DEF UserCharges
  <1>3. r \in S <=> ChargesUser(r) /\ UserOf[r] = u BY DEF UserCharges
  <1>4. r \in T <=> ChargesUser(r)' /\ UserOf[r] = u BY DEF UserCharges
  <1>5. userConcurrency[u] = Cardinality(S) /\ userConcurrency \in [Users -> Nat]
    BY DEF UserCountsMatch, TypeInv, TypeOK
  <1>6. TrackingOf(r) BY DEF TrackingInv
  <1> HIDE DEF S, T
  <1>7. /\ (r \in S <=> r \in T) => Cardinality(T) = Cardinality(S)
        /\ r \notin S /\ r \in T => Cardinality(T) = Cardinality(S) + 1
        /\ r \in S /\ r \notin T => Cardinality(T) = Decrement(Cardinality(S))
    BY <1>1, <1>2, CountChange
  <1>8. userConcurrency'[u] = Cardinality(T)
    BY <1>3, <1>4, <1>5, <1>6, <1>7, StepUserCharge
  <1> QED BY <1>8 DEF T

LEMMA StepAccountCounts ==
  ASSUME UniqueIds, TypeInv, TrackingInv, AccountCountsMatch, NEW r \in Requests, Step(r)
  PROVE  AccountCountsMatch'
  <1> SUFFICES ASSUME NEW a \in Accounts
               PROVE  accountConcurrency'[a] = Cardinality(AccountCharges(a)')
    BY DEF AccountCountsMatch
  <1> DEFINE S == AccountCharges(a)
             T == AccountCharges(a)'
  <1>1. S \in SUBSET Requests /\ T \in SUBSET Requests BY DEF AccountCharges
  <1>2. T \ {r} = S \ {r} BY OthersCharges DEF AccountCharges
  <1>3. r \in S <=> ChargesAccount(r) /\ actualUuid[r] = a BY DEF AccountCharges
  <1>4. r \in T <=> ChargesAccount(r)' /\ actualUuid'[r] = a BY DEF AccountCharges
  <1>5. accountConcurrency[a] = Cardinality(S) /\ accountConcurrency \in [Accounts -> Nat]
    BY DEF AccountCountsMatch, TypeInv, TypeOK
  <1>6. TrackingOf(r) BY DEF TrackingInv
  <1> HIDE DEF S, T
  <1>7. /\ (r \in S <=> r \in T) => Cardinality(T) = Cardinality(S)
        /\ r \notin S /\ r \in T => Cardinality(T) = Cardinality(S) + 1
        /\ r \in S /\ r \notin T => Cardinality(T) = Decrement(Cardinality(S))
    BY <1>1, <1>2, CountChange
  <1>8. accountConcurrency'[a] = Cardinality(T)
    BY <1>3, <1>4, <1>5, <1>6, <1>7, StepAccountCharge
  <1> QED BY <1>8 DEF T

LEMMA StepAccountUserCounts ==
  ASSUME UniqueIds, TypeInv, TrackingInv, AccountUserCountsMatch, NEW r \in Requests, Step(r)
  PROVE  AccountUserCountsMatch'
  <1> SUFFICES ASSUME NEW a \in Accounts, NEW u \in Users
               PROVE  accountUserConcurrency'[a][u] = Cardinality(AccountUserCharges(a, u)')
    BY DEF AccountUserCountsMatch
  <1> DEFINE S == AccountUserCharges(a, u)
             T == AccountUserCharges(a, u)'
  <1>1. S \in SUBSET Requests /\ T \in SUBSET Requests BY DEF AccountUserCharges
  <1>2. T \ {r} = S \ {r} BY OthersCharges DEF AccountUserCharges
  <1>3. r \in S <=> ChargesAccountUser(r) /\ actualUuid[r] = a /\ UserOf[r] = u
    BY DEF AccountUserCharges
  <1>4. r \in T <=> ChargesAccountUser(r)' /\ actualUuid'[r] = a /\ UserOf[r] = u
    BY DEF AccountUserCharges
  <1>5. /\ accountUserConcurrency[a][u] = Cardinality(S)
        /\ accountUserConcurrency \in [Accounts -> [Users -> Nat]]
    BY DEF AccountUserCountsMatch, TypeInv, TypeOK
  <1>6. TrackingOf(r) BY DEF TrackingInv
  <1> HIDE DEF S, T
  <1>7. /\ (r \in S <=> r \in T) => Cardinality(T) = Cardinality(S)
        /\ r \notin S /\ r \in T => Cardinality(T) = Cardinality(S) + 1
        /\ r \in S /\ r \notin T => Cardinality(T) = Decrement(Cardinality(S))
    BY <1>1, <1>2, CountChange
  <1>8. accountUserConcurrency'[a][u] = Cardinality(T)
    <2>1. CASE /\ ~ChargesAccountUser(r) /\ ChargesAccountUser(r)'
               /\ actualUuid' = actualUuid
               /\ accountUserConcurrency' =
                    [accountUserConcurrency EXCEPT ![actualUuid[r]][UserOf[r]] = @ + 1]
      <3>1. accountUserConcurrency'[a][u] =
              IF a = actualUuid[r] /\ u = UserOf[r] THEN accountUserConcurrency[a][u] + 1
              ELSE accountUserConcurrency[a][u]
        BY <1>5, <2>1, CountMapMapAt
      <3> QED BY <1>3, <1>4, <1>5, <1>7, <2>1, <3>1
    <2>2. CASE /\ ChargesAccountUser(r) /\ ~ChargesAccountUser(r)'
               /\ actualUuid' = actualUuid
               /\ accountUserConcurrency' =
                    [accountUserConcurrency EXCEPT ![actualUuid[r]][UserOf[r]] = Decrement(@)]
      <3>1. accountUserConcurrency'[a][u] =
              IF a = actualUuid[r] /\ u = UserOf[r] THEN Decrement(accountUserConcurrency[a][u])
              ELSE accountUserConcurrency[a][u]
        BY <1>5, <2>2, CountMapMapAt
      <3> QED BY <1>3, <1>4, <1>5, <1>7, <2>2, <3>1
    <2>3. CASE /\ ChargesAccountUser(r) <=> ChargesAccountUser(r)'
               /\ ChargesAccountUser(r) => actualUuid' = actualUuid
               /\ accountUserConcurrency' = accountUserConcurrency
      BY <1>3, <1>4, <1>5, <1>7, <2>3
    <2> QED BY <1>6, <2>1, <2>2, <2>3, StepAccountUserCharge
  <1> QED BY <1>8 DEF T

\* The clean-up: all charged requests are running, and it takes the charges of
\* exactly the requests whose entries it takes.
LEMMA CleanupCounts ==
  ASSUME UniqueIds, TypeInv, TrackingInv, CountersMatchCharges, CleanupStale
  PROVE  CountersMatchCharges'
  <1>1. PICK S \in SUBSET {i \in TraceIds : requestTracking[i] # None} :
          /\ userConcurrency' = [u \in Users |->
               Fewer(userConcurrency[u], Cardinality({i \in S : requestTracking[i].user = u}))]
          /\ accountConcurrency' = [a \in Accounts |->
               Fewer(accountConcurrency[a], Cardinality({i \in S : requestTracking[i].account = a}))]
          /\ accountUserConcurrency' = [a \in Accounts |-> [u \in Users |->
               Fewer(accountUserConcurrency[a][u], Cardinality(
                 {i \in S : requestTracking[i].user = u /\ requestTracking[i].account = a}))]]
          /\ requestTracking' = [i \in TraceIds |-> IF i \in S THEN None ELSE requestTracking[i]]
    BY DEF CleanupStale
  <1> DEFINE Taken == {r \in Requests : RequestId[r] \in S}
  <1>2. pc' = pc /\ actualUuid' = actualUuid /\ \A r \in Requests : Settled(r)
    BY DEF CleanupStale, locals
  <1>3. ASSUME NEW r \in Requests
        PROVE  /\ ChargesUser(r) <=> pc[r] = "serving" /\ Tracked(r)
               /\ ChargesAccount(r) <=> pc[r] = "serving" /\ Tracked(r)
               /\ ChargesAccountUser(r) <=> pc[r] = "serving" /\ Tracked(r)
               /\ ChargesUser(r)' <=> ChargesUser(r) /\ r \notin Taken
               /\ ChargesAccount(r)' <=> ChargesAccount(r) /\ r \notin Taken
               /\ ChargesAccountUser(r)' <=> ChargesAccountUser(r) /\ r \notin Taken
    BY <1>1, <1>2, SlotAssumption DEF Settled, ChargesUser, ChargesAccount, ChargesAccountUser, Tracked
  <1>4. ASSUME NEW r \in Taken
        PROVE  /\ ChargesUser(r) /\ ChargesAccount(r) /\ ChargesAccountUser(r)
               /\ requestTracking[RequestId[r]].user = UserOf[r]
               /\ requestTracking[RequestId[r]].account = actualUuid[r]
    <2>1. TrackingOf(r) BY DEF TrackingInv
    <2>2. Tracked(r) BY DEF Tracked
    <2>3. pc[r] = "serving" /\ requestTracking[RequestId[r]] = EntryOf(r)
      BY <1>2, <2>1, <2>2 DEF TrackingOf, Settled, Tracked, Releasing
    <2> QED BY <1>3, <2>2, <2>3 DEF EntryOf
  <1>5. S = {RequestId[r] : r \in Taken} BY DEF TraceIds
  <1> HIDE DEF Taken
  <1>6. Taken \in SUBSET Requests BY DEF Taken
  <1>7. UserCountsMatch'
    <2> SUFFICES ASSUME NEW u \in Users PROVE userConcurrency'[u] = Cardinality(UserCharges(u)')
      BY DEF UserCountsMatch
    <2> DEFINE Z == {r \in Taken : UserOf[r] = u}
               Y == {i \in S : requestTracking[i].user = u}
    <2>1. Y = {RequestId[r] : r \in Z} BY <1>4, <1>5
    <2>2. Z \in SUBSET UserCharges(u) BY <1>4, <1>6 DEF UserCharges
    <2>3. UserCharges(u)' = UserCharges(u) \ Z BY <1>3 DEF UserCharges
    <2>4. UserCharges(u) \in SUBSET Requests /\ Y \in SUBSET TraceIds BY DEF UserCharges
    <2>5. userConcurrency'[u] = Fewer(userConcurrency[u], Cardinality(Y)) BY <1>1
    <2>6. userConcurrency[u] = Cardinality(UserCharges(u))
      BY DEF CountersMatchCharges, UserCountsMatch
    <2> HIDE DEF Y, Z
    <2> QED BY <2>1, <2>2, <2>3, <2>4, <2>5, <2>6, CountRemoved
  <1>8. AccountCountsMatch'
    <2> SUFFICES ASSUME NEW a \in Accounts PROVE accountConcurrency'[a] = Cardinality(AccountCharges(a)')
      BY DEF AccountCountsMatch
    <2> DEFINE Z == {r \in Taken : actualUuid[r] = a}
               Y == {i \in S : requestTracking[i].account = a}
    <2>1. Y = {RequestId[r] : r \in Z} BY <1>4, <1>5
    <2>2. Z \in SUBSET AccountCharges(a) BY <1>4, <1>6 DEF AccountCharges
    <2>3. AccountCharges(a)' = AccountCharges(a) \ Z BY <1>2, <1>3 DEF AccountCharges
    <2>4. AccountCharges(a) \in SUBSET Requests /\ Y \in SUBSET TraceIds BY DEF AccountCharges
    <2>5. accountConcurrency'[a] = Fewer(accountConcurrency[a], Cardinality(Y)) BY <1>1
    <2>6. accountConcurrency[a] = Cardinality(AccountCharges(a))
      BY DEF CountersMatchCharges, AccountCountsMatch
    <2> HIDE DEF Y, Z
    <2> QED BY <2>1, <2>2, <2>3, <2>4, <2>5, <2>6, CountRemoved
  <1>9. AccountUserCountsMatch'
    <2> SUFFICES ASSUME NEW a \in Accounts, NEW u \in Users
                 PROVE  accountUserConcurrency'[a][u] = Cardinality(AccountUserCharges(a, u)')
      BY DEF AccountUserCountsMatch
    <2> DEFINE Z == {r \in Taken : actualUuid[r] = a /\ UserOf[r] = u}
               Y == {i \in S : requestTracking[i].user = u /\ requestTracking[i].account = a}
    <2>1. Y = {RequestId[r] : r \in Z} BY <1>4, <1>5
    <2>2. Z \in SUBSET AccountUserCharges(a, u) BY <1>4, <1>6 DEF AccountUserCharges
    <2>3. AccountUserCharges(a, u)' = AccountUserCharges(a, u) \ Z
      BY <1>2, <1>3 DEF AccountUserCharges
    <2>4. AccountUserCharges(a, u) \in SUBSET Requests /\ Y \in SUBSET TraceIds
      BY DEF AccountUserCharges
    <2>5. accountUserConcurrency'[a][u] = Fewer(accountUserConcurrency[a][u], Cardinality(Y)) BY <1>1
    <2>6. accountUserConcurrency[a][u] = Cardinality(AccountUserCharges(a, u))
      BY DEF CountersMatchCharges, AccountUserCountsMatch
    <2> HIDE DEF Y, Z
    <2> QED BY <2>1, <2>2, <2>3, <2>4, <2>5, <2>6, CountRemoved
  <1> QED BY <1>7, <1>8, <1>9 DEF CountersMatchCharges

LEMMA NextCounters ==
  ASSUME UniqueIds, TypeInv, TrackingInv, CountersMatchCharges, [Next]_vars
  PROVE  CountersMatchCharges'
  <1>1. ASSUME NEW r \in Requests, Step(r) PROVE CountersMatchCharges'
    BY <1>1, StepUserCounts, StepAccountCounts, StepAccountUserCounts DEF CountersMatchCharges
  <1>2. ASSUME pc' = pc, requestTracking' = requestTracking, actualUuid' = actualUuid, counters' = counters
        PROVE  CountersMatchCharges'
    BY <1>2 DEF CountersMatchCharges, UserCountsMatch, AccountCountsMatch, AccountUserCountsMatch,
                UserCharges, AccountCharges, AccountUserCharges, ChargesUser, ChargesAccount,
                ChargesAccountUser, Tracked, counters
  <1>3. ASSUME NEW a \in Accounts, LeaseLapse(a) PROVE CountersMatchCharges'
    BY <1>2, <1>3 DEF LeaseLapse, locals
  <1>4. CASE UNCHANGED vars BY <1>2, <1>4 DEF vars, locals
  <1> QED BY <1>1, <1>3, <1>4, CleanupCounts DEF Next, Idle

\* The counters are exact: for any number of requests, users and accounts, with
\* unique trace ids, each counter is the number of requests that hold a slot.
THEOREM CountersCorrect == ASSUME UniqueIds PROVE Spec => []CountersMatchCharges
  <1>1. Init => SlotsInv BY InitTypeInv, InitTracking, InitCounters DEF SlotsInv
  <1>2. SlotsInv /\ [Next]_vars => SlotsInv'
    BY UniqueIds, NextTypeInv, NextTracking, NextCounters DEF SlotsInv
  <1>3. SlotsInv => CountersMatchCharges BY DEF SlotsInv
  <1> QED BY <1>1, <1>2, <1>3, PTL DEF Spec

-----------------------------------------------------------------------------
(* The queue lock.                                                         *)

\* The lease of an account is the token of the request that holds the account,
\* and it is running.
LeaseInv ==
  \A r \in Requests :
    pc[r] \in Holding => accountQueueLocks[actualUuid[r]] = [token |-> r, live |-> TRUE]

LockAssumption == UniqueIds /\ QueueLockEnabled /\ ~LeaseMayLapse

LEMMA StepLease ==
  ASSUME LockAssumption, TypeInv, TrackingInv, LeaseInv, NEW r \in Requests, Step(r)
  PROVE  LeaseInv'
  <1> SUFFICES ASSUME NEW q \in Requests, pc'[q] \in Holding
               PROVE  accountQueueLocks'[actualUuid'[q]] = [token |-> q, live |-> TRUE]
    BY DEF LeaseInv
  <1> USE DEF TypeInv, TypeOK, Goto, locals
  <1>1. ASSUME ~TryLock(r), ~ReleaseQueueLock(r)
        PROVE  accountQueueLocks' = accountQueueLocks
    BY <1>1 DEF Step, Admission, Charging, ReleaseSlots, SelectAccount, RejectNoAccount,
         CheckUserLimit, LockBusy, PollAgain, QueueTimeout, ChargeUser, ChargeAccount,
         StartTracking, SwitchCredential, Finish, ReadTracking, ReleaseUser, ReleaseAccount,
         ReleaseAccountUser, Untrack
  <1>2. ASSUME ~TryLock(r)
        PROVE  pc[q] \in Holding /\ actualUuid'[q] = actualUuid[q]
    <2>1. CASE q = r
      BY <1>2, <2>1 DEF LockAssumption, Holding, Step, Admission, Charging, ReleaseSlots,
         SelectAccount, RejectNoAccount, CheckUserLimit, LockBusy, PollAgain, QueueTimeout,
         ChargeUser, ChargeAccount, StartTracking, SwitchCredential, Finish, ReadTracking,
         ReleaseUser, ReleaseAccount, ReleaseAccountUser, ReleaseQueueLock, Untrack
    <2>2. CASE q # r BY <2>2, StepFrame DEF LockAssumption
    <2> QED BY <2>1, <2>2
  <1>3. CASE TryLock(r)
    <2>1. actualUuid' = actualUuid BY <1>3 DEF TryLock
    <2>2. actualUuid[r] \in Accounts BY <1>3 DEF TryLock, Bound, States
    <2>3. CASE q = r BY <1>3, <2>1, <2>2, <2>3 DEF TryLock
    <2>4. CASE q # r
      <3>1. pc[q] \in Holding BY <2>4, StepFrame DEF LockAssumption
      <3>2. accountQueueLocks[actualUuid[q]] = [token |-> q, live |-> TRUE] BY <3>1 DEF LeaseInv
      <3>3. [token |-> q, live |-> TRUE] \in Lease BY DEF Lease
      <3>4. actualUuid[q] # actualUuid[r]
        BY <1>3, <2>4, <3>2, <3>3, SlotAssumption DEF TryLock, LockFree
      <3> QED BY <1>3, <2>1, <3>2, <3>4 DEF TryLock
    <2> QED BY <2>3, <2>4
  <1>4. CASE ReleaseQueueLock(r)
    <2>1. pc[q] \in Holding /\ actualUuid'[q] = actualUuid[q] BY <1>4, <1>2 DEF TryLock, ReleaseQueueLock
    <2>2. q # r BY <1>4 DEF ReleaseQueueLock, Holding
    <2>3. pc[r] \in Holding /\ pc[r] \in Releasing
      BY <1>4 DEF ReleaseQueueLock, Holding, Releasing
    <2>4. tracking[r].account = actualUuid[r] BY <2>3, OwnEntry DEF TrackingInv
    <2>5. /\ accountQueueLocks[actualUuid[q]] = [token |-> q, live |-> TRUE]
          /\ accountQueueLocks[actualUuid[r]] = [token |-> r, live |-> TRUE]
      BY <2>1, <2>3 DEF LeaseInv
    <2>6. actualUuid[q] # actualUuid[r] BY <2>2, <2>5
    <2> QED BY <1>4, <2>1, <2>4, <2>5, <2>6 DEF ReleaseQueueLock
  <1> QED BY <1>1, <1>2, <1>3, <1>4 DEF LeaseInv

LEMMA NextLease ==
  ASSUME LockAssumption, TypeInv, TrackingInv, LeaseInv, [Next]_vars
  PROVE  LeaseInv'
  <1>1. ASSUME NEW r \in Requests, Step(r) PROVE LeaseInv' BY <1>1, StepLease
  <1>2. ASSUME NEW a \in Accounts, LeaseLapse(a) PROVE LeaseInv'
    <2> SUFFICES ASSUME NEW q \in Requests, pc[q] \in Holding
                 PROVE  accountQueueLocks'[actualUuid[q]] = [token |-> q, live |-> TRUE]
      BY <1>2 DEF LeaseInv, LeaseLapse, locals
    <2>1. accountQueueLocks[actualUuid[q]] = [token |-> q, live |-> TRUE] BY DEF LeaseInv
    <2>2. actualUuid[q] # a BY <1>2, <2>1 DEF LeaseLapse, LockAssumption
    <2> QED BY <1>2, <2>1, <2>2 DEF LeaseLapse, TypeInv, TypeOK
  <1>3. ASSUME pc' = pc, accountQueueLocks' = accountQueueLocks, actualUuid' = actualUuid
        PROVE  LeaseInv'
    BY <1>3 DEF LeaseInv
  <1>4. CASE CleanupStale BY <1>3, <1>4 DEF CleanupStale, locals
  <1>5. CASE UNCHANGED vars BY <1>3, <1>5 DEF vars, locals
  <1> QED BY <1>1, <1>2, <1>4, <1>5 DEF Next, Idle

\* Mutual exclusion: while requests finish within their lease, two requests never
\* hold the queue lock of one account, for any number of requests and accounts.
THEOREM LockExcludes == ASSUME UniqueIds PROVE Spec => []QueueLockExclusion
  <1> DEFINE Inv == TypeInv /\ TrackingInv /\ LeaseInv
  <1>1. CASE QueueLockEnabled /\ ~LeaseMayLapse
    <2>1. LockAssumption BY <1>1, UniqueIds DEF LockAssumption
    <2>2. Init => Inv
      <3>1. Init => LeaseInv BY DEF Init, LeaseInv, Holding
      <3> QED BY <3>1, InitTypeInv, InitTracking
    <2>3. Inv /\ [Next]_vars => Inv'
      BY <2>1, UniqueIds, NextTypeInv, NextTracking, NextLease
    <2>4. Inv => QueueLockExclusion
      <3> SUFFICES ASSUME LeaseInv, NEW r \in Requests, NEW s \in Requests,
                          pc[r] \in Holding, pc[s] \in Holding, actualUuid[r] = actualUuid[s]
                   PROVE  r = s
        BY DEF QueueLockExclusion
      <3>1. [token |-> r, live |-> TRUE] = [token |-> s, live |-> TRUE] BY DEF LeaseInv
      <3>2. [token |-> r, live |-> TRUE].token = [token |-> s, live |-> TRUE].token BY <3>1
      <3> QED BY <3>2
    <2> QED BY <2>2, <2>3, <2>4, PTL DEF Spec
  <1>2. CASE ~(QueueLockEnabled /\ ~LeaseMayLapse)
    <2>1. QueueLockExclusion BY <1>2 DEF QueueLockExclusion
    <2> QED BY <2>1, PTL
  <1> QED BY <1>1, <1>2

\* Under the queue lock an account is charged once at most, whatever its limit:
\* exclusion and the exactness of the account counters together.
THEOREM LockLimitsCharges == ASSUME UniqueIds PROVE Spec => []OneChargeUnderQueueLock
  <1>1. TypeInv /\ CountersMatchCharges /\ QueueLockExclusion => OneChargeUnderQueueLock
    <2> SUFFICES ASSUME TypeInv, CountersMatchCharges, QueueLockExclusion,
                        QueueLockEnabled /\ ~LeaseMayLapse, NEW a \in Accounts
                 PROVE  accountConcurrency[a] <= 1
      BY DEF OneChargeUnderQueueLock
    <2> DEFINE S == AccountCharges(a)
    <2>1. accountConcurrency[a] = Cardinality(S) BY DEF CountersMatchCharges, AccountCountsMatch
    <2>2. \A r, s \in S : r = s
      BY DEF QueueLockExclusion, AccountCharges, ChargesAccount, Holding
    <2>3. S = {} \/ \E r : S = {r} BY <2>2
    <2> HIDE DEF S
    <2>4. CASE S = {}
      <3>1. Cardinality(S) = 0 BY <2>4, FS_EmptySet
      <3> QED BY <2>1, <3>1
    <2>5. CASE \E r : S = {r}
      <3>1. Cardinality(S) = 1 BY <2>5, FS_Singleton
      <3> QED BY <2>1, <3>1
    <2> QED BY <2>3, <2>4, <2>5
  <1>2. Spec => []TypeInv BY InitTypeInv, NextTypeInv, PTL DEF Spec
  <1> QED BY <1>1, <1>2, CountersCorrect, LockExcludes, UniqueIds, PTL

\* Until its first switch a request calls the upstream with the account it is charged to.
OnOwnAccount == \A r \in Requests : switches[r] = 0 => upstream[r] = actualUuid[r]

LEMMA StepOnOwnAccount ==
  ASSUME TypeInv, OnOwnAccount, NEW r \in Requests, Step(r)
  PROVE  OnOwnAccount'
  <1> USE DEF TypeInv, TypeOK, OnOwnAccount, locals
  <1>1. CASE SelectAccount(r) BY <1>1 DEF SelectAccount
  <1>2. CASE SwitchCredential(r) BY <1>2 DEF SwitchCredential
  <1>3. ASSUME ~SelectAccount(r), ~SwitchCredential(r)
        PROVE  UNCHANGED <<actualUuid, upstream, switches>>
    BY <1>3 DEF Step, Admission, Charging, ReleaseSlots, RejectNoAccount, CheckUserLimit,
         TryLock, LockBusy, PollAgain, QueueTimeout, ChargeUser, ChargeAccount,
         StartTracking, Finish, ReadTracking, ReleaseUser, ReleaseAccount,
         ReleaseAccountUser, ReleaseQueueLock, Untrack
  <1> QED BY <1>1, <1>2, <1>3

\* With exclusion, only a request that switched can meet another one upstream.
THEOREM SharedOnlyAfterSwitch == ASSUME UniqueIds PROVE Spec => []UpstreamSharedOnlyAfterSwitch
  <1> DEFINE Inv == TypeInv /\ OnOwnAccount
  <1>1. Init => Inv
    <2>1. Init => OnOwnAccount BY DEF Init, OnOwnAccount
    <2> QED BY <2>1, InitTypeInv
  <1>2. Inv /\ [Next]_vars => Inv'
    <2> SUFFICES ASSUME TypeInv, OnOwnAccount, [Next]_vars PROVE OnOwnAccount'
      BY NextTypeInv
    <2>1. ASSUME NEW r \in Requests, Step(r) PROVE OnOwnAccount' BY <2>1, StepOnOwnAccount
    <2>2. ASSUME UNCHANGED locals PROVE OnOwnAccount' BY <2>2 DEF OnOwnAccount, locals
    <2>3. ASSUME NEW a \in Accounts, LeaseLapse(a) PROVE OnOwnAccount' BY <2>2, <2>3 DEF LeaseLapse
    <2>4. CASE CleanupStale BY <2>2, <2>4 DEF CleanupStale
    <2>5. CASE UNCHANGED vars BY <2>2, <2>5 DEF vars
    <2> QED BY <2>1, <2>3, <2>4, <2>5 DEF Next, Idle
  <1>3. TypeInv /\ OnOwnAccount /\ QueueLockExclusion => UpstreamSharedOnlyAfterSwitch
    <2> SUFFICES ASSUME TypeInv, OnOwnAccount, QueueLockExclusion, QueueLockEnabled /\ ~LeaseMayLapse,
                        NEW r \in Requests, NEW s \in Requests, r # s, upstream[r] = upstream[s],
                        pc[r] = "serving", pc[s] = "serving", ~(switches[r] > 0), ~(switches[s] > 0)
                 PROVE  FALSE
      BY DEF UpstreamSharedOnlyAfterSwitch
    <2>1. switches[r] = 0 /\ switches[s] = 0 BY DEF TypeInv, TypeOK
    <2>2. actualUuid[r] = actualUuid[s] BY <2>1 DEF OnOwnAccount
    <2> QED BY <2>2 DEF QueueLockExclusion, Holding
  <1> QED BY <1>1, <1>2, <1>3, LockExcludes, UniqueIds, PTL DEF Spec

\* A running lease changes only by its own holder's release or by lapsing.
THEOREM LeaseSafety == ASSUME UniqueIds PROVE Spec => LeaseOnlyRemovedByOwner
  <1>1. ASSUME TypeInv, TrackingInv, [Next]_vars, NEW a \in Accounts PROVE LeaseChange(a)
    <2> USE <1>1 DEF TypeInv, TypeOK, LeaseChange
    <2>1. ASSUME NEW r \in Requests, TryLock(r) PROVE LeaseChange(a)
      <3>1. CASE a = actualUuid[r]
        <4>1. CASE accountQueueLocks[a] = None BY <4>1
        <4>2. CASE accountQueueLocks[a] # None /\ ~accountQueueLocks[a].live BY <4>2
        <4>3. CASE accountQueueLocks[a] # None /\ accountQueueLocks[a].live
          <5>1. accountQueueLocks[a].token = r BY <2>1, <3>1, <4>3 DEF TryLock, LockFree
          <5>2. accountQueueLocks[a] = [token |-> r, live |-> TRUE] BY <4>3, <5>1 DEF Lease
          <5> QED BY <2>1, <3>1, <5>2 DEF TryLock
        <4> QED BY <4>1, <4>2, <4>3
      <3>2. CASE a # actualUuid[r] BY <2>1, <3>2 DEF TryLock
      <3> QED BY <3>1, <3>2
    <2>2. ASSUME NEW r \in Requests, ReleaseQueueLock(r) PROVE LeaseChange(a)
      <3>1. pc[r] = "releaseLock" BY <2>2 DEF ReleaseQueueLock, Goto
      <3>2. QueueLockEnabled => tracking[r].token = r
        BY <3>1, OwnEntry DEF TrackingInv, Releasing
      <3>3. ~QueueLockEnabled => tracking[r].token = None
        BY <3>1, OwnEntry DEF TrackingInv, Releasing
      <3>4. accountQueueLocks[a] # None => accountQueueLocks[a].token \in Requests BY DEF Lease
      <3>5. None \notin Requests BY SlotAssumption
      <3> QED BY <2>2, <3>1, <3>2, <3>3, <3>4, <3>5, SlotAssumption DEF ReleaseQueueLock
    <2>3. ASSUME NEW b \in Accounts, LeaseLapse(b) PROVE LeaseChange(a)
      BY <2>3 DEF LeaseLapse
    <2>4. ASSUME accountQueueLocks' = accountQueueLocks PROVE LeaseChange(a) BY <2>4
    <2>5. ASSUME NEW r \in Requests, Step(r), ~TryLock(r), ~ReleaseQueueLock(r)
          PROVE  accountQueueLocks' = accountQueueLocks
      BY <2>5 DEF Step, Admission, Charging, ReleaseSlots, SelectAccount, RejectNoAccount,
         CheckUserLimit, LockBusy, PollAgain, QueueTimeout, ChargeUser, ChargeAccount,
         StartTracking, SwitchCredential, Finish, ReadTracking, ReleaseUser, ReleaseAccount,
         ReleaseAccountUser, Untrack
    <2>6. CASE CleanupStale BY <2>4, <2>6 DEF CleanupStale
    <2>7. CASE UNCHANGED vars BY <2>4, <2>7 DEF vars
    <2> QED BY <2>1, <2>2, <2>3, <2>4, <2>5, <2>6, <2>7 DEF Next, Idle
  <1>2. TypeInv /\ TrackingInv /\ [Next]_vars => [\A a \in Accounts : LeaseChange(a)]_vars
    BY <1>1
  <1>3. Spec => [](TypeInv /\ TrackingInv)
    <2>1. TypeInv /\ TrackingInv /\ [Next]_vars => (TypeInv /\ TrackingInv)'
      BY UniqueIds, NextTypeInv, NextTracking
    <2> QED BY <2>1, InitTypeInv, InitTracking, PTL DEF Spec
  <1> QED BY <1>2, <1>3, PTL DEF Spec, LeaseOnlyRemovedByOwner

-----------------------------------------------------------------------------
(* Nothing is held when every request is over.                             *)

\* A request in the queue is there for the lock; a running request has its entry,
\* and a lease, running or lapsed, belongs to a request that will release it,
\* unless the clean-up may take entries of running requests.
LeaseOwned ==
  /\ \A r \in Requests : pc[r] \in {"queueing", "polling"} => QueueLockEnabled
  /\ \A a \in Accounts : accountQueueLocks[a] # None => QueueLockEnabled
  /\ ~MayOutliveCleanup =>
       /\ \A r \in Requests : pc[r] \in {"serving", "releasing"} => Tracked(r)
       /\ \A a \in Accounts : accountQueueLocks[a] # None =>
            LET holder == accountQueueLocks[a].token IN
            pc[holder] \in Holding /\ actualUuid[holder] = a

\* A step of one request keeps its place in the queue and its entry in order.
LEMMA StepPlace ==
  ASSUME TypeInv, TrackingInv, LeaseOwned, NEW r \in Requests, Step(r)
  PROVE  /\ pc'[r] \in {"queueing", "polling"} => QueueLockEnabled
         /\ ~MayOutliveCleanup /\ pc'[r] \in {"serving", "releasing"} => Tracked(r)'
  <1> USE SlotAssumption DEF TypeInv, TypeOK, Goto, locals
  <1>1. pc'[r] \in {"queueing", "polling"} => QueueLockEnabled
    BY DEF LeaseOwned, Step, Admission, Charging, ReleaseSlots, SelectAccount, RejectNoAccount,
       CheckUserLimit, TryLock, LockBusy, PollAgain, QueueTimeout, ChargeUser, ChargeAccount,
       StartTracking, SwitchCredential, Finish, ReadTracking, ReleaseUser, ReleaseAccount,
       ReleaseAccountUser, ReleaseQueueLock, Untrack
  <1>2. ASSUME ~MayOutliveCleanup, pc'[r] \in {"serving", "releasing"} PROVE Tracked(r)'
    <2>1. CASE StartTracking(r)
      <3>1. requestTracking'[RequestId[r]] = EntryOf(r) BY <2>1 DEF StartTracking, EntryOf
      <3>2. EntryOf(r) \in Entry BY <2>1 DEF StartTracking, EntryOf, Entry, Bound, States, Holding
      <3> QED BY <3>1, <3>2 DEF Tracked
    <2>2. CASE SwitchCredential(r) \/ Finish(r)
      BY <1>2, <2>2 DEF LeaseOwned, SwitchCredential, Finish, Tracked
    <2> QED BY <1>2, <2>1, <2>2 DEF Step, Admission, Charging, ReleaseSlots, SelectAccount,
         RejectNoAccount, CheckUserLimit, TryLock, LockBusy, PollAgain, QueueTimeout, ChargeUser,
         ChargeAccount, ReadTracking, ReleaseUser, ReleaseAccount, ReleaseAccountUser,
         ReleaseQueueLock, Untrack
  <1> QED BY <1>1, <1>2

\* A request that holds its account goes on holding it until it releases the lock.
LEMMA StepHolds ==
  ASSUME TypeInv, TrackingInv, LeaseOwned, QueueLockEnabled, ~MayOutliveCleanup,
         NEW r \in Requests, Step(r), ~ReleaseQueueLock(r), pc[r] \in Holding
  PROVE  pc'[r] \in Holding /\ actualUuid'[r] = actualUuid[r]
  <1> USE SlotAssumption DEF TypeInv, TypeOK, Goto, locals
  <1>1. CASE ReadTracking(r) BY <1>1 DEF ReadTracking, LeaseOwned, Tracked, Holding
  <1>2. CASE ReleaseAccountUser(r)
    <2>1. tracking[r].token = r
      BY <1>2, OwnEntry DEF ReleaseAccountUser, Releasing, TrackingInv
    <2> QED BY <1>2, <2>1 DEF ReleaseAccountUser, Holding
  <1> QED BY <1>1, <1>2 DEF Holding, Step, Admission, Charging, ReleaseSlots, SelectAccount,
       RejectNoAccount, CheckUserLimit, TryLock, LockBusy, PollAgain, QueueTimeout, ChargeUser,
       ChargeAccount, StartTracking, SwitchCredential, Finish, ReleaseUser, ReleaseAccount, Untrack

LEMMA StepOwned ==
  ASSUME UniqueIds, TypeInv, TrackingInv, LeaseOwned, NEW r \in Requests, Step(r)
  PROVE  LeaseOwned'
  <1> USE DEF TypeInv, TypeOK, Goto, locals
  <1>1. ASSUME NEW q \in Requests
        PROVE  /\ pc'[q] \in {"queueing", "polling"} => QueueLockEnabled
               /\ ~MayOutliveCleanup /\ pc'[q] \in {"serving", "releasing"} => Tracked(q)'
    <2>1. CASE q = r BY <2>1, StepPlace
    <2>2. CASE q # r BY <2>2, StepFrame DEF LeaseOwned, Tracked
    <2> QED BY <2>1, <2>2
  <1>2. ASSUME ~TryLock(r), ~ReleaseQueueLock(r)
        PROVE  accountQueueLocks' = accountQueueLocks
    BY <1>2 DEF Step, Admission, Charging, ReleaseSlots, SelectAccount, RejectNoAccount,
         CheckUserLimit, LockBusy, PollAgain, QueueTimeout, ChargeUser, ChargeAccount,
         StartTracking, SwitchCredential, Finish, ReadTracking, ReleaseUser, ReleaseAccount,
         ReleaseAccountUser, Untrack
  <1>3. ASSUME NEW a \in Accounts, accountQueueLocks'[a] # None
        PROVE  /\ QueueLockEnabled
               /\ ~MayOutliveCleanup =>
                    /\ pc'[accountQueueLocks'[a].token] \in Holding
                    /\ actualUuid'[accountQueueLocks'[a].token] = a
    <2>1. CASE TryLock(r) /\ a = actualUuid[r]
      <3>1. accountQueueLocks'[a] = [token |-> r, live |-> TRUE] BY <2>1 DEF TryLock
      <3>2. QueueLockEnabled BY <2>1 DEF TryLock, LeaseOwned
      <3> QED BY <2>1, <3>1, <3>2 DEF TryLock, Holding
    <2>2. CASE ~(TryLock(r) /\ a = actualUuid[r])
      <3> DEFINE holder == accountQueueLocks[a].token
      <3>1. accountQueueLocks'[a] = accountQueueLocks[a]
        BY <1>2, <1>3, <2>2, SlotAssumption DEF TryLock, ReleaseQueueLock
      <3>2. accountQueueLocks[a] \in Lease /\ holder \in Requests BY <1>3, <3>1 DEF Lease
      <3>3. QueueLockEnabled BY <1>3, <3>1 DEF LeaseOwned
      <3>4. ASSUME ~MayOutliveCleanup PROVE pc'[holder] \in Holding /\ actualUuid'[holder] = a
        <4>1. pc[holder] \in Holding /\ actualUuid[holder] = a BY <1>3, <3>1, <3>4 DEF LeaseOwned
        <4>2. CASE holder # r BY <3>2, <4>1, <4>2, StepFrame
        <4>3. CASE holder = r /\ ~ReleaseQueueLock(r) BY <3>3, <3>4, <4>1, <4>3, StepHolds
        <4>4. CASE holder = r /\ ReleaseQueueLock(r)
          <5>1. tracking[r].account = a /\ tracking[r].token = r
            BY <3>3, <4>1, <4>4, OwnEntry DEF ReleaseQueueLock, Releasing, TrackingInv
          <5> QED BY <1>3, <3>1, <4>4, <5>1 DEF ReleaseQueueLock
        <4> QED BY <4>2, <4>3, <4>4
      <3> QED BY <3>1, <3>3, <3>4
    <2> QED BY <2>1, <2>2
  <1> QED BY <1>1, <1>3 DEF LeaseOwned

LEMMA NextOwned ==
  ASSUME UniqueIds, TypeInv, TrackingInv, LeaseOwned, [Next]_vars
  PROVE  LeaseOwned'
  <1>1. ASSUME NEW r \in Requests, Step(r) PROVE LeaseOwned' BY <1>1, StepOwned
  <1>2. ASSUME NEW a \in Accounts, LeaseLapse(a) PROVE LeaseOwned'
    <2>1. \A b \in Accounts : /\ accountQueueLocks'[b] # None => accountQueueLocks[b] # None
                              /\ accountQueueLocks'[b].token = accountQueueLocks[b].token
      BY <1>2 DEF LeaseLapse, TypeInv, TypeOK
    <2> QED BY <1>2, <2>1 DEF LeaseLapse, LeaseOwned, Tracked, locals
  <1>3. CASE CleanupStale BY <1>3 DEF CleanupStale, LeaseOwned, locals
  <1>4. CASE UNCHANGED vars BY <1>4 DEF LeaseOwned, Tracked, vars, locals
  <1> QED BY <1>1, <1>2, <1>3, <1>4 DEF Next, Idle

\* With unique trace ids: once every request is over, whatever lapsed or was
\* cleaned up on the way, no counter, tracking entry or lease is left, except a
\* lease whose entry the clean-up took (the safety half of EventuallyDrained).
THEOREM NothingLeftBehind == ASSUME UniqueIds PROVE Spec => []NothingHeldWhenIdle
  <1> DEFINE Over == \A r \in Requests : pc[r] \in {"done", "rejected"}
  <1>1. SlotsInv /\ LeaseOwned => NothingHeldWhenIdle
    <2> SUFFICES ASSUME SlotsInv, LeaseOwned, Over PROVE NothingHeldWhenIdle
      BY DEF NothingHeldWhenIdle, SlotsFreeWhenIdle
    <2>1. \A r \in Requests : ~Tracked(r)
      BY DEF SlotsInv, TrackingInv, TrackingOf, Releasing, Tracked
    <2>2. \A r \in Requests : ~ChargesUser(r) /\ ~ChargesAccount(r) /\ ~ChargesAccountUser(r)
      BY DEF ChargesUser, ChargesAccount, ChargesAccountUser
    <2>3. /\ \A u \in Users : UserCharges(u) = {}
          /\ \A a \in Accounts : AccountCharges(a) = {}
          /\ \A a \in Accounts, u \in Users : AccountUserCharges(a, u) = {}
      BY <2>2 DEF UserCharges, AccountCharges, AccountUserCharges
    <2>4. SlotsFreeWhenIdle
      <3>0. Cardinality({}) = 0 BY FS_EmptySet
      <3>1. \A u \in Users : userConcurrency[u] = 0
        BY <2>3, <3>0, Zenon DEF SlotsInv, CountersMatchCharges, UserCountsMatch
      <3>2. \A a \in Accounts : accountConcurrency[a] = 0
        BY <2>3, <3>0, Zenon DEF SlotsInv, CountersMatchCharges, AccountCountsMatch
      <3>3. \A a \in Accounts, u \in Users : accountUserConcurrency[a][u] = 0
        BY <2>3, <3>0, Zenon DEF SlotsInv, CountersMatchCharges, AccountUserCountsMatch
      <3> QED BY <3>1, <3>2, <3>3, Zenon DEF SlotsFreeWhenIdle
    <2>5. \A i \in TraceIds : requestTracking[i] = None BY <2>1 DEF Tracked, TraceIds
    <2>6. \A a \in Accounts : accountQueueLocks[a] # None => MayOutliveCleanup
      <3> SUFFICES ASSUME NEW a \in Accounts, accountQueueLocks[a] # None, ~MayOutliveCleanup
                   PROVE  FALSE
        OBVIOUS
      <3>1. accountQueueLocks[a].token \in Requests BY DEF SlotsInv, TypeInv, TypeOK, Lease
      <3> QED BY <3>1 DEF LeaseOwned, Holding
    <2> QED BY <2>4, <2>5, <2>6 DEF NothingHeldWhenIdle
  <1>2. Init => SlotsInv /\ LeaseOwned
    <2>1. Init => LeaseOwned BY DEF Init, LeaseOwned
    <2> QED BY <2>1, InitTypeInv, InitTracking, InitCounters DEF SlotsInv
  <1>3. SlotsInv /\ LeaseOwned /\ [Next]_vars => SlotsInv' /\ LeaseOwned'
    BY UniqueIds, NextTypeInv, NextTracking, NextCounters, NextOwned DEF SlotsInv
  <1> QED BY <1>1, <1>2, <1>3, PTL DEF Spec

-----------------------------------------------------------------------------
(* RequestSlots implements AccountLease.                                    *)

\* What a step of r does to the mapped state: nothing to the other requests.
LEMMA MapFrame ==
  ASSUME TypeInv, UniqueIds, NEW r \in Requests, Step(r), NEW q \in Requests, q # r
  PROVE  /\ HeldAccount'[q] = HeldAccount[q]
         /\ q \in Answered' <=> q \in Answered
  <1>1. pc'[q] = pc[q] /\ actualUuid'[q] = actualUuid[q] BY StepFrame
  <1> QED BY <1>1 DEF HeldAccount, Answered

\* A step that leaves r in the same phase is invisible.
LEMMA InvisibleStep ==
  ASSUME TypeInv, UniqueIds, NEW r \in Requests, Step(r),
         HeldAccount'[r] = HeldAccount[r], r \in Answered' <=> r \in Answered
  PROVE  UNCHANGED Promised!vars
  <1>1. \A q \in Requests : HeldAccount'[q] = HeldAccount[q] BY MapFrame
  <1>2. \A q \in Requests : q \in Answered' <=> q \in Answered BY MapFrame
  <1>3. HeldAccount' = HeldAccount BY <1>1 DEF HeldAccount
  <1>4. Answered' = Answered BY <1>2 DEF Answered
  <1> QED BY <1>3, <1>4 DEF Promised!vars

\* The new value of a mapping that changes for one request only.
LEMMA HeldExcept ==
  ASSUME TypeInv, UniqueIds, NEW r \in Requests, Step(r)
  PROVE  HeldAccount' = [HeldAccount EXCEPT ![r] = HeldAccount'[r]]
  <1>1. \A q \in Requests : q # r => HeldAccount'[q] = HeldAccount[q] BY MapFrame
  <1> DEFINE H == HeldAccount
             N == HeldAccount'
  <1>2. H = [q \in Requests |-> H[q]] /\ N = [q \in Requests |-> N[q]] BY DEF HeldAccount
  <1> HIDE DEF H, N
  <1>3. N = [H EXCEPT ![r] = N[r]] BY <1>1, <1>2 DEF H, N
  <1> QED BY <1>3 DEF H, N

LEMMA AnsweredNow ==
  ASSUME TypeInv, UniqueIds, NEW r \in Requests, Step(r), r \in Answered'
  PROVE  Answered' = Answered \cup {r}
  <1>1. \A q \in Requests : q # r => (q \in Answered' <=> q \in Answered) BY MapFrame
  <1>2. Answered \subseteq Requests /\ Answered' \subseteq Requests BY DEF Answered
  <1> QED BY <1>1, <1>2

\* The acquisition of the lock is a grant: whoever held the account would own a
\* running lease of it.
LEMMA GrantStep ==
  ASSUME LockAssumption, TypeInv, TrackingInv, LeaseInv, NEW r \in Requests, TryLock(r)
  PROVE  Promised!Grant(r)
  <1> DEFINE a == actualUuid[r]
  <1> USE DEF TypeInv, TypeOK
  <1>1. Step(r) BY DEF Step, Admission
  <1>2. a \in Accounts BY DEF TryLock, Goto, Bound, States
  <1>3. pc[r] = "queueing" /\ pc'[r] = "charging" /\ actualUuid' = actualUuid
    BY DEF TryLock, Goto, locals
  <1>4. HeldAccount[r] = None /\ r \notin Answered BY <1>3 DEF HeldAccount, Answered, Holding
  <1>5. HeldAccount'[r] = a BY <1>3 DEF HeldAccount, Holding
  <1>6. ASSUME NEW s \in Requests, HeldAccount[s] = a PROVE FALSE
    <2>1. pc[s] \in Holding /\ actualUuid[s] = a
      BY <1>2, <1>6, SlotAssumption DEF HeldAccount
    <2>2. accountQueueLocks[a] = [token |-> s, live |-> TRUE] BY <2>1 DEF LeaseInv
    <2>3. [token |-> s, live |-> TRUE] \in Lease BY DEF Lease
    <2>4. LockFree(a, r) BY DEF TryLock
    <2>5. accountQueueLocks[a] # None BY <2>2, <2>3, SlotAssumption
    <2>6. accountQueueLocks[a].live /\ accountQueueLocks[a].token = s BY <2>2
    <2>7. s = r BY <2>4, <2>5, <2>6 DEF LockFree
    <2> QED BY <1>3, <2>1, <2>7 DEF Holding
  <1>7. HeldAccount' = [HeldAccount EXCEPT ![r] = a]
    BY <1>1, <1>5, HeldExcept DEF LockAssumption
  <1>8. Answered' = Answered
    <2>1. r \notin Answered' BY <1>3 DEF Answered
    <2>2. \A q \in Requests : q # r => (q \in Answered' <=> q \in Answered)
      BY <1>1, MapFrame DEF LockAssumption
    <2>3. \A q \in Requests : q \in Answered' <=> q \in Answered BY <1>4, <2>1, <2>2
    <2> QED BY <2>3 DEF Answered
  <1> QED BY <1>2, <1>4, <1>6, <1>7, <1>8 DEF Promised!Grant, Promised!Waiting

LEMMA RefuseStep ==
  ASSUME UniqueIds, TypeInv, NEW r \in Requests, Step(r), pc[r] \notin Holding,
         r \notin Answered, pc'[r] = "rejected"
  PROVE  Promised!Refuse(r)
  <1>1. HeldAccount[r] = None BY DEF HeldAccount
  <1>2. HeldAccount'[r] = None BY DEF HeldAccount, Holding
  <1>3. Answered' = Answered \cup {r} BY AnsweredNow DEF Answered
  <1>4. \A q \in Requests : HeldAccount'[q] = HeldAccount[q] BY <1>1, <1>2, MapFrame
  <1>5. HeldAccount' = HeldAccount BY <1>4 DEF HeldAccount
  <1> QED BY <1>1, <1>3, <1>5 DEF Promised!Refuse, Promised!Waiting

LEMMA ReturnStep ==
  ASSUME UniqueIds, TypeInv, NEW r \in Requests, Step(r), pc[r] \in Holding,
         pc'[r] \in {"untracking", "done"}
  PROVE  Promised!Return(r)
  <1>1. actualUuid[r] \in Accounts BY DEF TypeInv, TypeOK, Bound, Holding, States
  <1>2. HeldAccount[r] # None BY <1>1, SlotAssumption DEF HeldAccount
  <1>3. HeldAccount'[r] = None BY DEF HeldAccount, Holding
  <1>4. HeldAccount' = [HeldAccount EXCEPT ![r] = None] BY <1>3, HeldExcept
  <1>5. Answered' = Answered \cup {r} BY AnsweredNow DEF Answered
  <1> QED BY <1>2, <1>4, <1>5 DEF Promised!Return

\* The phases of a request that is neither answered nor a holder.
LEMMA StepSimulates ==
  ASSUME LockAssumption, TypeInv, TrackingInv, LeaseInv, NEW r \in Requests, Step(r)
  PROVE  [Promised!Next]_(Promised!vars)
  <1> USE DEF TypeInv, TypeOK, Goto
  <1>1. CASE TryLock(r) BY <1>1, GrantStep DEF Promised!Next
  <1>2. CASE RejectNoAccount(r) \/ CheckUserLimit(r) \/ QueueTimeout(r)
    <2>1. /\ pc[r] \in {"selecting", "checking", "polling"}
          /\ pc'[r] \in {"rejected", "queueing"}
          /\ actualUuid' = actualUuid
      BY <1>2 DEF RejectNoAccount, CheckUserLimit, QueueTimeout, locals, LockAssumption
    <2>2. CASE pc'[r] = "rejected"
      <3>1. Promised!Refuse(r)
        BY <2>1, <2>2, RefuseStep DEF Holding, Answered, LockAssumption
      <3> QED BY <3>1 DEF Promised!Next
    <2>3. CASE pc'[r] = "queueing"
      <3>1. HeldAccount'[r] = HeldAccount[r] /\ r \notin Answered /\ r \notin Answered'
        BY <2>1, <2>3 DEF HeldAccount, Answered, Holding
      <3> QED BY <3>1, InvisibleStep DEF LockAssumption
    <2> QED BY <2>1, <2>2, <2>3
  <1>3. CASE SelectAccount(r) \/ LockBusy(r) \/ PollAgain(r)
    <2>1. /\ pc[r] \in {"selecting", "queueing", "polling"}
          /\ pc'[r] \in {"checking", "polling", "queueing"}
      BY <1>3 DEF SelectAccount, LockBusy, PollAgain
    <2>2. HeldAccount'[r] = HeldAccount[r] /\ r \notin Answered /\ r \notin Answered'
      BY <2>1 DEF HeldAccount, Answered, Holding
    <2> QED BY <2>2, InvisibleStep DEF LockAssumption
  <1>4. CASE \/ Charging(r) \/ SwitchCredential(r) \/ Finish(r)
             \/ ReleaseUser(r) \/ ReleaseAccount(r)
    <2>1. /\ pc[r] \in Holding /\ pc'[r] \in Holding
          /\ actualUuid' = actualUuid
      BY <1>4 DEF Charging, ChargeUser, ChargeAccount, StartTracking, SwitchCredential,
         Finish, ReleaseUser, ReleaseAccount, Holding, locals
    <2>2. HeldAccount'[r] = HeldAccount[r] /\ r \notin Answered /\ r \notin Answered'
      BY <2>1 DEF HeldAccount, Answered, Holding
    <2> QED BY <2>2, InvisibleStep DEF LockAssumption
  <1>5. CASE ReadTracking(r) \/ ReleaseAccountUser(r)
    <2>1. /\ pc[r] \in {"releasing", "releaseAccountUser"}
          /\ pc'[r] \in {"releaseUser", "releaseLock", "untracking", "done"}
          /\ actualUuid' = actualUuid
      BY <1>5 DEF ReadTracking, ReleaseAccountUser, locals
    <2>2. CASE pc'[r] \in {"releaseUser", "releaseLock"}
      <3>1. HeldAccount'[r] = HeldAccount[r] /\ r \notin Answered /\ r \notin Answered'
        BY <2>1, <2>2 DEF HeldAccount, Answered, Holding
      <3> QED BY <3>1, InvisibleStep DEF LockAssumption
    <2>3. CASE pc'[r] \in {"untracking", "done"}
      <3>1. Promised!Return(r) BY <2>1, <2>3, ReturnStep DEF Holding, LockAssumption
      <3> QED BY <3>1 DEF Promised!Next
    <2> QED BY <2>1, <2>2, <2>3
  <1>6. CASE ReleaseQueueLock(r)
    <2>1. pc[r] = "releaseLock" /\ pc'[r] = "untracking" BY <1>6 DEF ReleaseQueueLock
    <2>2. Promised!Return(r) BY <2>1, ReturnStep DEF Holding, LockAssumption
    <2> QED BY <2>2 DEF Promised!Next
  <1>7. CASE Untrack(r)
    <2>1. pc[r] = "untracking" /\ pc'[r] = "done" BY <1>7 DEF Untrack
    <2>2. HeldAccount'[r] = HeldAccount[r] /\ r \in Answered /\ r \in Answered'
      BY <2>1 DEF HeldAccount, Answered, Holding
    <2> QED BY <2>2, InvisibleStep DEF LockAssumption
  <1> QED BY <1>1, <1>2, <1>3, <1>4, <1>5, <1>6, <1>7
          DEF Step, Admission, ReleaseSlots

\* Every behaviour of the handler and the limiter, seen through the mapping, is a
\* behaviour of AccountLease, for any number of requests, users and accounts.
THEOREM LeaseRefinement ==
  ASSUME UniqueIds, QueueLockEnabled, ~LeaseMayLapse
  PROVE  Spec => ImplementsAccountLease
  <1> DEFINE Inv == TypeInv /\ TrackingInv /\ LeaseInv
  <1>1. LockAssumption BY UniqueIds, QueueLockEnabled, ~LeaseMayLapse DEF LockAssumption
  <1>2. Init => Inv
    <2>1. Init => LeaseInv BY DEF Init, LeaseInv, Holding
    <2> QED BY <2>1, InitTypeInv, InitTracking
  <1>3. Inv /\ [Next]_vars => Inv'
    BY <1>1, UniqueIds, NextTypeInv, NextTracking, NextLease
  <1>4. Init => Promised!Init
    BY DEF Init, Promised!Init, HeldAccount, Answered, Holding
  <1>5. Inv /\ [Next]_vars => [Promised!Next]_(Promised!vars)
    <2> SUFFICES ASSUME Inv, [Next]_vars PROVE [Promised!Next]_(Promised!vars) OBVIOUS
    <2>1. ASSUME NEW r \in Requests, Step(r) PROVE [Promised!Next]_(Promised!vars)
      BY <1>1, <2>1, StepSimulates
    <2>2. ASSUME pc' = pc, actualUuid' = actualUuid PROVE UNCHANGED Promised!vars
      BY <2>2 DEF Promised!vars, HeldAccount, Answered
    <2>3. ASSUME NEW a \in Accounts, LeaseLapse(a) PROVE UNCHANGED Promised!vars
      BY <2>2, <2>3 DEF LeaseLapse, locals
    <2>4. CASE CleanupStale BY <2>2, <2>4 DEF CleanupStale, locals
    <2>5. CASE UNCHANGED vars BY <2>2, <2>5 DEF vars, locals
    <2> QED BY <2>1, <2>3, <2>4, <2>5 DEF Next, Idle
  <1>6. Spec => Promised!Spec BY <1>2, <1>3, <1>4, <1>5, PTL DEF Spec, Promised!Spec
  <1> QED BY <1>6 DEF ImplementsAccountLease
=============================================================================
