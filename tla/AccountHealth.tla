---------------------------- MODULE AccountHealth ----------------------------
(***************************************************************************)
(* The health of one account: its row in the providers table, which holds  *)
(* the status twice (is_healthy and scheduled_recovery_time in columns,    *)
(* relayState and relayStateRecoverAt inside the credentials), and the     *)
(* tasks that report on it.  Every report reads the row, decides, writes   *)
(* the columns, then writes both copies; the tasks of all workers          *)
(* interleave between those steps, and a worker may crash there.           *)
(***************************************************************************)
EXTENDS Integers

CONSTANTS
  Tasks,          \* requests, usage refreshes and selections at work on the account
  MaxErrors,      \* maxErrorCount
  RecoveryDelay,  \* of a recoverable 403, in minutes
  QuotaDelays,    \* to the reset of a quota, in minutes
  MaxReports, LastReport, MaxCrashes, MaxTime  \* bounds

NoTime == 0  \* a date column that is NULL; the clock starts at 1

ASSUME AccountAssumption ==
  /\ MaxErrors \in Nat \ {0} /\ RecoveryDelay \in Nat
  /\ QuotaDelays \subseteq Nat
  /\ MaxReports \in Nat /\ LastReport \in Nat /\ MaxCrashes \in Nat /\ MaxTime \in Nat

VARIABLES
  row,     \* the account's row
  task,    \* what each task is doing, and what it decided to write when it read the row
  now,     \* the clock, in minutes
  reports, \* how many outcomes were reported so far
  torn     \* how many tasks crashed between their two writes

vars == <<row, task, now, reports, torn>>

Errors == {"failure", "permanent"}  \* "permanent": 401 and suspended, which only
Messages == Errors \cup {"none"}    \* the scheduled recovery forgives

\* "cooldown" stands for overloaded too, and "unhealthy" for auth_invalid and blocked:
\* no condition tells these apart.
RelayStates == {"healthy", "unhealthy", "cooldown", "deleted"}

\* inferRelayState: rate limits, quotas and overload cool down, with or without an
\* end; 401 and 403 do not, whether they have an end or none (a message that speaks
\* of several is taken for the first of them).
Inferred(error) == IF error = "failure" THEN {"unhealthy", "cooldown"} ELSE {"unhealthy"}

Idle == [phase |-> "idle", source |-> "none", first |-> [life |-> "keep", healthy |-> TRUE,
         errors |-> 0, message |-> "none", schedule |-> NoTime], relay |-> "healthy"]

Init ==
  /\ row = [healthy |-> TRUE, deleted |-> FALSE, errors |-> 0, lastError |-> NoTime,
            message |-> "none", schedule |-> NoTime, relay |-> "healthy", recover |-> NoTime]
  /\ task = [t \in Tasks |-> Idle]
  /\ now = 1 /\ reports = 0 /\ torn = 0

-----------------------------------------------------------------------------
(* What a task decides on reading the row: its first write (columns only)  *)
(* and the relay state of its second write.  A first write that keeps the  *)
(* account healthy after an error is not followed by a second one.         *)

Failed(life, errors, message, schedule) ==
  [life |-> life, healthy |-> FALSE, errors |-> errors, message |-> message, schedule |-> schedule]

Decide(t, source, first, relay) ==
  task' = [task EXCEPT ![t] = [phase |-> "deciding", source |-> source, first |-> first, relay |-> relay]]

\* Mutant of Decayed: no Math.max(0, ...).
DecayedBelowZero == row.errors - (now - row.lastError)

\* One error is forgiven for every minute since the last one.
Decayed ==
  IF row.lastError = NoTime \/ row.errors < now - row.lastError THEN 0
  ELSE row.errors - (now - row.lastError)

ErrorCount == Decayed + 1

\* Mutant of RecoverAt: no fall-back to the column.
RecoverAtByRelayState == IF row.recover # NoTime THEN row.recover ELSE MaxTime + 1

\* relayStateRecoverAt || scheduled_recovery_time; NULL in both is never in the future.
RecoverAt == IF row.recover # NoTime THEN row.recover ELSE row.schedule

\* A running cooldown that ends no earlier is left alone.
CoolsUntil(at) ==
  ~row.healthy /\ row.relay = "cooldown" /\ RecoverAt > now /\ RecoverAt >= at

\* The errors that reach markProviderUnhealthy are not temporary ones: those return
\* early.  The relay state, which is written from the threshold on, may be a
\* cooldown, but it has no end.
MarkProviderUnhealthy(t) ==
  /\ ~row.deleted
  /\ \E error \in Errors : \E relay \in Inferred(error) :
       /\ ErrorCount < MaxErrors => relay = "unhealthy"
       /\ Decide(t, "request", [Failed("keep", ErrorCount, error, NoTime)
                                  EXCEPT !.healthy = ErrorCount < MaxErrors], relay)

MarkProviderDeleted(t) ==
  /\ ~row.deleted
  /\ Decide(t, "request", Failed("delete", MaxErrors, "permanent", NoTime), "deleted")

\* Authentication errors; a 403 cools down, and a permanent one goes to
\* markProviderDeleted.
MarkProviderUnhealthyImmediately(t) ==
  /\ ~row.deleted
  /\ \/ \E error \in Errors : \E relay \in Inferred(error) :
          Decide(t, "request", Failed("keep", MaxErrors, error, NoTime), relay)
     \/ Decide(t, "request", Failed("keep", row.errors + 1, "failure", now + RecoveryDelay), "cooldown")
     \/ MarkProviderDeleted(t)

\* Here an end comes with every relay state.
MarkProviderUnhealthyWithRecoveryTime(t) ==
  /\ ~row.deleted
  /\ \E d \in QuotaDelays, error \in Errors : \E relay \in Inferred(error) :
       /\ ~CoolsUntil(now + d)
       /\ Decide(t, "request", Failed("keep", MaxErrors, error, now + d), relay)

MarkProviderHealthy(t, source) ==
  Decide(t, source, [life |-> IF row.deleted THEN "revive" ELSE "keep", healthy |-> TRUE,
                     errors |-> 0, message |-> "none", schedule |-> NoTime], "healthy")

\* The end of a request, or of a refresh of usage data, on the account.
Report(t) ==
  /\ task[t] = Idle
  /\ reports < MaxReports /\ now <= LastReport /\ reports' = reports + 1
  /\ \/ MarkProviderUnhealthy(t) \/ MarkProviderUnhealthyImmediately(t)
     \/ MarkProviderUnhealthyWithRecoveryTime(t) \/ MarkProviderHealthy(t, "request")
  /\ UNCHANGED <<row, now, torn>>

-----------------------------------------------------------------------------
(* The two writes.                                                         *)

\* What is left to do after the first write.
Remaining(t) == [Idle EXCEPT !.phase = "persisting", !.relay = task[t].relay,
                             !.first.schedule = task[t].first.schedule]

\* providerDao.update, markUnhealthy, markHealthy or recoverDeleted.
FirstWrite(t) ==
  LET w == task[t].first IN
  /\ task[t].phase = "deciding"
  /\ row' = [row EXCEPT !.healthy = w.healthy, !.errors = w.errors, !.message = w.message,
               !.lastError = IF w.message = "none" THEN NoTime ELSE now,
               !.schedule = w.schedule,
               !.deleted = CASE w.life = "delete" -> TRUE [] w.life = "revive" -> FALSE
                             [] OTHER -> @]
  /\ task' = [task EXCEPT ![t] = IF w.healthy /\ task[t].relay # "healthy"
                                 THEN Idle ELSE Remaining(t)]
  /\ UNCHANGED <<now, reports, torn>>

\* Mutant of PersistRelayState: is_healthy is missing in the patch.
PersistWithoutHealth(t) ==
  LET w == task[t].first IN
  /\ task[t].phase = "persisting"
  /\ row' = [row EXCEPT !.relay = task[t].relay, !.recover = w.schedule, !.schedule = w.schedule]
  /\ task' = [task EXCEPT ![t] = Idle]
  /\ UNCHANGED <<now, reports, torn>>

\* _persistRelayState: both copies in one UPDATE.
PersistRelayState(t) ==
  LET w == task[t].first IN
  /\ task[t].phase = "persisting"
  /\ row' = [row EXCEPT !.healthy = task[t].relay = "healthy", !.relay = task[t].relay,
               !.recover = w.schedule, !.schedule = w.schedule]
  /\ task' = [task EXCEPT ![t] = Idle]
  /\ UNCHANGED <<now, reports, torn>>

-----------------------------------------------------------------------------
(* Recovery.                                                               *)

Due == RecoverAt <= now

Found(t, source) == task' = [task EXCEPT ![t] = [Idle EXCEPT !.phase = "found", !.source = source]]

\* The query at the start of a selection; markProviderHealthy comes later, after
\* the accounts before this one in the list.
FindScheduled(t) ==
  /\ task[t] = Idle
  /\ ~row.deleted /\ row.schedule # NoTime /\ row.schedule <= now /\ Due
  /\ Found(t, "scheduled_recovery") /\ UNCHANGED <<row, now, reports, torn>>

\* The query of a selection that found no account: permanent errors are excluded.
FindUnhealthy(t) ==
  /\ task[t] = Idle
  /\ ~row.healthy /\ ~row.deleted /\ Due
  /\ row.message # "permanent"
  /\ Found(t, "auto_recovery") /\ UNCHANGED <<row, now, reports, torn>>

Recover(t) ==
  /\ task[t].phase = "found"
  /\ MarkProviderHealthy(t, task[t].source)
  /\ UNCHANGED <<row, now, reports, torn>>

-----------------------------------------------------------------------------
Tick == now < MaxTime /\ now' = now + 1 /\ UNCHANGED <<row, task, reports, torn>>

\* The worker dies between the two writes of a task (elsewhere nothing is lost
\* but the report itself, as if it had not been made).
Crash(t) ==
  /\ task[t].phase = "persisting" /\ torn < MaxCrashes
  /\ task' = [task EXCEPT ![t] = Idle] /\ torn' = torn + 1
  /\ UNCHANGED <<row, now, reports>>

Work(t) == FirstWrite(t) \/ PersistRelayState(t) \/ Recover(t)
AnyFindScheduled == \E t \in Tasks : FindScheduled(t)
Next ==
  \/ AnyFindScheduled \/ Tick
  \/ \E t \in Tasks : Work(t) \/ Report(t) \/ FindUnhealthy(t) \/ Crash(t)

Spec == Init /\ [][Next]_vars

\* The event loop continues every task, time passes, and accounts keep being
\* selected, which looks for due recoveries first.
FairSpec == Spec /\ WF_vars(Tick) /\ WF_vars(AnyFindScheduled) /\ \A t \in Tasks : WF_vars(Work(t))

-----------------------------------------------------------------------------
(* Properties.                                                             *)

FirstWrites == [life : {"keep", "delete", "revive"}, healthy : BOOLEAN, errors : Nat,
                message : Messages, schedule : Nat]

\* The shapes of the row and of the tasks; no error count below zero.
TypeOK ==
  /\ row \in [healthy : BOOLEAN, deleted : BOOLEAN, errors : Nat, lastError : Nat,
              message : Messages, schedule : Nat, relay : RelayStates, recover : Nat]
  /\ task \in [Tasks -> [phase : {"idle", "found", "deciding", "persisting"},
                         source : {"none", "request", "scheduled_recovery", "auto_recovery"},
                         first : FirstWrites, relay : RelayStates]]
  /\ now \in Nat /\ reports \in 0..MaxReports /\ torn \in 0..MaxCrashes

\* The two copies of the status.
CopiesAgree == (row.healthy <=> row.relay = "healthy") /\ row.schedule = row.recover

BetweenWrites == \E t \in Tasks : task[t].phase = "persisting"

\* markUnhealthy below the threshold: healthy, with errors, no second write.
BelowThreshold == row.healthy /\ row.errors > 0

\* Whatever reports interleave, the columns that select the account agree with the
\* relay state that guards its recovery, unless a task is between its writes, has
\* crashed there, or has only counted an error (markProviderX, _persistRelayState).
StatusAgrees == torn = 0 /\ ~BetweenWrites /\ ~BelowThreshold => CopiesAgree

\* A recovery time never strands an account: also when reports overwrite each
\* other's copies or crash half-way, it is acted upon or superseded.
CooldownEnds == row.schedule # NoTime ~> (row.schedule = NoTime \/ row.deleted)

\* What CooldownEnds rests on, whatever copies reports overwrite and crashes tear: the
\* end that both queries for recoveries go by, be it the relay state's or, for a
\* relay state without one, the column's, is no further away than the longest delay
\* a report can ask for, and neither is one still to be written, so that no report
\* postpones a recovery beyond that (_buildRelayStatePatch, findScheduledRecovery).
Delays == QuotaDelays \cup {RecoveryDelay}
WithinReach(at) == \E d \in Delays : at <= now + d

CooldownInReach ==
  /\ WithinReach(row.schedule) /\ WithinReach(row.recover) /\ WithinReach(RecoverAt)
  /\ \A t \in Tasks : WithinReach(task[t].first.schedule)

\* provider-pool-manager-db.js:2128, the recovery of an empty pool excludes "permanent
\* errors such as 403": it never brings back an account that was deleted for one.
AutoRecoveryNeverUndeletes ==
  [][\A t \in Tasks :
       task[t].phase = "deciding" /\ task[t].source = "auto_recovery" /\ task'[t] # task[t]
         => (row.deleted => row'.deleted)]_vars
=============================================================================
