------------------------ MODULE AccountHealth_proofs ------------------------
(***************************************************************************)
(* Theorems about AccountHealth, for any number of tasks, any threshold    *)
(* and any delays: the two copies of the status agree whenever no report   *)
(* is between its writes.                                                  *)
(***************************************************************************)
EXTENDS AccountHealth, TLAPS

USE AccountAssumption DEF AccountAssumption, NoTime, Errors, Messages, RelayStates

TaskType == [phase : {"idle", "found", "deciding", "persisting"},
             source : {"none", "request", "scheduled_recovery", "auto_recovery"},
             first : FirstWrites, relay : RelayStates]

\* Only an error below the threshold leaves the account healthy without a second
\* write, and it has counted itself.
CountedIt(w, relay) == w.healthy /\ relay # "healthy" => w.errors > 0
DecisionsCount ==
  \A t \in Tasks : task[t].phase = "deciding" => CountedIt(task[t].first, task[t].relay)

-----------------------------------------------------------------------------
(* What the decisions produce.                                             *)

LEMMA IdleType == Idle \in TaskType
  BY DEF Idle, TaskType, FirstWrites

LEMMA ErrorCountType == TypeOK => ErrorCount \in Nat /\ ErrorCount > 0
  BY DEF TypeOK, ErrorCount, Decayed

LEMMA FailedType ==
  ASSUME NEW life \in {"keep", "delete", "revive"}, NEW errors \in Nat,
         NEW message \in Messages, NEW schedule \in Nat
  PROVE  /\ Failed(life, errors, message, schedule) \in FirstWrites
         /\ ~Failed(life, errors, message, schedule).healthy
  BY DEF Failed, FirstWrites

\* A well-formed decision keeps the shapes of the tasks and counts itself.
LEMMA DecideKeeps ==
  ASSUME TypeOK, DecisionsCount, NEW t \in Tasks,
         NEW source \in {"none", "request", "scheduled_recovery", "auto_recovery"},
         NEW first \in FirstWrites, NEW relay \in RelayStates,
         CountedIt(first, relay), Decide(t, source, first, relay)
  PROVE  /\ task' \in [Tasks -> TaskType]
         /\ DecisionsCount'
         /\ task'[t].phase = "deciding" /\ \A u \in Tasks \ {t} : task'[u] = task[u]
  BY DEF TypeOK, TaskType, DecisionsCount, Decide

\* The outcome of a report: a task that keeps its shape, and nobody else disturbed.
Decided(t) ==
  /\ task' \in [Tasks -> TaskType]
  /\ DecisionsCount'
  /\ task'[t].phase = "deciding" /\ \A u \in Tasks \ {t} : task'[u] = task[u]

LEMMA HealthyDecided ==
  ASSUME TypeOK, DecisionsCount, NEW t \in Tasks,
         NEW source \in {"none", "request", "scheduled_recovery", "auto_recovery"},
         MarkProviderHealthy(t, source)
  PROVE  Decided(t)
  <1> DEFINE first == [life |-> IF row.deleted THEN "revive" ELSE "keep", healthy |-> TRUE,
                       errors |-> 0, message |-> "none", schedule |-> NoTime]
  <1>1. first \in FirstWrites BY DEF FirstWrites
  <1>2. CountedIt(first, "healthy") BY DEF CountedIt
  <1>3. Decide(t, source, first, "healthy") BY DEF MarkProviderHealthy
  <1> HIDE DEF first
  <1> QED BY <1>1, <1>2, <1>3, DecideKeeps DEF Decided

LEMMA FailedDecided ==
  ASSUME TypeOK, DecisionsCount, NEW t \in Tasks,
         NEW life \in {"keep", "delete", "revive"}, NEW errors \in Nat,
         NEW message \in Messages, NEW schedule \in Nat, NEW relay \in RelayStates,
         Decide(t, "request", Failed(life, errors, message, schedule), relay)
  PROVE  Decided(t)
  <1> DEFINE first == Failed(life, errors, message, schedule)
  <1>1. first \in FirstWrites /\ ~first.healthy BY FailedType
  <1>2. CountedIt(first, relay) BY <1>1 DEF CountedIt
  <1> HIDE DEF first
  <1>3. Decide(t, "request", first, relay) BY DEF first
  <1> QED BY <1>1, <1>2, <1>3, DecideKeeps DEF Decided

LEMMA InferredType == \A error \in Errors : Inferred(error) \subseteq RelayStates
  BY DEF Inferred

LEMMA ReportDecided ==
  ASSUME TypeOK, DecisionsCount, NEW t \in Tasks, Report(t)
  PROVE  Decided(t)
  <1>1. CASE MarkProviderUnhealthy(t)
    <2>1. PICK error \in Errors, relay \in RelayStates :
            Decide(t, "request", [Failed("keep", ErrorCount, error, NoTime)
                                    EXCEPT !.healthy = ErrorCount < MaxErrors], relay)
      BY <1>1, InferredType DEF MarkProviderUnhealthy
    <2> DEFINE first == [Failed("keep", ErrorCount, error, NoTime)
                           EXCEPT !.healthy = ErrorCount < MaxErrors]
    <2>2. \A b \in BOOLEAN, n \in Nat :
            LET f == [Failed("keep", n, error, NoTime) EXCEPT !.healthy = b]
            IN  f \in FirstWrites /\ f.errors = n
      BY DEF Failed, FirstWrites
    <2>3. first \in FirstWrites /\ first.errors = ErrorCount
      <3>1. (ErrorCount < MaxErrors) \in BOOLEAN OBVIOUS
      <3> QED BY <2>2, <3>1, ErrorCountType, Zenon
    <2>4. CountedIt(first, relay) BY <2>3, ErrorCountType DEF CountedIt
    <2>5. Decide(t, "request", first, relay) BY <2>1
    <2> HIDE DEF first
    <2> QED BY <2>3, <2>4, <2>5, DecideKeeps DEF Decided
  <1>2. CASE MarkProviderUnhealthyImmediately(t)
    <2>1. MaxErrors \in Nat /\ row.errors + 1 \in Nat /\ now + RecoveryDelay \in Nat BY DEF TypeOK
    <2>2. ASSUME NEW error \in Errors, NEW relay \in Inferred(error),
                 Decide(t, "request", Failed("keep", MaxErrors, error, NoTime), relay)
          PROVE  Decided(t)
      BY <2>1, <2>2, InferredType, FailedDecided
    <2>3. CASE Decide(t, "request", Failed("keep", row.errors + 1, "failure", now + RecoveryDelay),
                      "cooldown")
      BY <2>1, <2>3, FailedDecided
    <2>4. CASE MarkProviderDeleted(t)
      BY <2>1, <2>4, FailedDecided DEF MarkProviderDeleted
    <2> QED BY <1>2, <2>2, <2>3, <2>4 DEF MarkProviderUnhealthyImmediately
  <1>3. CASE MarkProviderUnhealthyWithRecoveryTime(t)
    <2>1. PICK d \in QuotaDelays, error \in Errors : \E relay \in RelayStates :
            Decide(t, "request", Failed("keep", MaxErrors, error, now + d), relay)
      BY <1>3, InferredType DEF MarkProviderUnhealthyWithRecoveryTime
    <2>2. now + d \in Nat BY DEF TypeOK
    <2> QED BY <2>1, <2>2, FailedDecided
  <1>4. CASE MarkProviderHealthy(t, "request") BY <1>4, HealthyDecided
  <1> QED BY <1>1, <1>2, <1>3, <1>4 DEF Report

-----------------------------------------------------------------------------
(* The invariant, action by action.                                        *)

Inv == TypeOK /\ DecisionsCount /\ StatusAgrees

LEMMA InitInv == Init => Inv
  <1> SUFFICES ASSUME Init PROVE Inv OBVIOUS
  <1>1. TypeOK BY IdleType DEF Init, TypeOK, TaskType
  <1>2. DecisionsCount BY DEF Init, Idle, DecisionsCount
  <1>3. StatusAgrees BY DEF Init, StatusAgrees, CopiesAgree
  <1> QED BY <1>1, <1>2, <1>3 DEF Inv

\* A step that writes nothing and moves no task into or out of its second write.
LEMMA NoWrite ==
  ASSUME Inv, NEW t \in Tasks, task[t].phase # "persisting", Decided(t),
         UNCHANGED <<row, now, torn>>, reports' \in 0..MaxReports
  PROVE  Inv'
  <1>1. TypeOK' BY DEF Inv, TypeOK, Decided, TaskType
  <1>2. BetweenWrites <=> BetweenWrites' BY DEF Decided, BetweenWrites
  <1>3. StatusAgrees' BY <1>2 DEF Inv, StatusAgrees, BelowThreshold, CopiesAgree
  <1> QED BY <1>1, <1>3 DEF Inv, Decided

LEMMA FoundInv ==
  ASSUME Inv, NEW t \in Tasks, NEW source \in {"scheduled_recovery", "auto_recovery"},
         task[t] = Idle, Found(t, source), UNCHANGED <<row, now, reports, torn>>
  PROVE  Inv'
  <1>1. task' \in [Tasks -> TaskType] BY IdleType DEF Inv, TypeOK, TaskType, Found
  <1>2. /\ task'[t].phase = "found" /\ task[t].phase = "idle"
        /\ \A u \in Tasks \ {t} : task'[u] = task[u]
    BY DEF Inv, TypeOK, Found, Idle
  <1>3. TypeOK' BY <1>1 DEF Inv, TypeOK, TaskType
  <1>4. DecisionsCount' BY <1>2 DEF Inv, DecisionsCount
  <1>5. BetweenWrites <=> BetweenWrites' BY <1>2 DEF BetweenWrites
  <1>6. StatusAgrees' BY <1>5 DEF Inv, StatusAgrees, BelowThreshold, CopiesAgree
  <1> QED BY <1>3, <1>4, <1>6 DEF Inv

LEMMA FirstWriteInv ==
  ASSUME Inv, NEW t \in Tasks, FirstWrite(t)
  PROVE  Inv'
  <1> DEFINE w == task[t].first
             single == w.healthy /\ task[t].relay # "healthy"
  <1>1. w \in FirstWrites /\ task[t].relay \in RelayStates BY DEF Inv, TypeOK
  <1>2. /\ row'.healthy = w.healthy /\ row'.errors = w.errors
        /\ row' \in [healthy : BOOLEAN, deleted : BOOLEAN, errors : Nat, lastError : Nat,
                     message : Messages, schedule : Nat, relay : RelayStates, recover : Nat]
    <2> DEFINE last == IF w.message = "none" THEN NoTime ELSE now
               gone == CASE w.life = "delete" -> TRUE [] w.life = "revive" -> FALSE
                         [] OTHER -> row.deleted
    <2>1. row' = [row EXCEPT !.healthy = w.healthy, !.errors = w.errors, !.message = w.message,
                    !.lastError = last, !.schedule = w.schedule, !.deleted = gone]
      BY DEF FirstWrite
    <2>2. /\ w.healthy \in BOOLEAN /\ w.errors \in Nat /\ w.message \in Messages
          /\ w.schedule \in Nat
      BY <1>1 DEF FirstWrites
    <2>3. last \in Nat BY DEF Inv, TypeOK, NoTime
    <2>4. gone \in BOOLEAN BY DEF Inv, TypeOK
    <2>5. row \in [healthy : BOOLEAN, deleted : BOOLEAN, errors : Nat, lastError : Nat,
                   message : Messages, schedule : Nat, relay : RelayStates, recover : Nat]
      BY DEF Inv, TypeOK
    <2> HIDE DEF w, last, gone
    <2> QED BY ONLY <2>1, <2>2, <2>3, <2>4, <2>5
  <1>3. Remaining(t) \in TaskType /\ Remaining(t).phase = "persisting"
    BY <1>1 DEF Remaining, Idle, TaskType, FirstWrites
  <1>4. /\ \A u \in Tasks \ {t} : task'[u] = task[u]
        /\ task'[t] = IF single THEN Idle ELSE Remaining(t)
    BY DEF Inv, TypeOK, FirstWrite
  <1>5. task' \in [Tasks -> TaskType]
    BY <1>3, IdleType DEF Inv, TypeOK, TaskType, FirstWrite
  <1>6. TypeOK' BY <1>2, <1>5 DEF Inv, TypeOK, TaskType, FirstWrite
  <1>7. DecisionsCount' BY <1>3, <1>4 DEF Inv, DecisionsCount, Idle
  <1>8. CASE single
    <2>1. w.errors > 0 BY <1>8 DEF Inv, DecisionsCount, CountedIt, FirstWrite
    <2>2. BelowThreshold' BY <1>2, <1>8, <2>1 DEF BelowThreshold
    <2> QED BY <1>6, <1>7, <2>2 DEF Inv, StatusAgrees
  <1>9. CASE ~single
    <2>1. BetweenWrites' BY <1>3, <1>4, <1>9 DEF BetweenWrites
    <2> QED BY <1>6, <1>7, <2>1 DEF Inv, StatusAgrees
  <1> QED BY <1>8, <1>9

LEMMA PersistInv ==
  ASSUME Inv, NEW t \in Tasks, PersistRelayState(t)
  PROVE  Inv'
  <1>1. task[t].first \in FirstWrites /\ task[t].relay \in RelayStates BY DEF Inv, TypeOK
  <1>2. /\ row' \in [healthy : BOOLEAN, deleted : BOOLEAN, errors : Nat, lastError : Nat,
                     message : Messages, schedule : Nat, relay : RelayStates, recover : Nat]
        /\ CopiesAgree'
    BY <1>1 DEF Inv, TypeOK, PersistRelayState, FirstWrites, CopiesAgree
  <1>3. task' \in [Tasks -> TaskType] BY IdleType DEF Inv, TypeOK, TaskType, PersistRelayState
  <1>4. TypeOK' BY <1>2, <1>3 DEF Inv, TypeOK, TaskType, PersistRelayState
  <1>5. DecisionsCount' BY DEF Inv, TypeOK, DecisionsCount, PersistRelayState, Idle
  <1> QED BY <1>2, <1>4, <1>5 DEF Inv, StatusAgrees

LEMMA CrashInv ==
  ASSUME Inv, NEW t \in Tasks, Crash(t)
  PROVE  Inv'
  <1>1. torn' > 0 /\ torn' \in 0..MaxCrashes BY DEF Inv, TypeOK, Crash
  <1>2. task' \in [Tasks -> TaskType] BY IdleType DEF Inv, TypeOK, TaskType, Crash
  <1>3. TypeOK' BY <1>1, <1>2 DEF Inv, TypeOK, TaskType, Crash
  <1>4. DecisionsCount' BY DEF Inv, TypeOK, DecisionsCount, Crash, Idle
  <1> QED BY <1>1, <1>3, <1>4 DEF Inv, StatusAgrees

LEMMA NextInv == Inv /\ [Next]_vars => Inv'
  <1> SUFFICES ASSUME Inv, [Next]_vars PROVE Inv' OBVIOUS
  <1>0. TypeOK /\ DecisionsCount BY DEF Inv
  <1>1. CASE AnyFindScheduled BY <1>1, FoundInv DEF AnyFindScheduled, FindScheduled
  <1>2. CASE Tick
    BY <1>2 DEF Tick, Inv, TypeOK, DecisionsCount, StatusAgrees, BetweenWrites, BelowThreshold,
                CopiesAgree
  <1>3. ASSUME NEW t \in Tasks, FirstWrite(t) PROVE Inv' BY <1>3, FirstWriteInv
  <1>4. ASSUME NEW t \in Tasks, PersistRelayState(t) PROVE Inv' BY <1>4, PersistInv
  <1>5. ASSUME NEW t \in Tasks, Recover(t) PROVE Inv'
    <2>1. task[t].phase = "found" BY <1>5 DEF Recover
    <2>2. task[t].source \in {"none", "request", "scheduled_recovery", "auto_recovery"}
      BY <1>0 DEF TypeOK
    <2>3. Decided(t) BY <1>0, <1>5, <2>2, HealthyDecided DEF Recover
    <2> QED BY <1>0, <1>5, <2>1, <2>3, NoWrite DEF Recover, TypeOK
  <1>6. ASSUME NEW t \in Tasks, Report(t) PROVE Inv'
    <2>1. Decided(t) BY <1>0, <1>6, ReportDecided
    <2>2. task[t].phase = "idle" /\ reports' \in 0..MaxReports
      BY <1>0, <1>6 DEF Report, Idle, TypeOK
    <2> QED BY <1>6, <2>1, <2>2, NoWrite DEF Report
  <1>7. ASSUME NEW t \in Tasks, FindUnhealthy(t) PROVE Inv' BY <1>7, FoundInv DEF FindUnhealthy
  <1>8. ASSUME NEW t \in Tasks, Crash(t) PROVE Inv' BY <1>8, CrashInv
  <1>9. CASE UNCHANGED vars
    BY <1>9 DEF vars, Inv, TypeOK, DecisionsCount, StatusAgrees, BetweenWrites, BelowThreshold,
                CopiesAgree
  <1> QED BY <1>1, <1>2, <1>3, <1>4, <1>5, <1>6, <1>7, <1>8, <1>9 DEF Next, Work

LEMMA Always == Spec => []Inv
  BY InitInv, NextInv, PTL DEF Spec

\* The row and the tasks keep their shapes, and no error count goes below zero.
THEOREM AccountTypeCorrect == Spec => []TypeOK
  <1>1. Inv => TypeOK BY DEF Inv
  <1> QED BY <1>1, Always, PTL

\* Whatever reports interleave, both copies of the status agree whenever no task is
\* between its writes, none crashed there and no error below the threshold is counted.
THEOREM StatusAgreement == Spec => []StatusAgrees
  <1>1. Inv => StatusAgrees BY DEF Inv
  <1> QED BY <1>1, Always, PTL
-----------------------------------------------------------------------------
(* How far ahead the ends of cooldowns lie.                                *)

Reach == now > 0 /\ CooldownInReach

\* An end is written to both copies, to one, or to none; a copy that is written is
\* within reach, and the other one was.
LEMMA ReachKept ==
  ASSUME Reach, UNCHANGED now,
         row'.schedule = row.schedule \/ WithinReach(row'.schedule),
         row'.recover = row.recover \/ WithinReach(row'.recover),
         \A t \in Tasks : \/ task'[t].first.schedule = task[t].first.schedule
                          \/ WithinReach(task'[t].first.schedule)
  PROVE  Reach'
  <1>1. \A at : WithinReach(at) <=> WithinReach(at)' BY DEF WithinReach, Delays
  <1>2. WithinReach(row'.schedule) /\ WithinReach(row'.recover) BY DEF Reach, CooldownInReach
  <1>3. WithinReach(RecoverAt') BY <1>2 DEF RecoverAt
  <1>4. \A t \in Tasks : WithinReach(task'[t].first.schedule) BY DEF Reach, CooldownInReach
  <1> QED BY <1>1, <1>2, <1>3, <1>4 DEF Reach, CooldownInReach, WithinReach, Delays

LEMMA NoTimeInReach == TypeOK => WithinReach(NoTime)
  BY DEF TypeOK, WithinReach, Delays

\* What one task does to its own copy, the row and the others undisturbed.
LEMMA TaskReach ==
  ASSUME Reach, NEW t \in Tasks, UNCHANGED <<row, now>>,
         WithinReach(task'[t].first.schedule), \A u \in Tasks \ {t} : task'[u] = task[u]
  PROVE  Reach'
  BY ReachKept

LEMMA DecideReach ==
  ASSUME TypeOK, Reach, NEW t \in Tasks, NEW source, NEW first, NEW relay,
         WithinReach(first.schedule), Decide(t, source, first, relay), UNCHANGED <<row, now>>
  PROVE  Reach'
  <1>1. task'[t].first = first /\ \A u \in Tasks \ {t} : task'[u] = task[u]
    BY DEF TypeOK, Decide
  <1> QED BY <1>1, TaskReach

LEMMA FailedReach ==
  ASSUME TypeOK, Reach, NEW t \in Tasks, NEW life, NEW errors, NEW message, NEW schedule, NEW relay,
         WithinReach(schedule),
         Decide(t, "request", Failed(life, errors, message, schedule), relay), UNCHANGED <<row, now>>
  PROVE  Reach'
  <1> DEFINE first == Failed(life, errors, message, schedule)
  <1>1. first.schedule = schedule BY DEF Failed
  <1> HIDE DEF first
  <1>2. Decide(t, "request", first, relay) BY DEF first
  <1> QED BY <1>1, <1>2, DecideReach

LEMMA HealthyReach ==
  ASSUME TypeOK, Reach, NEW t \in Tasks, NEW source, MarkProviderHealthy(t, source),
         UNCHANGED <<row, now>>
  PROVE  Reach'
  <1> DEFINE first == [life |-> IF row.deleted THEN "revive" ELSE "keep", healthy |-> TRUE,
                       errors |-> 0, message |-> "none", schedule |-> NoTime]
  <1>1. first.schedule = NoTime OBVIOUS
  <1>2. Decide(t, source, first, "healthy") BY DEF MarkProviderHealthy
  <1> HIDE DEF first
  <1> QED BY <1>1, <1>2, NoTimeInReach, DecideReach

LEMMA ReportReach ==
  ASSUME TypeOK, Reach, NEW t \in Tasks, Report(t)
  PROVE  Reach'
  <1>0. UNCHANGED <<row, now>> /\ now \in Nat BY DEF Report, TypeOK
  <1>1. CASE MarkProviderUnhealthy(t)
    <2>1. PICK error, relay :
            Decide(t, "request", [Failed("keep", ErrorCount, error, NoTime)
                                    EXCEPT !.healthy = ErrorCount < MaxErrors], relay)
      BY <1>1 DEF MarkProviderUnhealthy
    <2> DEFINE first == [Failed("keep", ErrorCount, error, NoTime)
                           EXCEPT !.healthy = ErrorCount < MaxErrors]
    <2>2. first.schedule = NoTime BY DEF Failed
    <2>3. Decide(t, "request", first, relay) BY <2>1
    <2> HIDE DEF first
    <2> QED BY <1>0, <2>2, <2>3, NoTimeInReach, DecideReach
  <1>2. CASE MarkProviderUnhealthyImmediately(t)
    <2>1. ASSUME NEW error, NEW relay,
                 Decide(t, "request", Failed("keep", MaxErrors, error, NoTime), relay)
          PROVE  Reach'
      BY <1>0, <2>1, NoTimeInReach, FailedReach
    <2>2. CASE Decide(t, "request", Failed("keep", row.errors + 1, "failure", now + RecoveryDelay),
                      "cooldown")
      <3>1. WithinReach(now + RecoveryDelay) BY <1>0 DEF WithinReach, Delays
      <3> QED BY <1>0, <2>2, <3>1, FailedReach
    <2>3. CASE MarkProviderDeleted(t)
      BY <1>0, <2>3, NoTimeInReach, FailedReach DEF MarkProviderDeleted
    <2> QED BY <1>2, <2>1, <2>2, <2>3 DEF MarkProviderUnhealthyImmediately
  <1>3. CASE MarkProviderUnhealthyWithRecoveryTime(t)
    <2>1. PICK d \in QuotaDelays : \E error, relay :
            Decide(t, "request", Failed("keep", MaxErrors, error, now + d), relay)
      BY <1>3 DEF MarkProviderUnhealthyWithRecoveryTime
    <2>2. WithinReach(now + d) BY <1>0 DEF WithinReach, Delays
    <2> QED BY <1>0, <2>1, <2>2, FailedReach
  <1>4. CASE MarkProviderHealthy(t, "request") BY <1>0, <1>4, HealthyReach
  <1> QED BY <1>1, <1>2, <1>3, <1>4 DEF Report

LEMMA FoundReach ==
  ASSUME TypeOK, Reach, NEW t \in Tasks, NEW source, Found(t, source), UNCHANGED <<row, now>>
  PROVE  Reach'
  <1>1. task'[t].first.schedule = NoTime /\ \A u \in Tasks \ {t} : task'[u] = task[u]
    BY DEF TypeOK, Found, Idle
  <1> QED BY <1>1, NoTimeInReach, TaskReach

\* The first write leaves the relay state's copy alone, the second one writes both.
LEMMA WritesReach ==
  ASSUME TypeOK, Reach, NEW t \in Tasks, FirstWrite(t) \/ PersistRelayState(t)
  PROVE  Reach'
  <1> DEFINE at == task[t].first.schedule
  <1>1. now' = now /\ WithinReach(at) BY DEF Reach, CooldownInReach, FirstWrite, PersistRelayState
  <1>2. row'.schedule = at /\ (row'.recover = row.recover \/ row'.recover = at)
    BY DEF FirstWrite, PersistRelayState, TypeOK
  <1>3. task'[t] = Idle \/ task'[t] = Remaining(t)
    BY DEF TypeOK, FirstWrite, PersistRelayState
  <1>4. /\ task'[t].first.schedule \in {NoTime, at}
        /\ \A u \in Tasks \ {t} : task'[u] = task[u]
    <2>1. Idle.first.schedule = NoTime /\ Remaining(t).first.schedule = at
      BY DEF Idle, Remaining
    <2>2. \A u \in Tasks \ {t} : task'[u] = task[u]
      BY DEF TypeOK, FirstWrite, PersistRelayState
    <2> QED BY <1>3, <2>1, <2>2
  <1> HIDE DEF at
  <1>5. \A u \in Tasks : \/ task'[u].first.schedule = task[u].first.schedule
                         \/ WithinReach(task'[u].first.schedule)
    BY <1>1, <1>4, NoTimeInReach
  <1> QED BY <1>1, <1>2, <1>5, ReachKept

LEMMA CrashReach ==
  ASSUME TypeOK, Reach, NEW t \in Tasks, Crash(t)
  PROVE  Reach'
  <1>1. /\ task'[t].first.schedule = NoTime
        /\ \A u \in Tasks \ {t} : task'[u] = task[u]
        /\ UNCHANGED <<row, now>>
    BY DEF TypeOK, Crash, Idle
  <1> QED BY <1>1, NoTimeInReach, TaskReach

LEMMA ReachStep == TypeOK /\ Reach /\ [Next]_vars => Reach'
  <1> SUFFICES ASSUME TypeOK, Reach, [Next]_vars PROVE Reach' OBVIOUS
  <1>1. CASE AnyFindScheduled BY <1>1, FoundReach DEF AnyFindScheduled, FindScheduled
  <1>2. CASE Tick
    <2>1. \A at \in Nat : WithinReach(at) => WithinReach(at)'
      BY <1>2 DEF Tick, TypeOK, WithinReach, Delays
    <2>2. row.schedule \in Nat /\ row.recover \in Nat /\ RecoverAt \in Nat
          /\ \A t \in Tasks : task[t].first.schedule \in Nat
      BY DEF TypeOK, FirstWrites, RecoverAt
    <2>3. RecoverAt' = RecoverAt BY <1>2 DEF Tick, RecoverAt
    <2>4. UNCHANGED <<row, task>> /\ now' > 0 BY <1>2 DEF Tick, TypeOK
    <2>5. CooldownInReach'
      BY <2>1, <2>2, <2>3, <2>4, Zenon DEF Reach, CooldownInReach
    <2> QED BY <2>4, <2>5 DEF Reach
  <1>3. ASSUME NEW t \in Tasks, Work(t) PROVE Reach'
    BY <1>3, WritesReach, HealthyReach DEF Work, Recover
  <1>4. ASSUME NEW t \in Tasks, Report(t) PROVE Reach' BY <1>4, ReportReach
  <1>5. ASSUME NEW t \in Tasks, FindUnhealthy(t) PROVE Reach' BY <1>5, FoundReach DEF FindUnhealthy
  <1>6. ASSUME NEW t \in Tasks, Crash(t) PROVE Reach' BY <1>6, CrashReach
  <1>7. CASE UNCHANGED vars BY <1>7, ReachKept DEF vars
  <1> QED BY <1>1, <1>2, <1>3, <1>4, <1>5, <1>6, <1>7 DEF Next

\* Whatever reports overwrite and crashes tear: no end of a cooldown, in either copy,
\* in the fall-back between them or still to be written, lies further ahead than the
\* longest delay of a report, so that both queries for recoveries see the account in
\* time (what CooldownEnds rests on; a cooldown without an end is due at once).
THEOREM CooldownsInReach == Spec => []CooldownInReach
  <1>1. Init => Reach
    BY DEF Init, Idle, Reach, CooldownInReach, RecoverAt, WithinReach, Delays
  <1>2. Inv /\ Reach /\ [Next]_vars => Reach' BY ReachStep DEF Inv
  <1>3. Reach => CooldownInReach BY DEF Reach
  <1> QED BY <1>1, <1>2, <1>3, Always, PTL DEF Spec
=============================================================================
