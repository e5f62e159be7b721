------------------------ MODULE CodexRefresh_proofs ------------------------
(***************************************************************************)
(* What holds of the refresh of a Codex account for any number of          *)
(* processes, instances and callers.  The heart of it is AnswerUnknown:    *)
(* while a refresh holds an answer it has not stored, nobody else knows    *)
(* that token, so nobody can rotate it further, whatever lapsed meanwhile. *)
(***************************************************************************)
EXTENDS CodexRefresh, TLAPS

-----------------------------------------------------------------------------
(* Types                                                                   *)

LEMMA TypeStep ==
  ASSUME TypeOK, [Next]_vars
  PROVE  TypeOK'
<1> USE RefreshAssumption DEF TypeOK, Ended, FaultKinds, Surprises
<1>1. ASSUME NEW i \in Instances, Load(i) PROVE TypeOK'
  BY <1>1 DEF Load, Remember, Goto, store, locks, callers
<1>2. ASSUME NEW i \in Instances, Normalise(i) PROVE TypeOK'
  BY <1>2 DEF Normalise, Remember, Goto, Surprise, locks, callers
<1>3. ASSUME NEW i \in Instances, AcquireRedis(i) PROVE TypeOK'
  <2>1. pc' \in [Instances -> {"idle", "normalising", "merged", "locking", "locked",
                              "posting", "reused", "writing", "releasing"}]
    BY <1>3 DEF AcquireRedis, Begin, Goto, Conclude
  <2>2. out' \in [Instances -> {"ok", "busy", "dead", "error"}]
    BY <1>3 DEF AcquireRedis, Begin, Conclude
  <2>3. redis' \in Instances \cup {Nobody, Orphan}
    BY <1>3 DEF AcquireRedis
  <2>4. faults' \subseteq FaultKinds \cup Surprises
    BY <1>3 DEF AcquireRedis, Fault
  <2>5. got' \in [Instances -> Nat]
    BY <1>3 DEF AcquireRedis, Begin, Conclude
  <2>. QED BY <1>3, <2>1, <2>2, <2>3, <2>4, <2>5 DEF AcquireRedis, store, callers
<1>4. ASSUME NEW i \in Instances, AcquireMysql(i) PROVE TypeOK'
  <2>1. pc' \in [Instances -> {"idle", "normalising", "merged", "locking", "locked",
                              "posting", "reused", "writing", "releasing"}]
    BY <1>4 DEF AcquireMysql, Begin, Goto, Conclude
  <2>2. out' \in [Instances -> {"ok", "busy", "dead", "error"}]
    BY <1>4 DEF AcquireMysql, Begin, Conclude
  <2>3. got' \in [Instances -> Nat]
    BY <1>4 DEF AcquireMysql, Begin, Conclude
  <2>4. mysql' \in Instances \cup {Nobody} /\ faults' \subseteq FaultKinds \cup Surprises
    BY <1>4 DEF AcquireMysql, Fault
  <2>. QED BY <1>4, <2>1, <2>2, <2>3, <2>4 DEF AcquireMysql, store, callers
<1>5. ASSUME NEW i \in Instances, Reload(i) PROVE TypeOK'
  <2>. PICK t \in {db, mem[i]} : Reload(i)!(t)
    BY <1>5 DEF Reload
  <2>1. pc' \in [Instances -> {"idle", "normalising", "merged", "locking", "locked",
                              "posting", "reused", "writing", "releasing"}]
    BY DEF Goto, Conclude
  <2>2. out' \in [Instances -> {"ok", "busy", "dead", "error"}]
    BY DEF Conclude
  <2>3. mem' \in [Instances -> Nat]
    BY DEF Remember
  <2>4. faults' \subseteq FaultKinds \cup Surprises
    BY DEF Reads, Fault
  <2>5. got' \in [Instances -> Nat]
    BY DEF Conclude
  <2>. QED BY <2>1, <2>2, <2>3, <2>4, <2>5 DEF store, locks, callers
<1>6. ASSUME NEW i \in Instances, Rotate(i) PROVE TypeOK'
  BY <1>6 DEF Rotate, Goto, store, locks, callers
<1>7. ASSUME NEW i \in Instances, Refuse(i) PROVE TypeOK'
  BY <1>7 DEF Refuse, Goto, store, locks, callers
<1>8. ASSUME NEW i \in Instances, RefreshTokenReused(i) PROVE TypeOK'
  <2>. PICK t \in {db, mem[i]} : RefreshTokenReused(i)!(t)
    BY <1>8 DEF RefreshTokenReused
  <2>1. pc' \in [Instances -> {"idle", "normalising", "merged", "locking", "locked",
                              "posting", "reused", "writing", "releasing"}]
    BY DEF Goto, Conclude
  <2>2. out' \in [Instances -> {"ok", "busy", "dead", "error"}]
    BY DEF Conclude
  <2>3. mem' \in [Instances -> Nat]
    BY DEF Remember
  <2>4. faults' \subseteq FaultKinds \cup Surprises
    BY DEF Reads, Fault
  <2>5. got' \in [Instances -> Nat]
    BY DEF Conclude
  <2>. QED BY <2>1, <2>2, <2>3, <2>4, <2>5 DEF store, locks, callers
<1>9. ASSUME NEW i \in Instances, Write(i) PROVE TypeOK'
  BY <1>9 DEF Write, Remember, Goto, Conclude, locks, callers
<1>10. ASSUME NEW i \in Instances, WriteTimesOut(i) PROVE TypeOK'
  BY <1>10 DEF WriteTimesOut, Goto, Conclude, store, locks, callers
<1>11. ASSUME NEW i \in Instances, Finish(i) PROVE TypeOK'
  BY <1>11 DEF Finish, Released, Fault, store
<1>12. ASSUME NEW i \in Instances, PostFails(i) PROVE TypeOK'
  BY <1>12 DEF PostFails, Goto, Conclude, Fault, store, locks, callers
<1>13. ASSUME NEW i \in Instances, WriteFails(i) PROVE TypeOK'
  BY <1>13 DEF WriteFails, Goto, Conclude, Fault, store, locks, callers
<1>14. ASSUME NEW c \in Callers, Call(c) PROVE TypeOK'
  <2>1. pc' \in [Instances -> {"idle", "normalising", "merged", "locking", "locked",
                              "posting", "reused", "writing", "releasing"}]
    BY <1>14 DEF Call, Goto, Dedupe
  <2>2. caller' \in [Callers -> Ended \cup {"owner", "joined", "reloading", "reading"}]
    BY <1>14 DEF Call
  <2>. QED BY <1>14, <2>1, <2>2 DEF Call, store, locks
<1>15. ASSUME NEW c \in Callers, JoinedReads(c) PROVE TypeOK'
  BY <1>15 DEF JoinedReads, store, locks, instance
<1>16. ASSUME NEW c \in Callers, JoinedEnds(c) PROVE TypeOK'
  <2>1. mem' \in [Instances -> Nat]
    BY <1>16 DEF JoinedEnds, Remember
  <2>2. faults' \subseteq FaultKinds \cup Surprises
    BY <1>16 DEF JoinedEnds, Surprise, Fault
  <2>. QED BY <1>16, <2>1, <2>2 DEF JoinedEnds, store, locks
<1>17. ASSUME NEW p \in Procs, Crash(p) PROVE TypeOK'
  BY <1>17 DEF Crash, Fault, store
<1>18. ASSUME Lapse PROVE TypeOK'
  BY <1>18 DEF Lapse, Fault, store, instance, callers
<1>19. ASSUME UNCHANGED vars PROVE TypeOK'
  BY <1>19 DEF vars, store, locks, instance, callers
<1>. QED BY <1>1, <1>2, <1>3, <1>4, <1>5, <1>6, <1>7, <1>8, <1>9, <1>10, <1>11, <1>12, <1>13, <1>14,
            <1>15, <1>16, <1>17, <1>18, <1>19 DEF Next, Progress

\* Every variable keeps its type.
THEOREM Typed == Spec => []TypeOK
<1>1. Init => TypeOK
  BY RefreshAssumption DEF Init, TypeOK, Ended
<1>. QED BY <1>1, TypeStep, PTL DEF Spec

-----------------------------------------------------------------------------
(* One refresh per process (withDeduplication).                            *)

LEMMA DedupeStep ==
  ASSUME OneRefreshPerProcess, TypeOK, [Next]_vars
  PROVE  OneRefreshPerProcess'
<1> USE RefreshAssumption DEF TypeOK, OneRefreshPerProcess, Running
<1>1. ASSUME NEW i \in Instances, Load(i) PROVE OneRefreshPerProcess'
  BY <1>1 DEF Load, Remember, Goto, store, locks, callers
<1>2. ASSUME NEW i \in Instances, Normalise(i) PROVE OneRefreshPerProcess'
  BY <1>2 DEF Normalise, Remember, Goto, Surprise, locks, callers
<1>3. ASSUME NEW i \in Instances, AcquireRedis(i) PROVE OneRefreshPerProcess'
  BY <1>3 DEF AcquireRedis, Begin, Goto, Conclude, Fault, store, callers
<1>4. ASSUME NEW i \in Instances, AcquireMysql(i) PROVE OneRefreshPerProcess'
  BY <1>4 DEF AcquireMysql, Begin, Goto, Conclude, Fault, store, callers
<1>5. ASSUME NEW i \in Instances, Reload(i) PROVE OneRefreshPerProcess'
  BY <1>5 DEF Reload, Reads, Remember, Goto, Conclude, Fault, store, locks, callers
<1>6. ASSUME NEW i \in Instances, Rotate(i) PROVE OneRefreshPerProcess'
  BY <1>6 DEF Rotate, Goto, store, locks, callers
<1>7. ASSUME NEW i \in Instances, Refuse(i) PROVE OneRefreshPerProcess'
  BY <1>7 DEF Refuse, Goto, store, locks, callers
<1>8. ASSUME NEW i \in Instances, RefreshTokenReused(i) PROVE OneRefreshPerProcess'
  BY <1>8 DEF RefreshTokenReused, Reads, Remember, Goto, Conclude, Fault, store, locks, callers
<1>9. ASSUME NEW i \in Instances, Write(i) PROVE OneRefreshPerProcess'
  BY <1>9 DEF Write, Remember, Goto, Conclude, locks, callers
<1>10. ASSUME NEW i \in Instances, WriteTimesOut(i) PROVE OneRefreshPerProcess'
  BY <1>10 DEF WriteTimesOut, Goto, Conclude, store, locks, callers
<1>11. ASSUME NEW i \in Instances, Finish(i) PROVE OneRefreshPerProcess'
  BY <1>11 DEF Finish, Released, Fault, store
<1>12. ASSUME NEW i \in Instances, PostFails(i) PROVE OneRefreshPerProcess'
  BY <1>12 DEF PostFails, Goto, Conclude, Fault, store, locks, callers
<1>13. ASSUME NEW i \in Instances, WriteFails(i) PROVE OneRefreshPerProcess'
  BY <1>13 DEF WriteFails, Goto, Conclude, Fault, store, locks, callers
<1>14. ASSUME NEW c \in Callers, Call(c) PROVE OneRefreshPerProcess'
  <2>. DEFINE k == InstOf[c]
  <2>1. CASE pc' = pc
    BY <1>14, <2>1 DEF Call
  <2>2. CASE Goto(k, "idle", Dedupe(k))
    <3>1. \A j \in Instances \ {k} : pc'[j] = pc[j]
      BY <2>2 DEF Goto
    <3>2. Running(k)' => \A j \in Siblings(k) : ~Running(j)
      BY <2>2 DEF Goto, Dedupe, Siblings
    <3>. QED BY <3>1, <3>2 DEF Siblings
  <2>. QED BY <1>14, <2>1, <2>2 DEF Call
<1>15. ASSUME NEW c \in Callers, JoinedReads(c) PROVE OneRefreshPerProcess'
  BY <1>15 DEF JoinedReads, store, locks, instance
<1>16. ASSUME NEW c \in Callers, JoinedEnds(c) PROVE OneRefreshPerProcess'
  BY <1>16 DEF JoinedEnds, Remember, Surprise, Fault, store, locks
<1>17. ASSUME NEW p \in Procs, Crash(p) PROVE OneRefreshPerProcess'
  BY <1>17 DEF Crash, Fault, store
<1>18. ASSUME Lapse PROVE OneRefreshPerProcess'
  BY <1>18 DEF Lapse, Fault, store, instance, callers
<1>19. ASSUME UNCHANGED vars PROVE OneRefreshPerProcess'
  BY <1>19 DEF vars, store, locks, instance, callers
<1>. QED BY <1>1, <1>2, <1>3, <1>4, <1>5, <1>6, <1>7, <1>8, <1>9, <1>10, <1>11, <1>12, <1>13, <1>14,
            <1>15, <1>16, <1>17, <1>18, <1>19 DEF Next, Progress

\* The instances of one process never refresh at the same time.
THEOREM ProcessRefreshesOnce == Spec => []OneRefreshPerProcess
<1>1. Init => OneRefreshPerProcess
  BY DEF Init, OneRefreshPerProcess, Running
<1>. QED BY <1>1, DedupeStep, Typed, PTL DEF Spec

-----------------------------------------------------------------------------
(* The Redis lock.                                                         *)

\* Unless a lock lapsed under its holder or Redis failed, who works holds it.
WorkersHoldLock ==
  faults \cap {"lapse", "redis"} = {} =>
    \A i \in Instances : pc[i] \in Working => redis = i

LEMMA LockStep ==
  ASSUME WorkersHoldLock, TypeOK, [Next]_vars
  PROVE  WorkersHoldLock'
<1> USE RefreshAssumption DEF TypeOK, WorkersHoldLock, Working
<1>1. ASSUME NEW i \in Instances, Load(i) PROVE WorkersHoldLock'
  BY <1>1 DEF Load, Remember, Goto, store, locks, callers
<1>2. ASSUME NEW i \in Instances, Normalise(i) PROVE WorkersHoldLock'
  BY <1>2 DEF Normalise, Remember, Goto, Surprise, locks, callers
<1>3. ASSUME NEW i \in Instances, AcquireRedis(i) PROVE WorkersHoldLock'
  BY <1>3 DEF AcquireRedis, Begin, Goto, Conclude, Fault, store, callers
<1>4. ASSUME NEW i \in Instances, AcquireMysql(i) PROVE WorkersHoldLock'
  BY <1>4 DEF AcquireMysql, Begin, Goto, Conclude, Fault, store, callers
<1>5. ASSUME NEW i \in Instances, Reload(i) PROVE WorkersHoldLock'
  BY <1>5 DEF Reload, Reads, Remember, Goto, Conclude, Fault, store, locks, callers
<1>6. ASSUME NEW i \in Instances, Rotate(i) PROVE WorkersHoldLock'
  BY <1>6 DEF Rotate, Goto, store, locks, callers
<1>7. ASSUME NEW i \in Instances, Refuse(i) PROVE WorkersHoldLock'
  BY <1>7 DEF Refuse, Goto, store, locks, callers
<1>8. ASSUME NEW i \in Instances, RefreshTokenReused(i) PROVE WorkersHoldLock'
  BY <1>8 DEF RefreshTokenReused, Reads, Remember, Goto, Conclude, Fault, store, locks, callers
<1>9. ASSUME NEW i \in Instances, Write(i) PROVE WorkersHoldLock'
  BY <1>9 DEF Write, Remember, Goto, Conclude, locks, callers
<1>10. ASSUME NEW i \in Instances, WriteTimesOut(i) PROVE WorkersHoldLock'
  BY <1>10 DEF WriteTimesOut, Goto, Conclude, store, locks, callers
<1>11. ASSUME NEW i \in Instances, Finish(i) PROVE WorkersHoldLock'
  BY <1>11 DEF Finish, Released, Fault, store
<1>12. ASSUME NEW i \in Instances, PostFails(i) PROVE WorkersHoldLock'
  BY <1>12 DEF PostFails, Goto, Conclude, Fault, store, locks, callers
<1>13. ASSUME NEW i \in Instances, WriteFails(i) PROVE WorkersHoldLock'
  BY <1>13 DEF WriteFails, Goto, Conclude, Fault, store, locks, callers
<1>14. ASSUME NEW c \in Callers, Call(c) PROVE WorkersHoldLock'
  BY <1>14 DEF Call, Goto, Dedupe, store, locks
<1>15. ASSUME NEW c \in Callers, JoinedReads(c) PROVE WorkersHoldLock'
  BY <1>15 DEF JoinedReads, store, locks, instance
<1>16. ASSUME NEW c \in Callers, JoinedEnds(c) PROVE WorkersHoldLock'
  BY <1>16 DEF JoinedEnds, Remember, Surprise, Fault, store, locks
<1>17. ASSUME NEW p \in Procs, Crash(p) PROVE WorkersHoldLock'
  BY <1>17 DEF Crash, Fault, store
<1>18. ASSUME Lapse PROVE WorkersHoldLock'
  BY <1>18 DEF Lapse, Fault, store, instance, callers
<1>19. ASSUME UNCHANGED vars PROVE WorkersHoldLock'
  BY <1>19 DEF vars, store, locks, instance, callers
<1>. QED BY <1>1, <1>2, <1>3, <1>4, <1>5, <1>6, <1>7, <1>8, <1>9, <1>10, <1>11, <1>12, <1>13, <1>14,
            <1>15, <1>16, <1>17, <1>18, <1>19 DEF Next, Progress

LEMMA LockHeld == Spec => []WorkersHoldLock
<1>1. Init => WorkersHoldLock
  BY DEF Init, WorkersHoldLock, Working
<1>. QED BY <1>1, LockStep, Typed, PTL DEF Spec

\* Two processes refresh at once only after a lock lapsed or Redis failed.
THEOREM RefreshesExclude == Spec => []OneRefreshUnlessLockLost
<1>1. WorkersHoldLock => OneRefreshUnlessLockLost
  BY DEF WorkersHoldLock, OneRefreshUnlessLockLost
<1>. QED BY <1>1, LockHeld, PTL

-----------------------------------------------------------------------------
(* Who knows which token.                                                  *)

\* A token in use is a real one; the loading of a raw row only knows the first.
Known ==
  /\ 1 <= db /\ db <= server /\ (raw => db = 1)
  /\ \A i \in Instances : mem[i] <= server /\ got[i] <= server
  /\ \A c \in Callers : seen[c] <= server /\ (caller[c] = "reading" => 1 <= seen[c])
  /\ \A i \in Instances :
       /\ pc[i] = "normalising" => got[i] = 1
       /\ pc[i] \notin {"idle", "normalising"} => 1 <= mem[i]
       /\ pc[i] \in {"locked", "posting", "reused"} => 1 <= got[i]

\* While i holds an answer that is not stored, only i knows the newest token.
AnswerUnknown == \A i \in Instances : pc[i] = "writing" =>
  /\ got[i] = server /\ db < server
  /\ \A j \in Instances : mem[j] < server /\ (j # i => got[j] < server)
  /\ \A c \in Callers : seen[c] < server

Knowledge == Known /\ AnswerUnknown

LEMMA KnowledgeStep ==
  ASSUME Knowledge, TypeOK, [Next]_vars
  PROVE  Knowledge'
<1> USE RefreshAssumption DEF TypeOK, Knowledge, Known, AnswerUnknown
<1>1. ASSUME NEW i \in Instances, Load(i) PROVE Knowledge'
  BY <1>1 DEF Load, Remember, Goto, store, locks, callers
<1>2. ASSUME NEW i \in Instances, Normalise(i) PROVE Knowledge'
  BY <1>2 DEF Normalise, Remember, Goto, Surprise, locks, callers
<1>3. ASSUME NEW i \in Instances, AcquireRedis(i) PROVE Knowledge'
  BY <1>3 DEF AcquireRedis, Begin, Goto, Conclude, Fault, store, callers
<1>4. ASSUME NEW i \in Instances, AcquireMysql(i) PROVE Knowledge'
  BY <1>4 DEF AcquireMysql, Begin, Goto, Conclude, Fault, store, callers
<1>5. ASSUME NEW i \in Instances, Reload(i) PROVE Knowledge'
  BY <1>5 DEF Reload, Reads, Remember, Goto, Conclude, Fault, store, locks, callers
<1>6. ASSUME NEW i \in Instances, Rotate(i) PROVE Knowledge'
  BY <1>6 DEF Rotate, Goto, store, locks, callers
<1>7. ASSUME NEW i \in Instances, Refuse(i) PROVE Knowledge'
  BY <1>7 DEF Refuse, Goto, store, locks, callers
<1>8. ASSUME NEW i \in Instances, RefreshTokenReused(i) PROVE Knowledge'
  BY <1>8 DEF RefreshTokenReused, Reads, Remember, Goto, Conclude, Fault, store, locks, callers
<1>9. ASSUME NEW i \in Instances, Write(i) PROVE Knowledge'
  BY <1>9 DEF Write, Remember, Goto, Conclude, locks, callers
<1>10. ASSUME NEW i \in Instances, WriteTimesOut(i) PROVE Knowledge'
  BY <1>10 DEF WriteTimesOut, Goto, Conclude, store, locks, callers
<1>11. ASSUME NEW i \in Instances, Finish(i) PROVE Knowledge'
  <2>1. \A c \in Callers : caller'[c] = "reading" => caller[c] = "reading"
    BY <1>11 DEF Finish, Ended
  <2>2. \A j \in Instances : pc'[j] = pc[j] \/ pc'[j] = "idle"
    BY <1>11 DEF Finish
  <2>3. \A j \in Instances : got'[j] = got[j] \/ (got'[j] = 0 /\ pc'[j] = "idle")
    BY <1>11 DEF Finish
  <2>4. UNCHANGED <<db, raw, server, mem, seen>>
    BY <1>11 DEF Finish, store
  <2>. QED BY <2>1, <2>2, <2>3, <2>4
<1>12. ASSUME NEW i \in Instances, PostFails(i) PROVE Knowledge'
  BY <1>12 DEF PostFails, Goto, Conclude, Fault, store, locks, callers
<1>13. ASSUME NEW i \in Instances, WriteFails(i) PROVE Knowledge'
  BY <1>13 DEF WriteFails, Goto, Conclude, Fault, store, locks, callers
<1>14. ASSUME NEW c \in Callers, Call(c) PROVE Knowledge'
  BY <1>14 DEF Call, Goto, Dedupe, store, locks
<1>15. ASSUME NEW c \in Callers, JoinedReads(c) PROVE Knowledge'
  BY <1>15 DEF JoinedReads, store, locks, instance
<1>16. ASSUME NEW c \in Callers, JoinedEnds(c) PROVE Knowledge'
  BY <1>16 DEF JoinedEnds, Remember, Surprise, Fault, store, locks
<1>17. ASSUME NEW p \in Procs, Crash(p) PROVE Knowledge'
  BY <1>17 DEF Crash, Fault, store
<1>18. ASSUME Lapse PROVE Knowledge'
  BY <1>18 DEF Lapse, Fault, store, instance, callers
<1>19. ASSUME UNCHANGED vars PROVE Knowledge'
  BY <1>19 DEF vars, store, locks, instance, callers
<1>. QED BY <1>1, <1>2, <1>3, <1>4, <1>5, <1>6, <1>7, <1>8, <1>9, <1>10, <1>11, <1>12, <1>13, <1>14,
            <1>15, <1>16, <1>17, <1>18, <1>19 DEF Next, Progress

LEMMA KnowledgeHolds == Spec => []Knowledge
<1>1. Init => Knowledge
  BY DEF Init, Knowledge, Known, AnswerUnknown
<1>. QED BY <1>1, KnowledgeStep, Typed, PTL DEF Spec


\* No refresh, however late its write, takes the stored token back.
THEOREM StoreAdvances == Spec => StoreNeverGoesBack
<1> DEFINE Back == db' >= db \/ \E i \in Instances : pc[i] = "normalising" /\ pc'[i] = "idle"
<1>1. ASSUME TypeOK, Knowledge, [Next]_vars PROVE [Back]_vars
  <2>1. ASSUME NEW i \in Instances, Write(i) PROVE Back
    BY <1>1, <2>1 DEF Write, Goto, Conclude, Knowledge, AnswerUnknown, TypeOK
  <2>2. ASSUME NEW i \in Instances, Normalise(i) PROVE Back
    BY <1>1, <2>2 DEF Normalise, Goto, TypeOK
  <2>3. CASE UNCHANGED db
    BY <1>1, <2>3 DEF TypeOK
  <2>4. UNCHANGED db \/ \E i \in Instances : Write(i) \/ Normalise(i)
    BY <1>1 DEF Next, Progress, vars, store, Load, AcquireRedis, AcquireMysql, Reload,
       Rotate, Refuse, RefreshTokenReused, WriteTimesOut, Finish, PostFails, WriteFails,
       Call, JoinedReads, JoinedEnds, Crash, Lapse
  <2>. QED BY <2>1, <2>2, <2>3, <2>4
<1>. QED BY <1>1, KnowledgeHolds, Typed, PTL DEF Spec, StoreNeverGoesBack

-----------------------------------------------------------------------------
(* No call waits on nothing.                                               *)

\* A step of a refresh that has not ended: only i moves, and it still runs.
Advance(i) ==
  /\ Running(i) /\ Running(i)'
  /\ \A j \in Instances : j # i => pc'[j] = pc[j] /\ mem'[j] = mem[j]
  /\ mem'[i] # 0 /\ UNCHANGED caller

LEMMA RefreshAdvances ==
  ASSUME TypeOK, Knowledge, NEW i \in Instances,
         \/ AcquireRedis(i) \/ AcquireMysql(i) \/ Reload(i) \/ Rotate(i) \/ Refuse(i)
         \/ RefreshTokenReused(i) \/ Write(i) \/ WriteTimesOut(i)
         \/ PostFails(i) \/ WriteFails(i)
  PROVE  Advance(i)
<1> USE DEF TypeOK, Running, Advance, callers, instance, Knowledge
<1>1. CASE AcquireRedis(i)
  BY <1>1 DEF AcquireRedis, Begin, Goto, Conclude, Known
<1>2. CASE AcquireMysql(i)
  BY <1>2 DEF AcquireMysql, Begin, Goto, Conclude, Known
<1>3. CASE Reload(i)
  BY <1>3 DEF Reload, Remember, Goto, Conclude, Known
<1>4. CASE Rotate(i) \/ Refuse(i)
  BY <1>4 DEF Rotate, Refuse, Goto, Known
<1>5. CASE RefreshTokenReused(i)
  BY <1>5 DEF RefreshTokenReused, Remember, Goto, Conclude, Known
<1>6. CASE Write(i)
  <2>1. 1 <= got[i]
    BY <1>6 DEF Write, Goto, Conclude, Known, AnswerUnknown
  <2>. QED BY <1>6, <2>1 DEF Write, Remember, Goto, Conclude
<1>7. CASE WriteTimesOut(i) \/ PostFails(i) \/ WriteFails(i)
  BY <1>7 DEF WriteTimesOut, PostFails, WriteFails, Goto, Conclude, Known
<1>. QED BY <1>1, <1>2, <1>3, <1>4, <1>5, <1>6, <1>7

\* Who waits has loaded its credentials and its instance is busy with a refresh;
\* a merged instance has a running one beside it.
Hands ==
  /\ \A i \in Instances :
       /\ pc[i] = "normalising" => mem[i] = 0
       /\ pc[i] = "merged" => \E j \in Siblings(i) : Running(j)
  /\ \A c \in Callers :
       /\ caller[c] \in {"owner", "joined", "reloading", "reading"} => mem[InstOf[c]] # 0
       /\ caller[c] \in {"owner", "joined"} => pc[InstOf[c]] # "idle"

LEMMA HandsStep ==
  ASSUME TypeOK, Knowledge, Hands, [Next]_vars
  PROVE  Hands'
<1> USE RefreshAssumption DEF TypeOK, Hands, Running, Siblings
<1>1. ASSUME NEW i \in Instances, Load(i) PROVE Hands'
  BY <1>1 DEF Load, Remember, Goto, callers, Knowledge, Known
<1>2. ASSUME NEW i \in Instances, Normalise(i) PROVE Hands'
  <2>1. /\ \A j \in Instances : j # i => pc'[j] = pc[j] /\ mem'[j] = mem[j]
        /\ pc[i] = "normalising" /\ pc'[i] = "idle" /\ mem'[i] = 1 /\ UNCHANGED caller
    BY <1>2 DEF Normalise, Remember, Goto, callers, Knowledge, Known
  <2>2. \A c \in Callers : InstOf[c] = i => caller[c] \notin {"owner", "joined"}
    BY <2>1
  <2>. QED BY <2>1, <2>2
<1>3. ASSUME NEW i \in Instances, Advance(i) PROVE Hands'
  <2>1. \A j \in Instances : Running(j) => Running(j)'
    BY <1>3 DEF Advance
  <2>. QED BY <1>3, <2>1 DEF Advance
<1>4. ASSUME NEW i \in Instances, Finish(i) PROVE Hands'
  <2>1. /\ pc[i] = "releasing" /\ UNCHANGED mem
        /\ \A j \in Instances : pc'[j] = IF j = i \/ (j \in Siblings(i) /\ pc[j] = "merged")
                                         THEN "idle" ELSE pc[j]
    BY <1>4 DEF Finish
  <2>2. \A c \in Callers :
          /\ caller'[c] \in {"owner", "joined", "reloading", "reading"}
               => caller[c] \in {"owner", "joined", "reloading", "reading"}
          /\ caller'[c] \in {"owner", "joined"}
               => caller[c] \in {"owner", "joined"} /\ ~Answered(i, c)
    BY <1>4 DEF Finish, Ended
  <2>3. ASSUME NEW j \in Instances, pc'[j] = "merged"
        PROVE  \E k \in Siblings(j) : Running(k)'
    BY <2>1, <2>3
  <2>. QED BY <2>1, <2>2, <2>3 DEF Answered
<1>5. ASSUME NEW c \in Callers, Call(c) PROVE Hands'
  <2> DEFINE k == InstOf[c]
  <2>1. /\ UNCHANGED mem /\ mem[k] # 0
        /\ caller' \in {[caller EXCEPT ![c] = "owner"], [caller EXCEPT ![c] = "joined"]}
    BY <1>5 DEF Call
  <2>2. \A j \in Instances : j # k => pc'[j] = pc[j]
    BY <1>5 DEF Call, Goto
  <2>3. \/ pc'[k] = pc[k] /\ pc[k] # "idle"
        \/ pc[k] = "idle" /\ pc'[k] = "locking"
        \/ pc[k] = "idle" /\ pc'[k] = "merged" /\ \E j \in Siblings(k) : Running(j)
    BY <1>5 DEF Call, Goto, Dedupe
  <2>4. \A j \in Instances : Running(j) => Running(j)'
    BY <2>2, <2>3
  <2>. QED BY <2>1, <2>2, <2>3, <2>4
<1>6. ASSUME NEW c \in Callers, JoinedReads(c) PROVE Hands'
  BY <1>6 DEF JoinedReads, instance
<1>7. ASSUME NEW c \in Callers, JoinedEnds(c) PROVE Hands'
  <2>1. mem'[InstOf[c]] # 0 /\ \A j \in Instances : j # InstOf[c] => mem'[j] = mem[j]
    BY <1>7 DEF JoinedEnds, Remember, Knowledge, Known
  <2>2. pc[InstOf[c]] # "normalising"
    BY <1>7 DEF JoinedEnds
  <2>. QED BY <1>7, <2>1, <2>2 DEF JoinedEnds
<1>8. ASSUME NEW p \in Procs, Crash(p) PROVE Hands'
  <2>1. \A j \in Instances : /\ ProcOf[j] = p => pc'[j] = "idle"
                             /\ ProcOf[j] # p => pc'[j] = pc[j] /\ mem'[j] = mem[j]
    BY <1>8 DEF Crash
  <2>2. \A c \in Callers : /\ ProcOf[InstOf[c]] = p => caller'[c] \in {"idle", "error"}
                           /\ ProcOf[InstOf[c]] # p => caller'[c] = caller[c]
    BY <1>8 DEF Crash
  <2>. QED BY <2>1, <2>2
<1>9. ASSUME Lapse \/ UNCHANGED vars PROVE Hands'
  BY <1>9 DEF Lapse, vars, instance, callers
<1>. QED BY RefreshAdvances, <1>1, <1>2, <1>3, <1>4, <1>5, <1>6, <1>7, <1>8, <1>9
         DEF Next, Progress

LEMMA HandsHold == Spec => []Hands
<1>1. Init => Hands
  BY DEF Init, Hands
<1>. QED BY <1>1, HandsStep, KnowledgeHolds, Typed, PTL DEF Spec

\* Every waiting call is in the hands of a running refresh: no end, failure or
\* crash leaves it waiting on nothing.  The safety half of EveryCallEnds.
THEOREM NobodyForgotten == Spec => []CallsInHand
<1>1. TypeOK /\ Hands => CallsInHand
  BY RefreshAssumption DEF TypeOK, Hands, CallsInHand, Running
<1>. QED BY <1>1, HandsHold, Typed, PTL

-----------------------------------------------------------------------------
(* Locks do not outlast their holder's work.                               *)

LEMMA LeftStep ==
  ASSUME TypeOK, NoLockLeftBehind, [Next]_vars
  PROVE  NoLockLeftBehind'
<1> USE RefreshAssumption DEF TypeOK, NoLockLeftBehind, Working
<1>1. ASSUME NEW i \in Instances, Load(i) PROVE NoLockLeftBehind'
  BY <1>1 DEF Load, Goto, locks
<1>2. ASSUME NEW i \in Instances, Normalise(i) PROVE NoLockLeftBehind'
  BY <1>2 DEF Normalise, Goto, locks
<1>3. ASSUME NEW i \in Instances, AcquireRedis(i) PROVE NoLockLeftBehind'
  BY <1>3 DEF AcquireRedis, Begin, Goto, Conclude
<1>4. ASSUME NEW i \in Instances, AcquireMysql(i) PROVE NoLockLeftBehind'
  BY <1>4 DEF AcquireMysql, Begin, Goto, Conclude
<1>5. ASSUME NEW i \in Instances, Reload(i) PROVE NoLockLeftBehind'
  BY <1>5 DEF Reload, Goto, Conclude, locks
<1>6. ASSUME NEW i \in Instances, Rotate(i) \/ Refuse(i) PROVE NoLockLeftBehind'
  BY <1>6 DEF Rotate, Refuse, Goto, locks
<1>7. ASSUME NEW i \in Instances, RefreshTokenReused(i) PROVE NoLockLeftBehind'
  BY <1>7 DEF RefreshTokenReused, Goto, Conclude, locks
<1>8. ASSUME NEW i \in Instances, Write(i) \/ WriteTimesOut(i) PROVE NoLockLeftBehind'
  BY <1>8 DEF Write, WriteTimesOut, Goto, Conclude, locks
<1>9. ASSUME NEW i \in Instances, PostFails(i) \/ WriteFails(i) PROVE NoLockLeftBehind'
  BY <1>9 DEF PostFails, WriteFails, Goto, Conclude, locks
<1>10. ASSUME NEW i \in Instances, Finish(i) PROVE NoLockLeftBehind'
  <2>1. i \notin {redis', mysql'} /\ {redis', mysql'} \cap Instances \subseteq {redis, mysql}
    BY <1>10 DEF Finish, Released
  <2>2. \A j \in Instances : j # i => pc'[j] = pc[j] \/ pc[j] = "merged"
    BY <1>10 DEF Finish
  <2>. QED BY <2>1, <2>2
<1>11. ASSUME NEW c \in Callers, Call(c) PROVE NoLockLeftBehind'
  BY <1>11 DEF Call, Goto, locks
<1>12. ASSUME NEW c \in Callers, JoinedReads(c) \/ JoinedEnds(c) PROVE NoLockLeftBehind'
  BY <1>12 DEF JoinedReads, JoinedEnds, instance, locks
<1>13. ASSUME NEW p \in Procs, Crash(p) PROVE NoLockLeftBehind'
  BY <1>13 DEF Crash
<1>14. ASSUME Lapse \/ UNCHANGED vars PROVE NoLockLeftBehind'
  BY <1>14 DEF Lapse, vars, instance, locks
<1>. QED BY <1>1, <1>2, <1>3, <1>4, <1>5, <1>6, <1>7, <1>8, <1>9, <1>10, <1>11, <1>12,
            <1>13, <1>14 DEF Next, Progress

\* An instance that holds the Redis or the MySQL lock works under it or is about
\* to release it, whatever fails.
THEOREM LocksReleased == Spec => []NoLockLeftBehind
<1>1. Init => NoLockLeftBehind
  BY RefreshAssumption DEF Init, NoLockLeftBehind
<1>. QED BY <1>1, LeftStep, Typed, PTL DEF Spec

-----------------------------------------------------------------------------
(* The newest token.                                                       *)

\* The MySQL lock is taken only without Redis.
MysqlIsFallback == mysql # Nobody => "redis" \in faults

Kept == MysqlIsFallback /\ NewestTokenKept

LEMMA KeptStep ==
  ASSUME Kept, TypeOK, Knowledge, [Next]_vars
  PROVE  Kept'
<1> USE RefreshAssumption DEF TypeOK, Kept, MysqlIsFallback, NewestTokenKept, Lost
<1>1. ASSUME NEW i \in Instances, Load(i) PROVE Kept'
  BY <1>1 DEF Load, Remember, Goto, store, locks, callers
<1>2. ASSUME NEW i \in Instances, Normalise(i) PROVE Kept'
  BY <1>2 DEF Normalise, Remember, Goto, Surprise, locks, callers
<1>3. ASSUME NEW i \in Instances, AcquireRedis(i) PROVE Kept'
  BY <1>3 DEF AcquireRedis, Begin, Goto, Conclude, Fault, store, callers
<1>4. ASSUME NEW i \in Instances, AcquireMysql(i) PROVE Kept'
  BY <1>4 DEF AcquireMysql, Begin, Goto, Conclude, Fault, store, callers
<1>5. ASSUME NEW i \in Instances, Reload(i) PROVE Kept'
  BY <1>5 DEF Reload, Reads, Remember, Goto, Conclude, Fault, store, locks, callers
<1>6. ASSUME NEW i \in Instances, Rotate(i) PROVE Kept'
  BY <1>6 DEF Rotate, Goto, store, locks, callers
<1>7. ASSUME NEW i \in Instances, Refuse(i) PROVE Kept'
  BY <1>7 DEF Refuse, Goto, store, locks, callers
<1>8. ASSUME NEW i \in Instances, RefreshTokenReused(i) PROVE Kept'
  BY <1>8 DEF RefreshTokenReused, Reads, Remember, Goto, Conclude, Fault, store, locks, callers
<1>9. ASSUME NEW i \in Instances, Write(i) PROVE Kept'
  BY <1>9 DEF Write, Remember, Goto, Conclude, locks, callers, Knowledge, AnswerUnknown
<1>10. ASSUME NEW i \in Instances, WriteTimesOut(i) PROVE Kept'
  BY <1>10 DEF WriteTimesOut, Goto, Conclude, store, locks, callers
<1>11. ASSUME NEW i \in Instances, Finish(i) PROVE Kept'
  BY <1>11 DEF Finish, Released, Fault, store
<1>12. ASSUME NEW i \in Instances, PostFails(i) PROVE Kept'
  BY <1>12 DEF PostFails, Goto, Conclude, Fault, store, locks, callers
<1>13. ASSUME NEW i \in Instances, WriteFails(i) PROVE Kept'
  BY <1>13 DEF WriteFails, Goto, Conclude, Fault, store, locks, callers
<1>14. ASSUME NEW c \in Callers, Call(c) PROVE Kept'
  BY <1>14 DEF Call, Goto, Dedupe, store, locks
<1>15. ASSUME NEW c \in Callers, JoinedReads(c) PROVE Kept'
  BY <1>15 DEF JoinedReads, store, locks, instance
<1>16. ASSUME NEW c \in Callers, JoinedEnds(c) PROVE Kept'
  BY <1>16 DEF JoinedEnds, Remember, Surprise, Fault, store, locks
<1>17. ASSUME NEW p \in Procs, Crash(p) PROVE Kept'
  BY <1>17 DEF Crash, Fault, store
<1>18. ASSUME Lapse PROVE Kept'
  BY <1>18 DEF Lapse, Fault, store, instance, callers
<1>19. ASSUME UNCHANGED vars PROVE Kept'
  BY <1>19 DEF vars, store, locks, instance, callers
<1>. QED BY <1>1, <1>2, <1>3, <1>4, <1>5, <1>6, <1>7, <1>8, <1>9, <1>10, <1>11, <1>12, <1>13, <1>14,
            <1>15, <1>16, <1>17, <1>18, <1>19 DEF Next, Progress

\* The newest token is lost only by a lost answer, a failed write, a crash, the
\* fallback to MySQL or the unlocked write of a loading instance.
THEOREM NewestKept == Spec => []NewestTokenKept
<1>1. Init => Kept
  BY DEF Init, Kept, MysqlIsFallback, NewestTokenKept, Lost
<1>2. Kept => NewestTokenKept
  BY DEF Kept
<1>. QED BY <1>1, <1>2, KeptStep, KnowledgeHolds, Typed, PTL DEF Spec

-----------------------------------------------------------------------------
(* The verdict CODEX_REFRESH_TOKEN_DEAD.                                    *)

Trouble(kinds) == kinds \cap {"lapse", "redis", "read", "late"} # {}

\* Under its lock a refresh posts the stored token; when the server refuses it,
\* the stored token is not the newest.
VerdictFounded ==
  ~Trouble(faults) => \A i \in Instances :
    /\ pc[i] = "posting" => (got[i] = db \/ db = 1)
    /\ pc[i] = "reused" => db # server

LEMMA VerdictStep ==
  ASSUME VerdictFounded, TypeOK, Knowledge, WorkersHoldLock, [Next]_vars
  PROVE  VerdictFounded'
<1> USE RefreshAssumption DEF TypeOK, VerdictFounded, Trouble, Knowledge, Known, WorkersHoldLock, Working
<1>1. ASSUME NEW i \in Instances, Load(i) PROVE VerdictFounded'
  BY <1>1 DEF Load, Remember, Goto, store, locks, callers
<1>2. ASSUME NEW i \in Instances, Normalise(i) PROVE VerdictFounded'
  BY <1>2 DEF Normalise, Remember, Goto, Surprise, locks, callers
<1>3. ASSUME NEW i \in Instances, AcquireRedis(i) PROVE VerdictFounded'
  BY <1>3 DEF AcquireRedis, Begin, Goto, Conclude, Fault, store, callers
<1>4. ASSUME NEW i \in Instances, AcquireMysql(i) PROVE VerdictFounded'
  BY <1>4 DEF AcquireMysql, Begin, Goto, Conclude, Fault, store, callers
<1>5. ASSUME NEW i \in Instances, Reload(i) PROVE VerdictFounded'
  BY <1>5 DEF Reload, Reads, Remember, Goto, Conclude, Fault, store, locks, callers
<1>6. ASSUME NEW i \in Instances, Rotate(i) PROVE VerdictFounded'
  BY <1>6 DEF Rotate, Goto, store, locks, callers
<1>7. ASSUME NEW i \in Instances, Refuse(i) PROVE VerdictFounded'
  BY <1>7 DEF Refuse, Goto, store, locks, callers
<1>8. ASSUME NEW i \in Instances, RefreshTokenReused(i) PROVE VerdictFounded'
  BY <1>8 DEF RefreshTokenReused, Reads, Remember, Goto, Conclude, Fault, store, locks, callers
<1>9. ASSUME NEW i \in Instances, Write(i) PROVE VerdictFounded'
  BY <1>9 DEF Write, Remember, Goto, Conclude, locks, callers
<1>10. ASSUME NEW i \in Instances, WriteTimesOut(i) PROVE VerdictFounded'
  BY <1>10 DEF WriteTimesOut, Goto, Conclude, store, locks, callers
<1>11. ASSUME NEW i \in Instances, Finish(i) PROVE VerdictFounded'
  BY <1>11 DEF Finish, Released, Fault, store
<1>12. ASSUME NEW i \in Instances, PostFails(i) PROVE VerdictFounded'
  BY <1>12 DEF PostFails, Goto, Conclude, Fault, store, locks, callers
<1>13. ASSUME NEW i \in Instances, WriteFails(i) PROVE VerdictFounded'
  BY <1>13 DEF WriteFails, Goto, Conclude, Fault, store, locks, callers
<1>14. ASSUME NEW c \in Callers, Call(c) PROVE VerdictFounded'
  BY <1>14 DEF Call, Goto, Dedupe, store, locks
<1>15. ASSUME NEW c \in Callers, JoinedReads(c) PROVE VerdictFounded'
  BY <1>15 DEF JoinedReads, store, locks, instance
<1>16. ASSUME NEW c \in Callers, JoinedEnds(c) PROVE VerdictFounded'
  BY <1>16 DEF JoinedEnds, Remember, Surprise, Fault, store, locks
<1>17. ASSUME NEW p \in Procs, Crash(p) PROVE VerdictFounded'
  BY <1>17 DEF Crash, Fault, store
<1>18. ASSUME Lapse PROVE VerdictFounded'
  BY <1>18 DEF Lapse, Fault, store, instance, callers
<1>19. ASSUME UNCHANGED vars PROVE VerdictFounded'
  BY <1>19 DEF vars, store, locks, instance, callers
<1>. QED BY <1>1, <1>2, <1>3, <1>4, <1>5, <1>6, <1>7, <1>8, <1>9, <1>10, <1>11, <1>12, <1>13, <1>14,
            <1>15, <1>16, <1>17, <1>18, <1>19 DEF Next, Progress

\* The account is given up on a token that is not lost only when a lock lapsed,
\* Redis or a read failed, or a caller took over an outdated row.
THEOREM DeadWhenLost == Spec => DeadOnlyWhenLost
<1> DEFINE Founded == \A i \in Instances :
             DeclaresDead(i) => Lost \/ faults' \cap {"lapse", "redis", "read", "late"} # {}
<1>1. ASSUME TypeOK, Knowledge, WorkersHoldLock, VerdictFounded, [Next]_vars
      PROVE  [Founded]_vars
  <2>. SUFFICES ASSUME NEW i \in Instances, DeclaresDead(i), ~Trouble(faults')
                PROVE  Lost
    BY DEF Trouble
  <2>1. RefreshTokenReused(i)
    <3>1. pc \in [Instances -> {"idle", "normalising", "merged", "locking", "locked",
                                "posting", "reused", "writing", "releasing"}]
      BY <1>1 DEF TypeOK
    <3>2. ASSUME NEW j \in Instances,
                 Load(j) \/ Normalise(j) \/ AcquireRedis(j) \/ AcquireMysql(j) \/ Reload(j)
          PROVE  FALSE
      BY <3>1, <3>2 DEF Load, Normalise, AcquireRedis, AcquireMysql, Begin, Reload, Goto, Conclude,
         DeclaresDead
    <3>3. ASSUME NEW j \in Instances, Rotate(j) \/ Refuse(j) \/ Write(j) \/ WriteTimesOut(j)
                                      \/ PostFails(j) \/ WriteFails(j) \/ Finish(j)
          PROVE  FALSE
      BY <3>1, <3>3 DEF Rotate, Refuse, Write, WriteTimesOut, PostFails, WriteFails, Finish,
         Goto, Conclude, DeclaresDead
    <3>4. ASSUME NEW j \in Instances, RefreshTokenReused(j)
          PROVE  j = i
      BY <3>1, <3>4 DEF RefreshTokenReused, Goto, Conclude, DeclaresDead
    <3>5. ASSUME NEW c \in Callers, Call(c) \/ JoinedReads(c) \/ JoinedEnds(c)
          PROVE  FALSE
      BY <3>1, <3>5 DEF Call, JoinedReads, JoinedEnds, instance, Goto, DeclaresDead
    <3>6. ASSUME Lapse \/ (\E p \in Procs : Crash(p)) \/ UNCHANGED vars
          PROVE  FALSE
      BY <3>1, <3>6 DEF Lapse, Crash, vars, instance, DeclaresDead
    <3>. QED BY <1>1, <3>2, <3>3, <3>4, <3>5, <3>6 DEF Next, Progress
  <2>2. ~Trouble(faults)
    BY <2>1 DEF RefreshTokenReused, Reads, Fault, Trouble
  <2>3. db # server
    BY <1>1, <2>2 DEF VerdictFounded, DeclaresDead
  <2>4. \A j \in Instances : pc[j] # "writing"
    BY <1>1, <2>2 DEF WorkersHoldLock, Working, Trouble, DeclaresDead
  <2>. QED BY <2>3, <2>4 DEF Lost
<1>2. Init => VerdictFounded
  BY DEF Init, VerdictFounded
<1>. QED BY <1>1, <1>2, VerdictStep, LockHeld, KnowledgeHolds, Typed, PTL
         DEF Spec, DeadOnlyWhenLost

=============================================================================
