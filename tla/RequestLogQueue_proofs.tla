----------------------- MODULE RequestLogQueue_proofs -----------------------
(***************************************************************************)
(* What holds of the request logs for any number of processes, logs,       *)
(* models and faults.  The argument is one of places: a log is in one      *)
(* place at a time (OnePlace), the places follow the phases of             *)
(* processQueue (Phases), and how often a log is written and counted       *)
(* follows from its place (Written).                                       *)
(***************************************************************************)
EXTENDS RequestLogQueue, TLAPS

-----------------------------------------------------------------------------
(* The list.                                                               *)

Distinct == \A m, n \in 1..Len(queue) : queue[m] = queue[n] => m = n

LEMMA Pushed ==
  ASSUME queue \in Seq(Logs), NEW l \in Logs, queue' = Append(queue, l)
  PROVE  /\ Queued' = Queued \cup {l}
         /\ Distinct /\ l \notin Queued => Distinct'
<1>1. Len(queue') = Len(queue) + 1 /\ queue'[Len(queue) + 1] = l
  OBVIOUS
<1>2. \A n \in 1..Len(queue) : queue'[n] = queue[n]
  OBVIOUS
<1>. QED BY <1>1, <1>2 DEF Queued, Distinct

LEMMA Popped ==
  ASSUME queue \in Seq(Logs), queue # <<>>, Distinct, queue' = Tail(queue)
  PROVE  /\ Head(queue) \in Queued /\ Queued' = Queued \ {Head(queue)}
         /\ Distinct'
<1>1. Len(queue') = Len(queue) - 1 /\ Len(queue) >= 1 /\ Len(queue) \in Nat
  OBVIOUS
<1>2. \A n \in 1..Len(queue') : queue'[n] = queue[n + 1]
  OBVIOUS
<1>3. Head(queue) = queue[1]
  OBVIOUS
<1>4. \A q : q \in Queued' <=> q \in Queued \ {Head(queue)}
  <2>1. ASSUME NEW n \in 1..Len(queue')
        PROVE  queue'[n] \in Queued \ {Head(queue)}
    <3>1. n + 1 \in 1..Len(queue) /\ 1 \in 1..Len(queue) /\ n + 1 # 1
      BY <1>1
    <3>. QED BY <1>2, <1>3, <3>1 DEF Queued, Distinct
  <2>2. ASSUME NEW n \in 1..Len(queue), queue[n] # Head(queue)
        PROVE  queue[n] \in Queued'
    <3>1. n - 1 \in 1..Len(queue') /\ queue'[n - 1] = queue[n]
      BY <1>1, <1>2, <1>3, <2>2
    <3>. QED BY <3>1 DEF Queued
  <2>. QED BY <2>1, <2>2 DEF Queued
<1>5. Distinct'
  BY <1>1, <1>2 DEF Distinct
<1>6. 1 \in 1..Len(queue)
  BY <1>1
<1>7. Head(queue) \in Queued
  BY <1>3, <1>6 DEF Queued
<1>8. Queued' = Queued \ {Head(queue)}
  BY <1>4
<1>. QED BY <1>5, <1>7, <1>8

-----------------------------------------------------------------------------
(* Types                                                                   *)

LEMMA PlusType ==
  ASSUME NEW f \in [Logs -> Nat], NEW S
  PROVE  Plus(f, S) \in [Logs -> Nat]
BY DEF Plus

LEMMA GrowType ==
  ASSUME NEW f \in [Workers -> SUBSET Logs], NEW w \in Workers, NEW l \in Logs
  PROVE  [f EXCEPT ![w] = f[w] \cup {l}] \in [Workers -> SUBSET Logs]
OBVIOUS

LEMMA AppendType ==
  ASSUME NEW q \in Seq(Logs), NEW l \in Logs
  PROVE  Append(q, l) \in Seq(Logs)
OBVIOUS

LEMMA TypeStep ==
  ASSUME TypeOK, [Next]_vars
  PROVE  TypeOK'
<1> USE QueueAssumption DEF TypeOK, FaultKinds, worker, stats
<1>1. ASSUME NEW w \in Workers, StartBatch(w) PROVE TypeOK'
  BY <1>1 DEF StartBatch, Goto
<1>2. ASSUME NEW w \in Workers, Pop(w) PROVE TypeOK'
  BY <1>2 DEF Pop
<1>3. ASSUME NEW w \in Workers, PopFails(w) PROVE TypeOK'
  BY <1>3 DEF PopFails, Goto, Fault
<1>4. ASSUME NEW w \in Workers, BatchPopped(w) PROVE TypeOK'
  BY <1>4 DEF BatchPopped, Goto
<1>5. ASSUME NEW w \in Workers, Insert(w) PROVE TypeOK'
  <2>. PICK x \in batch[w] : Insert(w)!(x)
    BY <1>5 DEF Insert
  <2>1. faults' \subseteq FaultKinds
    BY DEF Fault
  <2>2. batch' \in [Workers -> SUBSET Logs]
    OBVIOUS
  <2>3. rows' = rows \/ rows' = [rows EXCEPT ![w] = rows[w] \cup {x}]
    OBVIOUS
  <2>4. rows' \in [Workers -> SUBSET Logs]
    <3>1. rows \in [Workers -> SUBSET Logs] /\ x \in Logs
      OBVIOUS
    <3>2. [rows EXCEPT ![w] = rows[w] \cup {x}] \in [Workers -> SUBSET Logs]
      BY <3>1, GrowType, Zenon
    <3>. QED BY <2>3, <3>1, <3>2
  <2>. QED BY <2>1, <2>2, <2>4
<1>6. ASSUME NEW w \in Workers, Commit(w) PROVE TypeOK'
  BY <1>6 DEF Commit, Plus
<1>7. ASSUME NEW w \in Workers, Rollback(w) PROVE TypeOK'
  <2>1. faults' \subseteq FaultKinds
    BY <1>7 DEF Rollback, Fault
  <2>2. table' = table \/ \E S : table' = Plus(table, S)
    BY <1>7 DEF Rollback
  <2>3. table' \in [Logs -> Nat]
    <3>1. table \in [Logs -> Nat]
      OBVIOUS
    <3>2. \A S : Plus(table, S) \in [Logs -> Nat]
      BY <3>1, PlusType, Zenon
    <3>. QED BY <2>2, <3>1, <3>2
  <2>. QED BY <1>7, <2>1, <2>3 DEF Rollback
<1>18. ASSUME NEW w \in Workers, Deadlock(w) PROVE TypeOK'
  <2>1. faults' \subseteq FaultKinds
    BY <1>18 DEF Deadlock, Fault
  <2>. QED BY <1>18, <2>1 DEF Deadlock, Goto
<1>19. ASSUME NEW w \in Workers, InsertAlone(w) PROVE TypeOK'
  <2>. PICK x \in batch[w] : InsertAlone(w)!(x)
    BY <1>19 DEF InsertAlone
  <2>1. faults' \subseteq FaultKinds
    BY DEF Fault
  <2>2. table' = table \/ table' = Plus(table, {x})
    OBVIOUS
  <2>3. table' \in [Logs -> Nat]
    <3>1. table \in [Logs -> Nat]
      OBVIOUS
    <3>2. \A S : Plus(table, S) \in [Logs -> Nat]
      BY <3>1, PlusType, Zenon
    <3>. QED BY <2>2, <3>1, <3>2
  <2>4. owed' = owed \/ owed' = [owed EXCEPT ![w] = owed[w] \cup {x}]
    OBVIOUS
  <2>5. owed' \in [Workers -> SUBSET Logs]
    <3>1. owed \in [Workers -> SUBSET Logs] /\ x \in Logs
      OBVIOUS
    <3>2. [owed EXCEPT ![w] = owed[w] \cup {x}] \in [Workers -> SUBSET Logs]
      BY <3>1, GrowType, Zenon
    <3>. QED BY <2>4, <3>1, <3>2
  <2>. QED BY <2>1, <2>3, <2>5
<1>8. ASSUME NEW w \in Workers, NEW k \in Models, FlushModel(w, k) PROVE TypeOK'
  BY <1>8 DEF FlushModel, Plus, OfModel
<1>9. ASSUME NEW w \in Workers, NEW k \in Models, FlushTotal(w, k) PROVE TypeOK'
  BY <1>9 DEF FlushTotal, Plus, OfModel
<1>10. ASSUME NEW w \in Workers, FlushEnds(w) PROVE TypeOK'
  BY <1>10 DEF FlushEnds, Goto, Fault
<1>11. ASSUME NEW w \in Workers, NEW l \in Logs, Push(w, l) PROVE TypeOK'
  <2>1. faults' \subseteq FaultKinds
    BY <1>11 DEF Push, Fault
  <2>2. queue' = Append(queue, l) \/ queue' = queue
    BY <1>11 DEF Push
  <2>3. queue' \in Seq(Logs)
    BY <2>2, AppendType
  <2>. QED BY <1>11, <2>1, <2>2, <2>3 DEF Push
<1>12. ASSUME NEW w \in Workers, NEW l \in Logs, CreateDirectly(w, l) PROVE TypeOK'
  <2>1. faults' \subseteq FaultKinds
    BY <1>12 DEF CreateDirectly, Fault
  <2>2. table' = Plus(table, {l}) \/ table' = table
    BY <1>12 DEF CreateDirectly
  <2>3. table' \in [Logs -> Nat]
    <3>1. table \in [Logs -> Nat]
      OBVIOUS
    <3>2. Plus(table, {l}) \in [Logs -> Nat]
      BY <3>1, PlusType, Zenon
    <3>. QED BY <2>2, <3>1, <3>2
  <2>4. direct' \subseteq Logs
    BY <1>12 DEF CreateDirectly
  <2>. QED BY <1>12, <2>1, <2>2, <2>3, <2>4 DEF CreateDirectly
<1>13. ASSUME NEW l \in Logs, CountDirectly(l) PROVE TypeOK'
  <2>1. faults' \subseteq FaultKinds
    BY <1>13 DEF CountDirectly, Fault
  <2>2. inModel' = Plus(inModel, {l}) \/ inModel' = inModel
    BY <1>13 DEF CountDirectly
  <2>3. inModel' \in [Logs -> Nat]
    <3>1. inModel \in [Logs -> Nat]
      OBVIOUS
    <3>2. Plus(inModel, {l}) \in [Logs -> Nat]
      BY <3>1, PlusType, Zenon
    <3>. QED BY <2>2, <3>1, <3>2
  <2>4. inTotal' = Plus(inTotal, {l}) \/ inTotal' = inTotal
    BY <1>13 DEF CountDirectly
  <2>5. inTotal' \in [Logs -> Nat]
    <3>1. inTotal \in [Logs -> Nat]
      OBVIOUS
    <3>2. Plus(inTotal, {l}) \in [Logs -> Nat]
      BY <3>1, PlusType, Zenon
    <3>. QED BY <2>4, <3>1, <3>2
  <2>6. requests' \in Nat
    BY <1>13 DEF CountDirectly
  <2>. QED BY <1>13, <2>1, <2>2, <2>3, <2>4, <2>5, <2>6 DEF CountDirectly
<1>14. ASSUME NEW w \in Workers, Disconnect(w) PROVE TypeOK'
  BY <1>14 DEF Disconnect, Fault
<1>15. ASSUME NEW w \in Workers, Reconnect(w) PROVE TypeOK'
  BY <1>15 DEF Reconnect
<1>16. ASSUME NEW w \in Workers, Crash(w) PROVE TypeOK'
  BY <1>16 DEF Crash, Fault
<1>17. ASSUME UNCHANGED vars PROVE TypeOK'
  BY <1>17 DEF vars
<1>. QED BY <1>1, <1>2, <1>3, <1>4, <1>5, <1>6, <1>7, <1>8, <1>9, <1>10,
             <1>11, <1>12, <1>13, <1>14, <1>15, <1>16, <1>17, <1>18, <1>19
         DEF Next, Work

\* Every variable keeps its type.
THEOREM Typed == Spec => []TypeOK
<1>1. Init => TypeOK
  BY QueueAssumption DEF Init, TypeOK, FaultKinds, worker, stats
<1>. QED BY <1>1, TypeStep, PTL DEF Spec

-----------------------------------------------------------------------------
(* The phases of processQueue and the places of a log.                     *)

\* What a process holds fits the step it is in.
Phases == \A w \in Workers :
  /\ batch[w] # {} => pc[w] \in {"popping", "inserting", "autocommit"}
  /\ rows[w] # {} => pc[w] = "inserting"
  /\ owed[w] # {} => pc[w] \in {"autocommit", "flushing"}
  /\ half[w] # None => pc[w] = "flushing"

LEMMA PhasesStep ==
  ASSUME TypeOK, Phases, [Next]_vars
  PROVE  Phases'
<1> USE QueueAssumption DEF TypeOK, Phases, worker, stats
<1>1. ASSUME NEW w \in Workers, StartBatch(w) PROVE Phases'
  BY <1>1 DEF StartBatch, Goto
<1>2. ASSUME NEW w \in Workers, Pop(w) PROVE Phases'
  BY <1>2 DEF Pop
<1>3. ASSUME NEW w \in Workers, PopFails(w) PROVE Phases'
  BY <1>3 DEF PopFails, Goto, Fault
<1>4. ASSUME NEW w \in Workers, BatchPopped(w) PROVE Phases'
  BY <1>4 DEF BatchPopped, Goto
<1>5. ASSUME NEW w \in Workers, Insert(w) PROVE Phases'
  BY <1>5 DEF Insert, Fault
<1>6. ASSUME NEW w \in Workers, Commit(w) PROVE Phases'
  BY <1>6 DEF Commit, Goto, Plus
<1>7. ASSUME NEW w \in Workers, Rollback(w) PROVE Phases'
  BY <1>7 DEF Rollback, Fault
<1>18. ASSUME NEW w \in Workers, Deadlock(w) PROVE Phases'
  BY <1>18 DEF Deadlock, Goto, Fault
<1>19. ASSUME NEW w \in Workers, InsertAlone(w) PROVE Phases'
  BY <1>19 DEF InsertAlone, Fault
<1>8. ASSUME NEW w \in Workers, NEW k \in Models, FlushModel(w, k) PROVE Phases'
  BY <1>8 DEF FlushModel, Plus, OfModel
<1>9. ASSUME NEW w \in Workers, NEW k \in Models, FlushTotal(w, k) PROVE Phases'
  BY <1>9 DEF FlushTotal, Plus, OfModel
<1>10. ASSUME NEW w \in Workers, FlushEnds(w) PROVE Phases'
  BY <1>10 DEF FlushEnds, Goto, Fault
<1>11. ASSUME NEW w \in Workers, NEW l \in Logs, Push(w, l) PROVE Phases'
  BY <1>11 DEF Push, Fault
<1>12. ASSUME NEW w \in Workers, NEW l \in Logs, CreateDirectly(w, l) PROVE Phases'
  BY <1>12 DEF CreateDirectly, Fault, Plus
<1>13. ASSUME NEW l \in Logs, CountDirectly(l) PROVE Phases'
  BY <1>13 DEF CountDirectly, Fault, Plus
<1>14. ASSUME NEW w \in Workers, Disconnect(w) PROVE Phases'
  BY <1>14 DEF Disconnect, Fault
<1>15. ASSUME NEW w \in Workers, Reconnect(w) PROVE Phases'
  BY <1>15 DEF Reconnect
<1>16. ASSUME NEW w \in Workers, Crash(w) PROVE Phases'
  BY <1>16 DEF Crash, Fault
<1>17. ASSUME UNCHANGED vars PROVE Phases'
  BY <1>17 DEF vars
<1>. QED BY <1>1, <1>2, <1>3, <1>4, <1>5, <1>6, <1>7, <1>8, <1>9, <1>10,
             <1>11, <1>12, <1>13, <1>14, <1>15, <1>16, <1>17, <1>18, <1>19
         DEF Next, Work

Held(w) == batch[w] \cup rows[w] \cup owed[w]

\* No entry twice in the list, and no log in two places.
OnePlace ==
  /\ Distinct
  /\ Queued \cap fresh = {} /\ direct \cap (fresh \cup Queued) = {}
  /\ undone \cap (fresh \cup Queued \cup direct) = {}
  /\ \A w \in Workers :
       /\ Held(w) \cap (fresh \cup Queued \cup direct) = {}
       /\ (rows[w] \cup owed[w]) \cap batch[w] = {}
       /\ undone \cap (batch[w] \cup rows[w]) = {}
       /\ \A v \in Workers : v # w => Held(v) \cap Held(w) = {}

LEMMA QueueFrame ==
  ASSUME UNCHANGED queue
  PROVE  Queued' = Queued /\ Distinct' = Distinct
BY DEF Queued, Distinct

LEMMA OnePlaceStep ==
  ASSUME TypeOK, Phases, OnePlace, [Next]_vars
  PROVE  OnePlace'
<1> USE QueueAssumption DEF TypeOK, Phases, OnePlace, Held, worker, stats
<1>1. ASSUME NEW w \in Workers, StartBatch(w) PROVE OnePlace'
  BY <1>1, QueueFrame DEF StartBatch, Goto
<1>2. ASSUME NEW w \in Workers, Pop(w) PROVE OnePlace'
  <2>1. Head(queue) \in Queued /\ Queued' = Queued \ {Head(queue)} /\ Distinct'
    BY <1>2, Popped DEF Pop
  <2>. QED BY <1>2, <2>1 DEF Pop
<1>3. ASSUME NEW w \in Workers, PopFails(w) PROVE OnePlace'
  BY <1>3, QueueFrame DEF PopFails, Goto, Fault
<1>4. ASSUME NEW w \in Workers, BatchPopped(w) PROVE OnePlace'
  BY <1>4, QueueFrame DEF BatchPopped, Goto
<1>5. ASSUME NEW w \in Workers, Insert(w) PROVE OnePlace'
  BY <1>5, QueueFrame DEF Insert, Fault
<1>6. ASSUME NEW w \in Workers, Commit(w) PROVE OnePlace'
  BY <1>6, QueueFrame DEF Commit, Goto
<1>7. ASSUME NEW w \in Workers, Rollback(w) PROVE OnePlace'
  BY <1>7, QueueFrame DEF Rollback, Fault
<1>18. ASSUME NEW w \in Workers, Deadlock(w) PROVE OnePlace'
  BY <1>18, QueueFrame DEF Deadlock, Goto, Fault
<1>19. ASSUME NEW w \in Workers, InsertAlone(w) PROVE OnePlace'
  BY <1>19, QueueFrame DEF InsertAlone, Fault
<1>8. ASSUME NEW w \in Workers, NEW k \in Models, FlushModel(w, k) PROVE OnePlace'
  BY <1>8, QueueFrame DEF FlushModel, OfModel
<1>9. ASSUME NEW w \in Workers, NEW k \in Models, FlushTotal(w, k) PROVE OnePlace'
  BY <1>9, QueueFrame DEF FlushTotal, OfModel
<1>10. ASSUME NEW w \in Workers, FlushEnds(w) PROVE OnePlace'
  BY <1>10, QueueFrame DEF FlushEnds, Goto, Fault
<1>11. ASSUME NEW w \in Workers, NEW l \in Logs, Push(w, l) PROVE OnePlace'
  <2>1. fresh' = fresh \ {l} /\ l \in fresh /\ UNCHANGED <<direct, worker, undone>>
    BY <1>11 DEF Push
  <2>2. queue' = Append(queue, l) \/ queue' = queue
    BY <1>11 DEF Push
  <2>3. CASE queue' = Append(queue, l)
    <3>1. Queued' = Queued \cup {l} /\ Distinct'
      BY <2>1, <2>3, Pushed
    <3>. QED BY <2>1, <3>1
  <2>4. CASE queue' = queue
    BY <2>1, <2>4, QueueFrame
  <2>. QED BY <2>2, <2>3, <2>4
<1>12. ASSUME NEW w \in Workers, NEW l \in Logs, CreateDirectly(w, l) PROVE OnePlace'
  BY <1>12, QueueFrame DEF CreateDirectly, Fault
<1>13. ASSUME NEW l \in Logs, CountDirectly(l) PROVE OnePlace'
  BY <1>13, QueueFrame DEF CountDirectly, Fault
<1>14. ASSUME NEW w \in Workers, Disconnect(w) PROVE OnePlace'
  BY <1>14, QueueFrame DEF Disconnect, Fault
<1>15. ASSUME NEW w \in Workers, Reconnect(w) PROVE OnePlace'
  BY <1>15, QueueFrame DEF Reconnect
<1>16. ASSUME NEW w \in Workers, Crash(w) PROVE OnePlace'
  BY <1>16, QueueFrame DEF Crash, Fault
<1>17. ASSUME UNCHANGED vars PROVE OnePlace'
  BY <1>17, QueueFrame DEF vars
<1>. QED BY <1>1, <1>2, <1>3, <1>4, <1>5, <1>6, <1>7, <1>8, <1>9, <1>10,
             <1>11, <1>12, <1>13, <1>14, <1>15, <1>16, <1>17, <1>18, <1>19
         DEF Next, Work

\* How often a log has been written and counted follows from where it is.
Written == \A l \in Logs :
  /\ table[l] \in {0, 1}
  /\ inTotal[l] <= inModel[l] /\ inModel[l] <= (IF l \in undone THEN 1 ELSE table[l])
  /\ l \in fresh \/ l \in Queued \/ l \in undone => table[l] = 0
  /\ l \in direct => table[l] = 1 /\ inModel[l] = 0
  /\ \A w \in Workers :
       /\ l \in batch[w] \cup rows[w] => table[l] = 0
       /\ l \in owed[w] => /\ table[l] = (IF l \in undone THEN 0 ELSE 1)
                           /\ inTotal[l] = 0
                           /\ inModel[l] = (IF half[w] = ModelOf[l] THEN 1 ELSE 0)

LEMMA WrittenStep ==
  ASSUME TypeOK, Phases, OnePlace, Written, [Next]_vars
  PROVE  Written'
<1> USE QueueAssumption DEF TypeOK, Phases, OnePlace, Held, Written, worker, stats
<1>1. ASSUME NEW w \in Workers, StartBatch(w) PROVE Written'
  BY <1>1, QueueFrame DEF StartBatch, Goto
<1>2. ASSUME NEW w \in Workers, Pop(w) PROVE Written'
  <2>1. Head(queue) \in Queued /\ Queued' = Queued \ {Head(queue)}
    BY <1>2, Popped DEF Pop
  <2>. QED BY <1>2, <2>1 DEF Pop
<1>3. ASSUME NEW w \in Workers, PopFails(w) PROVE Written'
  BY <1>3, QueueFrame DEF PopFails, Goto, Fault
<1>4. ASSUME NEW w \in Workers, BatchPopped(w) PROVE Written'
  BY <1>4, QueueFrame DEF BatchPopped, Goto
<1>5. ASSUME NEW w \in Workers, Insert(w) PROVE Written'
  BY <1>5, QueueFrame DEF Insert, Fault
<1>6. ASSUME NEW w \in Workers, Commit(w) PROVE Written'
  <2>1. /\ UNCHANGED <<fresh, direct, batch, half, undone, stats>> /\ Queued' = Queued
        /\ batch[w] = {} /\ half[w] = None
        /\ rows' = [rows EXCEPT ![w] = {}]
        /\ owed' = [owed EXCEPT ![w] = owed[w] \cup rows[w]]
    BY <1>6, QueueFrame DEF Commit
  <2>2. \A l \in Logs : table'[l] = IF l \in rows[w] THEN table[l] + 1 ELSE table[l]
    BY <1>6 DEF Commit, Plus
  <2>3. ASSUME NEW l \in rows[w]
        PROVE  /\ table[l] = 0 /\ inModel[l] = 0 /\ inTotal[l] = 0 /\ half[w] # ModelOf[l]
               /\ l \notin fresh /\ l \notin Queued /\ l \notin direct /\ l \notin undone
               /\ \A v \in Workers : v # w => l \notin Held(v)
    BY <2>1, <2>3
  <2>4. rows[w] = {} \/ owed[w] = {}
    BY <1>6 DEF Commit
  <2>. QED BY <2>1, <2>2, <2>3, <2>4
<1>7. ASSUME NEW w \in Workers, Rollback(w) PROVE Written'
  <2>1. /\ UNCHANGED <<fresh, half, direct, undone, stats>> /\ Queued' = Queued
        /\ batch' = [batch EXCEPT ![w] = {}] /\ rows' = [rows EXCEPT ![w] = {}]
        /\ owed' = [owed EXCEPT ![w] = {}]
    BY <1>7, QueueFrame DEF Rollback
  <2>2. PICK S : S \subseteq batch[w] \cup rows[w] /\ table' = Plus(table, S)
    <3>1. CASE UNCHANGED table
      <4>1. table' = Plus(table, {})
        BY <3>1 DEF Plus
      <4>. QED BY <4>1
    <3>2. CASE \E S \in Unanswered(w) : table' = Plus(table, S)
      BY <3>2 DEF Unanswered
    <3>. QED BY <1>7, <3>1, <3>2 DEF Rollback
  <2>3. \A l \in Logs : table'[l] = IF l \in S THEN table[l] + 1 ELSE table[l]
    BY <2>2 DEF Plus
  <2>4. \A l \in S : /\ table[l] = 0 /\ inModel[l] = 0
                    /\ l \notin fresh /\ l \notin Queued /\ l \notin direct /\ l \notin undone
                    /\ \A v \in Workers : v # w => l \notin Held(v)
    BY <2>2
  <2>. QED BY <2>1, <2>2, <2>3, <2>4
<1>18. ASSUME NEW w \in Workers, Deadlock(w) PROVE Written'
  <2>. PICK x \in batch[w] : Deadlock(w)!(x)
    BY <1>18 DEF Deadlock
  <2>1. /\ UNCHANGED <<fresh, half, direct, table, stats>> /\ Queued' = Queued
        /\ batch' = [batch EXCEPT ![w] = batch[w] \ {x}] /\ rows' = [rows EXCEPT ![w] = {}]
        /\ owed' = [owed EXCEPT ![w] = rows[w]] /\ undone' = undone \cup rows[w]
        /\ half[w] = None
    BY QueueFrame DEF Goto
  <2>2. \A l \in rows[w] : /\ table[l] = 0 /\ inModel[l] = 0 /\ inTotal[l] = 0
                          /\ half[w] # ModelOf[l] /\ l \notin direct
                          /\ \A v \in Workers : v # w => l \notin Held(v)
    BY <2>1
  <2>3. ASSUME NEW l \in Logs PROVE Written!(l)'
    <3>1. CASE l \in rows[w]
      BY <2>1, <2>2, <3>1
    <3>2. CASE l \notin rows[w]
      BY <2>1, <3>2
    <3>. QED BY <3>1, <3>2
  <2>. QED BY <2>3
<1>19. ASSUME NEW w \in Workers, InsertAlone(w) PROVE Written'
  <2>. PICK x \in batch[w] : InsertAlone(w)!(x)
    BY <1>19 DEF InsertAlone
  <2>1. /\ UNCHANGED <<fresh, rows, half, direct, undone, stats>> /\ Queued' = Queued
        /\ batch' = [batch EXCEPT ![w] = batch[w] \ {x}]
        /\ x \in Logs /\ half[w] = None
    BY QueueFrame
  <2>2. /\ table[x] = 0 /\ inModel[x] = 0 /\ inTotal[x] = 0 /\ half[w] # ModelOf[x]
        /\ x \notin fresh /\ x \notin Queued /\ x \notin direct /\ x \notin undone
        /\ x \notin rows[w] /\ \A v \in Workers : v # w => x \notin Held(v)
    BY <2>1
  <2>3. CASE table' = Plus(table, {x}) /\ owed' = [owed EXCEPT ![w] = owed[w] \cup {x}]
    <3>1. \A l \in Logs : table'[l] = IF l = x THEN table[l] + 1 ELSE table[l]
      BY <2>3 DEF Plus
    <3>3. /\ \A v \in Workers : v # w => batch'[v] = batch[v] /\ owed'[v] = owed[v]
          /\ batch'[w] = batch[w] \ {x} /\ owed'[w] = owed[w] \cup {x}
      BY <2>1, <2>3
    <3>2. ASSUME NEW l \in Logs PROVE Written!(l)'
      <4>0. Written!(l)
        OBVIOUS
      <4> HIDE DEF TypeOK, Phases, OnePlace
      <4>1. CASE l = x
        BY <2>1, <2>2, <3>3, <3>1, <4>1
      <4>2. CASE l # x
        BY <2>1, <3>3, <3>1, <4>0, <4>2
      <4>. QED BY <4>1, <4>2
    <3>. QED BY <3>2
  <2>4. CASE UNCHANGED <<table, owed>>
    BY <2>1, <2>4
  <2>. QED BY <2>3, <2>4
<1>8. ASSUME NEW w \in Workers, NEW k \in Models, FlushModel(w, k) PROVE Written'
  BY <1>8, QueueFrame DEF FlushModel, Plus, OfModel
<1>9. ASSUME NEW w \in Workers, NEW k \in Models, FlushTotal(w, k) PROVE Written'
  BY <1>9, QueueFrame DEF FlushTotal, Plus, OfModel
<1>10. ASSUME NEW w \in Workers, FlushEnds(w) PROVE Written'
  BY <1>10, QueueFrame DEF FlushEnds, Goto, Fault
<1>11. ASSUME NEW w \in Workers, NEW l \in Logs, Push(w, l) PROVE Written'
  <2>1. fresh' = fresh \ {l} /\ l \in fresh /\ UNCHANGED <<direct, worker, table, undone, stats>>
    BY <1>11 DEF Push
  <2>2. queue' = Append(queue, l) \/ queue' = queue
    BY <1>11 DEF Push
  <2>3. Queued' \subseteq Queued \cup {l}
    <3>1. CASE queue' = Append(queue, l)
      BY <2>1, <3>1, Pushed
    <3>2. CASE queue' = queue
      BY <3>2, QueueFrame
    <3>. QED BY <2>2, <3>1, <3>2
  <2>. QED BY <2>1, <2>3
<1>12. ASSUME NEW w \in Workers, NEW l \in Logs, CreateDirectly(w, l) PROVE Written'
  BY <1>12, QueueFrame DEF CreateDirectly, Fault, Plus
<1>13. ASSUME NEW l \in Logs, CountDirectly(l) PROVE Written'
  BY <1>13, QueueFrame DEF CountDirectly, Fault, Plus
<1>14. ASSUME NEW w \in Workers, Disconnect(w) PROVE Written'
  BY <1>14, QueueFrame DEF Disconnect, Fault
<1>15. ASSUME NEW w \in Workers, Reconnect(w) PROVE Written'
  BY <1>15, QueueFrame DEF Reconnect
<1>16. ASSUME NEW w \in Workers, Crash(w) PROVE Written'
  BY <1>16, QueueFrame DEF Crash, Fault
<1>17. ASSUME UNCHANGED vars PROVE Written'
  BY <1>17, QueueFrame DEF vars
<1>. QED BY <1>1, <1>2, <1>3, <1>4, <1>5, <1>6, <1>7, <1>8, <1>9, <1>10,
             <1>11, <1>12, <1>13, <1>14, <1>15, <1>16, <1>17, <1>18, <1>19
         DEF Next, Work

-----------------------------------------------------------------------------
(* No log is lost without a fault.                                         *)

\* A process is cut off from Redis only after a fault of it, and inserts outside a
\* transaction only after a deadlock.
DownByFault == \A w \in Workers :
  /\ up[w] \/ "redis" \in faults
  /\ pc[w] = "autocommit" => "deadlock" \in faults

LEMMA DownStep ==
  ASSUME TypeOK, DownByFault, [Next]_vars
  PROVE  DownByFault'
<1> USE QueueAssumption DEF TypeOK, DownByFault, worker, stats
<1>1. ASSUME NEW w \in Workers, StartBatch(w) PROVE DownByFault'
  BY <1>1 DEF StartBatch, Goto
<1>2. ASSUME NEW w \in Workers, Pop(w) PROVE DownByFault'
  BY <1>2 DEF Pop
<1>3. ASSUME NEW w \in Workers, PopFails(w) PROVE DownByFault'
  BY <1>3 DEF PopFails, Goto, Fault
<1>4. ASSUME NEW w \in Workers, BatchPopped(w) PROVE DownByFault'
  BY <1>4 DEF BatchPopped, Goto
<1>5. ASSUME NEW w \in Workers, Insert(w) PROVE DownByFault'
  BY <1>5 DEF Insert, Fault
<1>6. ASSUME NEW w \in Workers, Commit(w) PROVE DownByFault'
  BY <1>6 DEF Commit, Goto, Plus
<1>7. ASSUME NEW w \in Workers, Rollback(w) PROVE DownByFault'
  BY <1>7 DEF Rollback, Fault
<1>18. ASSUME NEW w \in Workers, Deadlock(w) PROVE DownByFault'
  BY <1>18 DEF Deadlock, Goto, Fault
<1>19. ASSUME NEW w \in Workers, InsertAlone(w) PROVE DownByFault'
  BY <1>19 DEF InsertAlone, Fault
<1>8. ASSUME NEW w \in Workers, NEW k \in Models, FlushModel(w, k) PROVE DownByFault'
  BY <1>8 DEF FlushModel, Plus, OfModel
<1>9. ASSUME NEW w \in Workers, NEW k \in Models, FlushTotal(w, k) PROVE DownByFault'
  BY <1>9 DEF FlushTotal, Plus, OfModel
<1>10. ASSUME NEW w \in Workers, FlushEnds(w) PROVE DownByFault'
  BY <1>10 DEF FlushEnds, Goto, Fault
<1>11. ASSUME NEW w \in Workers, NEW l \in Logs, Push(w, l) PROVE DownByFault'
  BY <1>11 DEF Push, Fault
<1>12. ASSUME NEW w \in Workers, NEW l \in Logs, CreateDirectly(w, l) PROVE DownByFault'
  BY <1>12 DEF CreateDirectly, Fault, Plus
<1>13. ASSUME NEW l \in Logs, CountDirectly(l) PROVE DownByFault'
  BY <1>13 DEF CountDirectly, Fault, Plus
<1>14. ASSUME NEW w \in Workers, Disconnect(w) PROVE DownByFault'
  BY <1>14 DEF Disconnect, Fault
<1>15. ASSUME NEW w \in Workers, Reconnect(w) PROVE DownByFault'
  BY <1>15 DEF Reconnect
<1>16. ASSUME NEW w \in Workers, Crash(w) PROVE DownByFault'
  BY <1>16 DEF Crash, Fault
<1>17. ASSUME UNCHANGED vars PROVE DownByFault'
  BY <1>17 DEF vars
<1>. QED BY <1>1, <1>2, <1>3, <1>4, <1>5, <1>6, <1>7, <1>8, <1>9, <1>10,
             <1>11, <1>12, <1>13, <1>14, <1>15, <1>16, <1>17, <1>18, <1>19
         DEF Next, Work

LEMMA LossyKinds ==
  /\ "push" \in Lossy /\ "pop" \in Lossy /\ "redis" \in Lossy
  /\ "insert" \in Lossy /\ "deadlock" \in Lossy /\ "commit" \in Lossy
  /\ "crash" \in Lossy
BY DEF Lossy, FaultKinds

LEMMA KeptStep ==
  ASSUME TypeOK, Phases, OnePlace, DownByFault, LostOnlyToFaults, [Next]_vars
  PROVE  LostOnlyToFaults'
<1> USE QueueAssumption, LossyKinds DEF TypeOK, Phases, OnePlace, DownByFault, InHand, LostOnlyToFaults, worker, stats
<1>1. ASSUME NEW w \in Workers, StartBatch(w) PROVE LostOnlyToFaults'
  BY <1>1, QueueFrame DEF StartBatch, Goto
<1>2. ASSUME NEW w \in Workers, Pop(w) PROVE LostOnlyToFaults'
  <2>1. Head(queue) \in Queued /\ Queued' = Queued \ {Head(queue)}
    BY <1>2, Popped DEF Pop
  <2>2. /\ batch' = [batch EXCEPT ![w] = batch[w] \cup {Head(queue)}]
        /\ UNCHANGED <<fresh, rows, table, faults>>
    BY <1>2 DEF Pop
  <2>. QED BY <2>1, <2>2
<1>3. ASSUME NEW w \in Workers, PopFails(w) PROVE LostOnlyToFaults'
  BY <1>3, QueueFrame DEF PopFails, Goto, Fault
<1>4. ASSUME NEW w \in Workers, BatchPopped(w) PROVE LostOnlyToFaults'
  BY <1>4, QueueFrame DEF BatchPopped, Goto
<1>5. ASSUME NEW w \in Workers, Insert(w) PROVE LostOnlyToFaults'
  <2>. PICK x \in batch[w] : Insert(w)!(x)
    BY <1>5 DEF Insert
  <2>1. /\ UNCHANGED <<fresh, table>> /\ Queued' = Queued /\ faults \subseteq faults'
        /\ batch' = [batch EXCEPT ![w] = batch[w] \ {x}]
    BY QueueFrame DEF Fault
  <2>2. CASE rows' = [rows EXCEPT ![w] = rows[w] \cup {x}]
    <3>1. \A v \in Workers : batch[v] \cup rows[v] \subseteq batch'[v] \cup rows'[v]
      BY <2>1, <2>2
    <3>. QED BY <2>1, <3>1
  <2>3. CASE Fault("insert")
    BY <2>3 DEF Fault
  <2>. QED BY <2>2, <2>3
<1>6. ASSUME NEW w \in Workers, Commit(w) PROVE LostOnlyToFaults'
  <2>1. /\ UNCHANGED <<fresh, batch, faults>> /\ Queued' = Queued
        /\ rows' = [rows EXCEPT ![w] = {}]
    BY <1>6, QueueFrame DEF Commit
  <2>2. \A l \in Logs : table'[l] = IF l \in rows[w] THEN table[l] + 1 ELSE table[l]
    BY <1>6 DEF Commit, Plus
  <2>3. ASSUME NEW l \in Logs, l \in rows[w] \/ table[l] > 0
        PROVE  table'[l] > 0
    BY <2>2, <2>3
  <2>4. ASSUME NEW l \in Logs, InHand(l), l \notin rows[w]
        PROVE  InHand(l)'
    BY <2>1, <2>4
  <2>. QED BY <2>1, <2>3, <2>4
<1>7. ASSUME NEW w \in Workers, Rollback(w) PROVE LostOnlyToFaults'
  <2>1. /\ UNCHANGED fresh /\ Queued' = Queued /\ faults \subseteq faults'
        /\ batch' = [batch EXCEPT ![w] = {}] /\ rows' = [rows EXCEPT ![w] = {}]
    BY <1>7, QueueFrame DEF Rollback, Fault
  <2>2. CASE Fault("commit")
    BY <2>1, <2>2 DEF Fault
  <2>3. CASE \E S \in Unanswered(w) : table' = Plus(table, S)
    <3>. PICK S \in Unanswered(w) : table' = Plus(table, S)
      BY <2>3
    <3>1. \A l \in Logs : table[l] > 0 \/ l \in S => table'[l] > 0
      BY DEF Plus
    <3>2. CASE pc[w] = "autocommit"
      BY <2>1, <3>2 DEF Lossy, FaultKinds
    <3>3. CASE pc[w] # "autocommit"
      <4>1. S = rows[w] /\ batch[w] = {}
        BY <3>3 DEF Unanswered
      <4>2. ASSUME NEW l \in Logs, InHand(l), l \notin rows[w]
            PROVE  InHand(l)'
        BY <2>1, <4>1, <4>2
      <4>. QED BY <2>1, <3>1, <4>1, <4>2
    <3>. QED BY <3>2, <3>3
  <2>. QED BY <1>7, <2>2, <2>3 DEF Rollback
<1>18. ASSUME NEW w \in Workers, Deadlock(w) PROVE LostOnlyToFaults'
  BY <1>18 DEF Deadlock, Fault
<1>19. ASSUME NEW w \in Workers, InsertAlone(w) PROVE LostOnlyToFaults'
  BY <1>19 DEF InsertAlone, Fault
<1>8. ASSUME NEW w \in Workers, NEW k \in Models, FlushModel(w, k) PROVE LostOnlyToFaults'
  BY <1>8, QueueFrame DEF FlushModel, OfModel
<1>9. ASSUME NEW w \in Workers, NEW k \in Models, FlushTotal(w, k) PROVE LostOnlyToFaults'
  BY <1>9, QueueFrame DEF FlushTotal, OfModel
<1>10. ASSUME NEW w \in Workers, FlushEnds(w) PROVE LostOnlyToFaults'
  BY <1>10, QueueFrame DEF FlushEnds, Goto, Fault
<1>11. ASSUME NEW w \in Workers, NEW l \in Logs, Push(w, l) PROVE LostOnlyToFaults'
  <2>1. /\ fresh' = fresh \ {l} /\ l \in fresh /\ UNCHANGED <<batch, rows, table>>
        /\ faults \subseteq faults'
    BY <1>11 DEF Push, Fault
  <2>2. queue' = Append(queue, l) \/ (queue' = queue /\ Fault("push"))
    BY <1>11 DEF Push
  <2>3. CASE queue' = Append(queue, l)
    <3>1. Queued' = Queued \cup {l}
      BY <2>3, Pushed
    <3>. QED BY <2>1, <3>1
  <2>4. CASE queue' = queue /\ Fault("push")
    BY <2>1, <2>4, QueueFrame DEF Fault
  <2>. QED BY <2>2, <2>3, <2>4
<1>12. ASSUME NEW w \in Workers, NEW l \in Logs, CreateDirectly(w, l) PROVE LostOnlyToFaults'
  <2>1. /\ fresh' = fresh \ {l} /\ Queued' = Queued /\ UNCHANGED <<batch, rows>>
        /\ faults \subseteq faults'
    BY <1>12, QueueFrame DEF CreateDirectly, Fault
  <2>2. table' = Plus(table, {l}) \/ (table' = table /\ Fault("insert"))
    BY <1>12 DEF CreateDirectly
  <2>3. CASE table' = Plus(table, {l})
    <3>1. ASSUME NEW m \in Logs, m = l \/ table[m] > 0
          PROVE  table'[m] > 0
      BY <2>3, <3>1 DEF Plus
    <3>. QED BY <2>1, <3>1
  <2>4. CASE table' = table /\ Fault("insert")
    BY <2>1, <2>4 DEF Fault
  <2>. QED BY <2>2, <2>3, <2>4
<1>13. ASSUME NEW l \in Logs, CountDirectly(l) PROVE LostOnlyToFaults'
  BY <1>13, QueueFrame DEF CountDirectly, Fault
<1>14. ASSUME NEW w \in Workers, Disconnect(w) PROVE LostOnlyToFaults'
  BY <1>14, QueueFrame DEF Disconnect, Fault
<1>15. ASSUME NEW w \in Workers, Reconnect(w) PROVE LostOnlyToFaults'
  BY <1>15, QueueFrame DEF Reconnect
<1>16. ASSUME NEW w \in Workers, Crash(w) PROVE LostOnlyToFaults'
  BY <1>16, QueueFrame DEF Crash, Fault
<1>17. ASSUME UNCHANGED vars PROVE LostOnlyToFaults'
  BY <1>17, QueueFrame DEF vars
<1>. QED BY <1>1, <1>2, <1>3, <1>4, <1>5, <1>6, <1>7, <1>8, <1>9, <1>10,
             <1>11, <1>12, <1>13, <1>14, <1>15, <1>16, <1>17, <1>18, <1>19
         DEF Next, Work

-----------------------------------------------------------------------------
(* What is logged is counted.                                              *)

\* A log in the table is counted, or about to be, or the fault is known.
Counted == Uncounting \/ \A l \in Logs :
  \/ table[l] = inTotal[l] \/ l \in undone \/ l \in direct
  \/ \E w \in Workers : l \in owed[w]

\* Faults do not pass.
LEMMA UncountingStays ==
  /\ faults \subseteq faults' /\ Uncounting => Uncounting'
  /\ Fault("stats") \/ Fault("crash") \/ Fault("answer") => Uncounting'
BY DEF Uncounting, Fault

LEMMA CountedStep ==
  ASSUME TypeOK, Phases, OnePlace, Written, DownByFault, Counted, [Next]_vars
  PROVE  Counted'
<1>0. faults \subseteq faults'
  BY DEF Next, Work, StartBatch, Pop, PopFails, BatchPopped, Insert, InsertAlone, Deadlock,
         Commit, Rollback, FlushModel, FlushTotal, FlushEnds, Push, CreateDirectly,
         CountDirectly, Disconnect, Reconnect, Crash, Fault, vars
<1>. SUFFICES ASSUME ~Uncounting, ~Uncounting' PROVE Counted'
  BY <1>0, UncountingStays DEF Counted
<1>. DEFINE Known(l) == \/ table[l] = inTotal[l] \/ l \in undone \/ l \in direct
                       \/ \E w \in Workers : l \in owed[w]
<1>. SUFFICES ASSUME NEW m \in Logs PROVE Known(m)'
  BY DEF Counted
<1>k. Known(m)
  BY DEF Counted
<1>n. ~Fault("stats") /\ ~Fault("crash") /\ ~Fault("answer")
  BY UncountingStays
<1> USE QueueAssumption, <1>k, <1>n DEF TypeOK, Phases, OnePlace, Held, Written, worker, stats
<1>1. ASSUME NEW w \in Workers, StartBatch(w) PROVE Known(m)'
  BY <1>1 DEF StartBatch
<1>2. ASSUME NEW w \in Workers, Pop(w) PROVE Known(m)'
  BY <1>2 DEF Pop
<1>3. ASSUME NEW w \in Workers, PopFails(w) PROVE Known(m)'
  BY <1>3 DEF PopFails
<1>4. ASSUME NEW w \in Workers, BatchPopped(w) PROVE Known(m)'
  BY <1>4 DEF BatchPopped
<1>5. ASSUME NEW w \in Workers, Insert(w) PROVE Known(m)'
  BY <1>5 DEF Insert
<1>6. ASSUME NEW w \in Workers, Commit(w) PROVE Known(m)'
  <2>1. UNCHANGED <<direct, undone, stats>> /\ owed' = [owed EXCEPT ![w] = @ \cup rows[w]]
    BY <1>6 DEF Commit
  <2>2. m \notin rows[w] => table'[m] = table[m]
    BY <1>6 DEF Commit, Plus
  <2>. QED BY <2>1, <2>2
<1>7. ASSUME NEW w \in Workers, Rollback(w) PROVE Known(m)'
  <2>1. Fault("commit") /\ UNCHANGED <<direct, table, undone, stats>>
        /\ owed' = [owed EXCEPT ![w] = {}]
    BY <1>7 DEF Rollback
  <2>2. owed[w] = {}
    <3>1. pc[w] # "autocommit"
      BY <2>1 DEF DownByFault, Uncounting, Fault
    <3>. QED BY <1>7, <3>1 DEF Rollback
  <2>. QED BY <2>1, <2>2
<1>8. ASSUME NEW w \in Workers, NEW k \in Models, FlushModel(w, k) PROVE Known(m)'
  BY <1>8 DEF FlushModel
<1>9. ASSUME NEW w \in Workers, NEW k \in Models, FlushTotal(w, k) PROVE Known(m)'
  <2>1. /\ UNCHANGED <<direct, table, undone>> /\ half[w] = k
        /\ owed' = [owed EXCEPT ![w] = @ \ OfModel(@, k)]
    BY <1>9 DEF FlushTotal
  <2>2. inTotal'[m] = IF m \in OfModel(owed[w], k) THEN inTotal[m] + 1 ELSE inTotal[m]
    BY <1>9 DEF FlushTotal, Plus
  <2>3. CASE m \in OfModel(owed[w], k)
    BY <2>1, <2>2, <2>3 DEF OfModel
  <2>4. CASE m \notin OfModel(owed[w], k)
    BY <2>1, <2>2, <2>4
  <2>. QED BY <2>3, <2>4
<1>10. ASSUME NEW w \in Workers, FlushEnds(w) PROVE Known(m)'
  BY <1>10 DEF FlushEnds
<1>11. ASSUME NEW w \in Workers, NEW l \in Logs, Push(w, l) PROVE Known(m)'
  BY <1>11 DEF Push
<1>12. ASSUME NEW w \in Workers, NEW l \in Logs, CreateDirectly(w, l) PROVE Known(m)'
  <2>1. direct \subseteq direct' /\ UNCHANGED <<worker, undone, stats>>
    BY <1>12 DEF CreateDirectly
  <2>2. table'[m] = table[m] \/ m \in direct'
    BY <1>12 DEF CreateDirectly, Plus
  <2>. QED BY <2>1, <2>2
<1>13. ASSUME NEW l \in Logs, CountDirectly(l) PROVE Known(m)'
  <2>1. /\ direct' = direct \ {l} /\ l \in direct /\ inTotal' = Plus(inTotal, {l})
        /\ UNCHANGED <<worker, table, undone>>
    BY <1>13 DEF CountDirectly
  <2>2. inTotal'[m] = IF m = l THEN inTotal[m] + 1 ELSE inTotal[m]
    BY <2>1 DEF Plus
  <2>. QED BY <2>1, <2>2
<1>14. ASSUME NEW w \in Workers, Disconnect(w) PROVE Known(m)'
  BY <1>14 DEF Disconnect
<1>15. ASSUME NEW w \in Workers, Reconnect(w) PROVE Known(m)'
  BY <1>15 DEF Reconnect
<1>16. ASSUME NEW w \in Workers, Crash(w) PROVE Known(m)'
  BY <1>16 DEF Crash
<1>17. ASSUME UNCHANGED vars PROVE Known(m)'
  BY <1>17 DEF vars
<1>18. ASSUME NEW w \in Workers, Deadlock(w) PROVE Known(m)'
  <2>1. /\ UNCHANGED <<direct, table, stats>> /\ undone' = undone \cup rows[w]
        /\ owed' = [owed EXCEPT ![w] = rows[w]] /\ owed[w] = {}
    BY <1>18 DEF Deadlock, Goto
  <2>. QED BY <2>1
<1>19. ASSUME NEW w \in Workers, InsertAlone(w) PROVE Known(m)'
  <2>1. UNCHANGED <<direct, undone, stats>>
    BY <1>19 DEF InsertAlone
  <2>3. owed' = owed \/ \E l \in Logs : owed' = [owed EXCEPT ![w] = owed[w] \cup {l}]
    BY <1>19 DEF InsertAlone
  <2>4. \A v \in Workers : owed[v] \subseteq owed'[v]
    BY <2>3
  <2>2. table'[m] = table[m] \/ m \in owed'[w]
    BY <1>19 DEF InsertAlone, Plus
  <2>. QED BY <2>1, <2>2, <2>4
<1>. QED BY <1>1, <1>2, <1>3, <1>4, <1>5, <1>6, <1>7, <1>8, <1>9, <1>10,
             <1>11, <1>12, <1>13, <1>14, <1>15, <1>16, <1>17, <1>18, <1>19
         DEF Next, Work

-----------------------------------------------------------------------------
(* The theorems.                                                           *)

IInv == TypeOK /\ Phases /\ OnePlace /\ Written /\ DownByFault /\ LostOnlyToFaults
        /\ Counted

LEMMA Invariant == Spec => []IInv
<1>1. Init => IInv
  <2> SUFFICES ASSUME Init PROVE IInv
    OBVIOUS
  <2>1. TypeOK
    BY QueueAssumption DEF Init, TypeOK, FaultKinds
  <2>2. Queued = {} /\ Distinct
    BY DEF Init, Queued, Distinct
  <2>3. Phases /\ OnePlace /\ Written /\ DownByFault
    BY <2>2 DEF Init, Phases, OnePlace, Held, Written, DownByFault
  <2>4. LostOnlyToFaults
    BY DEF Init, LostOnlyToFaults
  <2>5. Counted
    BY DEF Init, Counted
  <2>. QED BY <2>1, <2>3, <2>4, <2>5 DEF IInv
<1>2. IInv /\ [Next]_vars => IInv'
  BY TypeStep, PhasesStep, OnePlaceStep, WrittenStep, DownStep, KeptStep,
     CountedStep DEF IInv
<1>. QED BY <1>1, <1>2, PTL DEF Spec

\* Whichever processes pop the list, no request is logged twice.
THEOREM LoggedOnce == Spec => []LoggedAtMostOnce
<1>1. IInv => LoggedAtMostOnce
  BY DEF IInv, Written, LoggedAtMostOnce
<1>. QED BY <1>1, Invariant, PTL

\* Logs are lost to the faults of the push, the pop, the database and the process
\* only; never to the statistics or to processes working at the same time.
THEOREM LostToFaults == Spec => []LostOnlyToFaults
<1>1. IInv => LostOnlyToFaults
  BY DEF IInv
<1>. QED BY <1>1, Invariant, PTL

\* The statistics count only what was logged, or accepted and then undone for a
\* deadlock, each log at most once.
THEOREM StatsLogged == Spec => []StatsOfLoggedOnly
<1>1. IInv => StatsOfLoggedOnly
  BY DEF IInv, Written, StatsOfLoggedOnly
<1>. QED BY <1>1, Invariant, PTL

\* When nothing is in progress everything logged is counted, unless an update of the
\* statistics failed, a process died, an answer was lost or a COMMIT failed after a
\* deadlock.
THEOREM StatsCountAll == Spec => []StatsComplete
<1>1. IInv => StatsComplete
  BY DEF IInv, Written, Counted, StatsComplete, StatsOfLoggedOnly
<1>. QED BY <1>1, Invariant, PTL

-----------------------------------------------------------------------------
(* The queue implements LogLedger.                                         *)

Pending == fresh \cup Queued \cup {l \in Logs : InHand(l)}
Troubled == faults \cap Lossy # {}

LEMMA LedgerWrite ==
  ASSUME NEW S \in SUBSET Logs, S \subseteq Pending, Pending' = Pending \ S,
         table' = Plus(table, S), UNCHANGED <<inTotal, undone>>, Troubled' = Troubled
  PROVE  [Ledger!Next]_(Ledger!vars)
<1>1. Ledger!Write(S)
  BY DEF Ledger!Write, Ledger!Increased, Plus, Pending, Troubled
<1>. QED BY <1>1 DEF Ledger!Next

LEMMA LedgerLose ==
  ASSUME NEW S \in SUBSET Logs, NEW W \in SUBSET S, NEW R \in SUBSET (S \ W),
         S \subseteq Pending, Pending' = Pending \ S, Troubled',
         table' = Plus(table, W), undone' = undone \cup R, inTotal' = inTotal
  PROVE  [Ledger!Next]_(Ledger!vars)
<1>1. Ledger!Lose(S)
  BY DEF Ledger!Lose, Ledger!Increased, Plus, Pending, Troubled
<1>. QED BY <1>1 DEF Ledger!Next

\* The usual case: nothing of it was written or accepted.
LEMMA LedgerLoseAll ==
  ASSUME TypeOK, NEW S \in SUBSET Logs, S \subseteq Pending, Pending' = Pending \ S, Troubled',
         UNCHANGED <<table, undone, inTotal>>
  PROVE  [Ledger!Next]_(Ledger!vars)
<1>1. table' = Plus(table, {})
  BY DEF TypeOK, Plus
<1>2. {} \in SUBSET S /\ {} \in SUBSET (S \ {}) /\ undone' = undone \cup {}
  OBVIOUS
<1>. QED BY <1>1, <1>2, LedgerLose

LEMMA LedgerCount ==
  ASSUME NEW S \in SUBSET Logs,
         \A l \in S : inTotal[l] < (IF l \in undone THEN 1 ELSE table[l]),
         inTotal' = Plus(inTotal, S), UNCHANGED <<table, undone>>,
         Pending' = Pending, Troubled' = Troubled
  PROVE  [Ledger!Next]_(Ledger!vars)
<1>1. Ledger!Count(S)
  BY DEF Ledger!Count, Ledger!Increased, Plus, Pending, Troubled
<1>. QED BY <1>1 DEF Ledger!Next

LEMMA LedgerStutter ==
  ASSUME Pending' = Pending, UNCHANGED <<table, inTotal, undone>>, Troubled' = Troubled
  PROVE  [Ledger!Next]_(Ledger!vars)
BY DEF Ledger!vars, Pending, Troubled

\* After a fault that may lose logs there is trouble, and it does not pass.
LEMMA FaultTroubles ==
  ASSUME NEW kind \in Lossy, Fault(kind)
  PROVE  Troubled'
BY DEF Fault, Troubled

LEMMA LedgerStep ==
  ASSUME TypeOK, Phases, OnePlace, Written, DownByFault, [Next]_vars
  PROVE  [Ledger!Next]_(Ledger!vars)
<1> USE QueueAssumption, LossyKinds DEF TypeOK, Phases, OnePlace, InHand, worker, stats
<1>1. ASSUME NEW w \in Workers, StartBatch(w) \/ BatchPopped(w) PROVE [Ledger!Next]_(Ledger!vars)
  <2>1. UNCHANGED <<fresh, queue, batch, rows, table, undone, inTotal, faults>>
    BY <1>1 DEF StartBatch, BatchPopped
  <2>2. Pending' = Pending /\ Troubled' = Troubled
    BY <2>1, QueueFrame DEF Pending, Troubled
  <2>. QED BY <2>1, <2>2, LedgerStutter
<1>2. ASSUME NEW w \in Workers, Pop(w) PROVE [Ledger!Next]_(Ledger!vars)
  <2>1. Head(queue) \in Queued /\ Queued' = Queued \ {Head(queue)}
    BY <1>2, Popped DEF Pop
  <2>2. /\ batch' = [batch EXCEPT ![w] = batch[w] \cup {Head(queue)}]
        /\ UNCHANGED <<fresh, rows, table, undone, inTotal, faults>>
    BY <1>2 DEF Pop
  <2>3. Head(queue) \in Logs
    BY <1>2 DEF Pop
  <2>4. Pending' = Pending /\ Troubled' = Troubled
    BY <2>1, <2>2, <2>3 DEF Pending, Troubled
  <2>. QED BY <2>2, <2>4, LedgerStutter
<1>3. ASSUME NEW w \in Workers, PopFails(w) PROVE [Ledger!Next]_(Ledger!vars)
  <2>1. /\ UNCHANGED <<fresh, rows, table, undone, inTotal>> /\ Queued' = Queued
        /\ batch' = [batch EXCEPT ![w] = {}] /\ rows[w] = {}
    BY <1>3, QueueFrame DEF PopFails, Goto
  <2>2. Troubled'
    <3>1. CASE up[w]
      BY <1>3, <3>1, FaultTroubles DEF PopFails
    <3>2. CASE ~up[w]
      BY <1>3, <3>2 DEF PopFails, DownByFault, Troubled
    <3>. QED BY <3>1, <3>2
  <2>3. batch[w] \subseteq Pending /\ Pending' = Pending \ batch[w]
    BY <2>1 DEF Pending, Held
  <2>. QED BY <2>1, <2>2, <2>3, LedgerLoseAll
<1>4. ASSUME NEW w \in Workers, Insert(w) PROVE [Ledger!Next]_(Ledger!vars)
  <2>. PICK l \in batch[w] : Insert(w)!(l)
    BY <1>4 DEF Insert
  <2>1. UNCHANGED <<fresh, table, undone, inTotal>> /\ Queued' = Queued
    BY QueueFrame
  <2>5. {l} \in SUBSET Logs
    OBVIOUS
  <2>2. CASE rows' = [rows EXCEPT ![w] = rows[w] \cup {l}] /\ UNCHANGED faults
    <3>1. Pending' = Pending /\ Troubled' = Troubled
      BY <2>1, <2>2 DEF Pending, Troubled
    <3>. QED BY <2>1, <3>1, LedgerStutter
  <2>3. CASE UNCHANGED rows /\ Fault("insert")
    <3>1. {l} \subseteq Pending /\ Pending' = Pending \ {l}
      BY <2>1, <2>3 DEF Pending, Held
    <3>2. Troubled'
      BY <2>3, FaultTroubles
    <3>. QED BY <2>5, <2>1, <3>1, <3>2, LedgerLoseAll
  <2>. QED BY <2>2, <2>3
<1>5. ASSUME NEW w \in Workers, Commit(w) PROVE [Ledger!Next]_(Ledger!vars)
  <2>1. /\ UNCHANGED <<fresh, batch, undone, inTotal, faults>> /\ Queued' = Queued
        /\ rows' = [rows EXCEPT ![w] = {}] /\ table' = Plus(table, rows[w])
    BY <1>5, QueueFrame DEF Commit
  <2>2. /\ rows[w] \subseteq Pending /\ Pending' = Pending \ rows[w]
        /\ Troubled' = Troubled
    BY <2>1 DEF Pending, Held, Troubled
  <2>. QED BY <2>1, <2>2, LedgerWrite
<1>6. ASSUME NEW w \in Workers, Rollback(w) PROVE [Ledger!Next]_(Ledger!vars)
  <2>1. /\ UNCHANGED <<fresh, undone, inTotal>> /\ Queued' = Queued
        /\ batch' = [batch EXCEPT ![w] = {}] /\ rows' = [rows EXCEPT ![w] = {}]
    BY <1>6, QueueFrame DEF Rollback
  <2>2. /\ batch[w] \cup rows[w] \subseteq Pending
        /\ Pending' = Pending \ (batch[w] \cup rows[w])
    BY <2>1 DEF Pending, Held
  <2>3. CASE Fault("commit") /\ UNCHANGED table
    <3>1. Troubled'
      BY <2>3, FaultTroubles
    <3>. QED BY <2>1, <2>2, <2>3, <3>1, LedgerLoseAll
  <2>4. CASE Fault("answer") /\ \E S \in Unanswered(w) : table' = Plus(table, S)
    <3>. PICK S \in Unanswered(w) : table' = Plus(table, S)
      BY <2>4
    <3>1. CASE pc[w] = "autocommit"
      <4>1. S \in SUBSET (batch[w] \cup rows[w])
        BY <3>1 DEF Unanswered
      <4>2. Troubled'
        BY <2>4, <3>1 DEF DownByFault, Fault, Troubled
      <4>3. {} \in SUBSET ((batch[w] \cup rows[w]) \ S) /\ undone' = undone \cup {}
            /\ batch[w] \cup rows[w] \in SUBSET Logs
        BY <2>1
      <4>. QED BY <2>1, <2>2, <4>1, <4>2, <4>3, LedgerLose
    <3>2. CASE pc[w] # "autocommit"
      <4>1. S = batch[w] \cup rows[w] /\ S \in SUBSET Logs
        BY <3>2 DEF Unanswered
      <4>2. Troubled' = Troubled
        BY <2>4 DEF Troubled, Fault, Lossy
      <4>. QED BY <2>1, <2>2, <4>1, <4>2, LedgerWrite
    <3>. QED BY <3>1, <3>2
  <2>. QED BY <1>6, <2>3, <2>4 DEF Rollback
<1>7. ASSUME NEW w \in Workers, NEW k \in Models, FlushModel(w, k)
      PROVE  [Ledger!Next]_(Ledger!vars)
  <2>1. UNCHANGED <<fresh, queue, batch, rows, table, undone, inTotal, faults>>
    BY <1>7 DEF FlushModel
  <2>2. Pending' = Pending /\ Troubled' = Troubled
    BY <2>1, QueueFrame DEF Pending, Troubled
  <2>. QED BY <2>1, <2>2, LedgerStutter
<1>8. ASSUME NEW w \in Workers, NEW k \in Models, FlushTotal(w, k)
      PROVE  [Ledger!Next]_(Ledger!vars)
  <2> DEFINE S == OfModel(owed[w], k)
  <2>1. /\ UNCHANGED <<fresh, queue, batch, rows, table, undone, faults>>
        /\ inTotal' = Plus(inTotal, S)
    BY <1>8 DEF FlushTotal
  <2>2. S \in SUBSET Logs /\ \A l \in S : inTotal[l] < (IF l \in undone THEN 1 ELSE table[l])
    BY DEF OfModel, Written
  <2>3. Pending' = Pending /\ Troubled' = Troubled
    BY <2>1, QueueFrame DEF Pending, Troubled
  <2>. QED BY <2>1, <2>2, <2>3, LedgerCount
<1>9. ASSUME NEW w \in Workers, FlushEnds(w) PROVE [Ledger!Next]_(Ledger!vars)
  <2>1. /\ UNCHANGED <<fresh, queue, batch, rows, table, undone, inTotal>>
        /\ faults' = faults \/ Fault("stats")
    BY <1>9 DEF FlushEnds
  <2>2. Pending' = Pending /\ Troubled' = Troubled
    BY <2>1, QueueFrame DEF Pending, Troubled, Fault, Lossy
  <2>. QED BY <2>1, <2>2, LedgerStutter
<1>10. ASSUME NEW w \in Workers, NEW l \in Logs, Push(w, l) PROVE [Ledger!Next]_(Ledger!vars)
  <2>1. fresh' = fresh \ {l} /\ l \in fresh /\ UNCHANGED <<batch, rows, table, undone, inTotal>>
    BY <1>10 DEF Push
  <2>5. {l} \in SUBSET Logs
    OBVIOUS
  <2>2. CASE queue' = Append(queue, l) /\ UNCHANGED faults
    <3>1. Queued' = Queued \cup {l}
      BY <2>2, Pushed
    <3>2. Pending' = Pending /\ Troubled' = Troubled
      BY <2>1, <2>2, <3>1 DEF Pending, Troubled
    <3>. QED BY <2>1, <3>2, LedgerStutter
  <2>3. CASE queue' = queue /\ Fault("push")
    <3>1. {l} \subseteq Pending /\ Pending' = Pending \ {l}
      BY <2>1, <2>3, QueueFrame DEF Pending, Held
    <3>2. Troubled'
      BY <2>3, FaultTroubles
    <3>. QED BY <2>5, <2>1, <3>1, <3>2, LedgerLoseAll
  <2>. QED BY <1>10, <2>2, <2>3 DEF Push
<1>11. ASSUME NEW w \in Workers, NEW l \in Logs, CreateDirectly(w, l)
       PROVE  [Ledger!Next]_(Ledger!vars)
  <2>1. /\ fresh' = fresh \ {l} /\ l \in fresh /\ Queued' = Queued
        /\ UNCHANGED <<batch, rows, undone, inTotal>>
    BY <1>11, QueueFrame DEF CreateDirectly
  <2>5. {l} \in SUBSET Logs
    OBVIOUS
  <2>2. {l} \subseteq Pending /\ Pending' = Pending \ {l}
    BY <2>1 DEF Pending, Held
  <2>3. CASE table' = Plus(table, {l}) /\ UNCHANGED faults
    <3>1. Troubled' = Troubled
      BY <2>3 DEF Troubled
    <3>. QED BY <2>5, <2>1, <2>2, <2>3, <3>1, LedgerWrite
  <2>4. CASE table' = table /\ Fault("insert")
    <3>1. Troubled'
      BY <2>4, FaultTroubles
    <3>. QED BY <2>5, <2>1, <2>2, <2>4, <3>1, LedgerLoseAll
  <2>6. CASE table' = Plus(table, {l}) /\ Fault("answer")
    <3>1. Troubled' = Troubled
      BY <2>6 DEF Troubled, Fault, Lossy
    <3>. QED BY <2>5, <2>1, <2>2, <2>6, <3>1, LedgerWrite
  <2>. QED BY <1>11, <2>3, <2>4, <2>6 DEF CreateDirectly
<1>12. ASSUME NEW l \in Logs, CountDirectly(l) PROVE [Ledger!Next]_(Ledger!vars)
  <2>1. UNCHANGED <<fresh, queue, batch, rows, table, undone>>
    BY <1>12 DEF CountDirectly
  <2>2. Pending' = Pending
    BY <2>1, QueueFrame DEF Pending
  <2>5. {l} \in SUBSET Logs
    OBVIOUS
  <2>3. CASE inTotal' = Plus(inTotal, {l}) /\ UNCHANGED faults
    <3>1. l \notin undone /\ inTotal[l] < table[l]
      BY <1>12 DEF CountDirectly, Written
    <3>2. Troubled' = Troubled
      BY <2>3 DEF Troubled
    <3>. QED BY <2>5, <2>1, <2>2, <2>3, <3>1, <3>2, LedgerCount
  <2>4. CASE inTotal' = inTotal /\ Fault("stats")
    <3>1. Troubled' = Troubled
      BY <2>4 DEF Troubled, Fault, Lossy
    <3>. QED BY <2>1, <2>2, <2>4, <3>1, LedgerStutter
  <2>. QED BY <1>12, <2>3, <2>4 DEF CountDirectly
<1>13. ASSUME NEW w \in Workers, Disconnect(w) PROVE [Ledger!Next]_(Ledger!vars)
  <2>1. UNCHANGED <<fresh, queue, batch, rows, table, undone, inTotal>>
    BY <1>13 DEF Disconnect
  <2>2. {} \subseteq Pending /\ Pending' = Pending \ {}
    BY <2>1, QueueFrame DEF Pending
  <2>3. Troubled'
    BY <1>13, FaultTroubles DEF Disconnect
  <2>. QED BY <2>1, <2>2, <2>3, LedgerLoseAll
<1>14. ASSUME NEW w \in Workers, Reconnect(w) PROVE [Ledger!Next]_(Ledger!vars)
  <2>1. UNCHANGED <<fresh, queue, batch, rows, table, undone, inTotal, faults>>
    BY <1>14 DEF Reconnect
  <2>2. Pending' = Pending /\ Troubled' = Troubled
    BY <2>1, QueueFrame DEF Pending, Troubled
  <2>. QED BY <2>1, <2>2, LedgerStutter
<1>15. ASSUME NEW w \in Workers, Crash(w) PROVE [Ledger!Next]_(Ledger!vars)
  <2>1. /\ UNCHANGED <<fresh, table, undone, inTotal>> /\ Queued' = Queued
        /\ batch' = [batch EXCEPT ![w] = {}] /\ rows' = [rows EXCEPT ![w] = {}]
    BY <1>15, QueueFrame DEF Crash
  <2>2. Troubled'
    BY <1>15, FaultTroubles DEF Crash
  <2>3. /\ batch[w] \cup rows[w] \subseteq Pending
        /\ Pending' = Pending \ (batch[w] \cup rows[w])
    BY <2>1 DEF Pending, Held
  <2>. QED BY <2>1, <2>2, <2>3, LedgerLoseAll
<1>16. ASSUME UNCHANGED vars PROVE [Ledger!Next]_(Ledger!vars)
  <2>1. UNCHANGED <<fresh, queue, batch, rows, table, undone, inTotal, faults>>
    BY <1>16 DEF vars
  <2>2. Pending' = Pending /\ Troubled' = Troubled
    BY <2>1, QueueFrame DEF Pending, Troubled
  <2>. QED BY <2>1, <2>2, LedgerStutter
<1>17. ASSUME NEW w \in Workers, Deadlock(w) PROVE [Ledger!Next]_(Ledger!vars)
  <2>. PICK l \in batch[w] : Deadlock(w)!(l)
    BY <1>17 DEF Deadlock
  <2> DEFINE S == rows[w] \cup {l}
  <2>1. UNCHANGED <<fresh, table, inTotal>> /\ Queued' = Queued
    BY QueueFrame
  <2>2. S \subseteq Pending /\ Pending' = Pending \ S
    BY <2>1 DEF Pending, Held
  <2>3. Troubled'
    BY FaultTroubles
  <2>4. /\ S \in SUBSET Logs /\ {} \in SUBSET S /\ rows[w] \in SUBSET (S \ {})
        /\ undone' = undone \cup rows[w]
    OBVIOUS
  <2>5. table' = Plus(table, {}) /\ inTotal' = inTotal
    BY <2>1 DEF Plus
  <2> HIDE DEF S
  <2>. QED BY <2>2, <2>3, <2>4, <2>5, LedgerLose
<1>18. ASSUME NEW w \in Workers, InsertAlone(w) PROVE [Ledger!Next]_(Ledger!vars)
  <2>. PICK l \in batch[w] : InsertAlone(w)!(l)
    BY <1>18 DEF InsertAlone
  <2>1. UNCHANGED <<fresh, rows, undone, inTotal>> /\ Queued' = Queued /\ {l} \in SUBSET Logs
    BY QueueFrame
  <2>2. {l} \subseteq Pending /\ Pending' = Pending \ {l}
    BY <2>1 DEF Pending, Held
  <2>3. CASE table' = Plus(table, {l}) /\ UNCHANGED faults
    <3>1. Troubled' = Troubled
      BY <2>3 DEF Troubled
    <3>. QED BY <2>1, <2>2, <2>3, <3>1, LedgerWrite
  <2>4. CASE Fault("insert") /\ UNCHANGED table
    <3>1. Troubled'
      BY <2>4, FaultTroubles
    <3>. QED BY <2>1, <2>2, <2>4, <3>1, LedgerLoseAll
  <2>. QED BY <2>3, <2>4
<1>. QED BY <1>1, <1>2, <1>3, <1>4, <1>5, <1>6, <1>7, <1>8, <1>9, <1>10, <1>11, <1>12,
            <1>13, <1>14, <1>15, <1>16, <1>17, <1>18 DEF Next, Work

\* The queue implements LogLedger: with every number of processes and every order
\* of their steps and faults, a request is written once or lost to a fault.
THEOREM QueueKeepsLedger == Spec => ImplementsLogLedger
<1>1. Init => Ledger!Init
  <2> SUFFICES ASSUME Init PROVE Ledger!Init
    OBVIOUS
  <2>1. Queued = {} /\ {l \in Logs : InHand(l)} = {}
    BY DEF Init, Queued, InHand
  <2>. QED BY <2>1 DEF Init, Ledger!Init
<1>2. IInv /\ [Next]_vars => [Ledger!Next]_(Ledger!vars)
  BY LedgerStep DEF IInv
<1>3. Spec => Ledger!Spec
  BY <1>1, <1>2, Invariant, PTL DEF Spec, Ledger!Spec
<1>. QED BY <1>3 DEF ImplementsLogLedger

\* What the ledger promises keeps the request log accountable, whatever the queue
\* does inside it: the abstract specification's own invariant, which the queue
\* inherits through the refinement.
THEOREM LogsAccountedFor == Spec => []Ledger!AllAccountedFor
<1> DEFINE Counts == table \in [Logs -> Nat] /\ inTotal \in [Logs -> Nat]
           LInv == Counts /\ Ledger!AllAccountedFor
<1>1. Ledger!Init => LInv
  BY DEF Ledger!Init, Ledger!AllAccountedFor
<1>2. LInv /\ [Ledger!Next]_(Ledger!vars) => LInv'
  <2> SUFFICES ASSUME LInv, [Ledger!Next]_(Ledger!vars) PROVE LInv'
    OBVIOUS
  <2>1. ASSUME NEW S \in SUBSET Logs, Ledger!Write(S) PROVE LInv'
    BY <2>1 DEF Ledger!Write, Ledger!Increased, Ledger!AllAccountedFor
  <2>2. ASSUME NEW S \in SUBSET Logs, Ledger!Lose(S) PROVE LInv'
    <3>1. PICK W \in SUBSET S : /\ table' = Ledger!Increased(table, W)
                               /\ \E R \in SUBSET (S \ W) : undone' = undone \cup R
      BY <2>2 DEF Ledger!Lose
    <3>. QED BY <2>2, <3>1 DEF Ledger!Lose, Ledger!Increased, Ledger!AllAccountedFor
  <2>3. ASSUME NEW S \in SUBSET Logs, Ledger!Count(S) PROVE LInv'
    BY <2>3 DEF Ledger!Count, Ledger!Increased, Ledger!AllAccountedFor
  <2>4. CASE UNCHANGED Ledger!vars
    BY <2>4 DEF Ledger!vars, Ledger!AllAccountedFor
  <2>. QED BY <2>1, <2>2, <2>3, <2>4 DEF Ledger!Next
<1>3. Ledger!Spec => []LInv
  BY <1>1, <1>2, PTL DEF Ledger!Spec
<1>4. LInv => Ledger!AllAccountedFor
  OBVIOUS
<1>5. ImplementsLogLedger => Ledger!Spec
  BY DEF ImplementsLogLedger
<1>. QED BY <1>3, <1>4, <1>5, QueueKeepsLedger, PTL

=============================================================================
