--------------------------- MODULE RequestLogQueue ---------------------------
(***************************************************************************)
(* The request logs on their way to MySQL.  A process that has finished a  *)
(* request pushes its log to a Redis list (or, without Redis, inserts it   *)
(* directly).  A timer of every process pops a batch entry by entry,       *)
(* inserts its rows in one transaction and, after the commit, adds the     *)
(* tokens to provider_token_stats: for each model of the batch first to    *)
(* the row of the model, then to the row '_total'.                         *)
(***************************************************************************)
EXTENDS Integers, Sequences, FiniteSets

CONSTANTS
  Workers,   \* worker processes
  Logs,      \* requests to be logged
  Models,    \* pairs of account and model they used
  ModelOf,   \* the pair of each log
  BatchSize, \* BATCH_SIZE
  MaxFaults, \* bound on the faults of one behaviour, each kind at most once
  None       \* no model

\* "deadlock": MySQL undoes the open transaction for a row that it refuses;
\* "answer": a statement was executed, but its answer did not come.
FaultKinds ==
  {"push", "pop", "redis", "insert", "deadlock", "commit", "answer", "stats", "crash"}

ASSUME QueueAssumption ==
  /\ ModelOf \in [Logs -> Models] /\ None \notin Models
  /\ BatchSize \in Nat \ {0} /\ MaxFaults \in Nat

VARIABLES
  fresh,    \* requests still to be logged
  queue,    \* the list request_logs_queue, oldest entry first
  up,       \* isRedisAvailable, per process
  pc,       \* where processQueue of each process is (isProcessing unless "idle")
  batch,    \* popped and not yet inserted
  rows,     \* inserted in the open transaction
  owed,     \* not in an open transaction, tokens still to be added to the stats;
            \* rows and owed together are tokenStatsUpdates
  half,     \* the model whose own row has been updated, '_total' not yet
  direct,   \* logs inserted directly, tokens not yet added
  table,    \* rows of request_logs, per log
  undone,   \* logs whose row MySQL had accepted and undid for a deadlock (history)
  inModel,  \* how often the tokens of a log were added to its model's row
  inTotal,  \* ... and to the row '_total'
  requests, \* request_count of the rows '_total', all accounts together
  faults    \* kinds of faults so far

worker == <<pc, batch, rows, owed, half>>
stats == <<inModel, inTotal, requests>>
vars == <<fresh, queue, up, worker, direct, table, undone, stats, faults>>

Init ==
  /\ fresh = Logs /\ queue = <<>>
  /\ up = [w \in Workers |-> TRUE]
  /\ pc = [w \in Workers |-> "idle"]
  /\ batch = [w \in Workers |-> {}]
  /\ rows = [w \in Workers |-> {}]
  /\ owed = [w \in Workers |-> {}]
  /\ half = [w \in Workers |-> None]
  /\ direct = {}
  /\ table = [l \in Logs |-> 0] /\ undone = {}
  /\ inModel = [l \in Logs |-> 0]
  /\ inTotal = [l \in Logs |-> 0]
  /\ requests = 0
  /\ faults = {}

-----------------------------------------------------------------------------
Fault(kind) ==
  /\ kind \notin faults /\ Cardinality(faults) < MaxFaults
  /\ faults' = faults \cup {kind}

Goto(w, from, to) == pc[w] = from /\ pc' = [pc EXCEPT ![w] = to]
\* Mutant of Plus: the update subtracts.
Minus(counts, S) == [l \in Logs |-> IF l \in S THEN counts[l] - 1 ELSE counts[l]]

Plus(counts, S) == [l \in Logs |-> IF l \in S THEN counts[l] + 1 ELSE counts[l]]
OfModel(S, k) == {l \in S : ModelOf[l] = k}

(* recordRequestLog *)

Push(w, l) ==
  /\ l \in fresh /\ up[w]
  /\ fresh' = fresh \ {l}
  /\ \/ queue' = Append(queue, l) /\ UNCHANGED faults
     \/ Fault("push") /\ UNCHANGED queue
  /\ UNCHANGED <<up, worker, direct, table, undone, stats>>

\* requestLogsDao.create; the tokens follow when its import has been resolved, and
\* do not when the answer of the INSERT is lost.
CreateDirectly(w, l) ==
  /\ l \in fresh /\ ~up[w]
  /\ fresh' = fresh \ {l}
  /\ \/ /\ table' = Plus(table, {l}) /\ direct' = direct \cup {l}
        /\ UNCHANGED faults
     \/ Fault("insert") /\ UNCHANGED <<table, direct>>
     \/ Fault("answer") /\ table' = Plus(table, {l}) /\ UNCHANGED direct
  /\ UNCHANGED <<queue, up, worker, undone, stats>>

CountDirectly(l) ==
  /\ l \in direct /\ direct' = direct \ {l}
  /\ \/ /\ inModel' = Plus(inModel, {l}) /\ inTotal' = Plus(inTotal, {l})
        /\ requests' = requests + 1 /\ UNCHANGED faults
     \/ Fault("stats") /\ UNCHANGED <<inTotal, requests>>
        /\ inModel' \in {inModel, Plus(inModel, {l})}
  /\ UNCHANGED <<fresh, queue, up, worker, table, undone>>

-----------------------------------------------------------------------------
(* processQueue                                                            *)

StartBatch(w) ==
  /\ up[w] /\ Goto(w, "idle", "popping")
  /\ UNCHANGED <<fresh, queue, up, batch, rows, owed, half, direct, table, undone, stats, faults>>

\* Mutant of Pop: the entry read is the oldest, the one removed the newest.
PopWrongEnd(w) ==
  /\ up[w] /\ pc[w] = "popping" /\ queue # <<>> /\ Cardinality(batch[w]) < BatchSize
  /\ batch' = [batch EXCEPT ![w] = @ \cup {Head(queue)}]
  /\ queue' = SubSeq(queue, 1, Len(queue) - 1)
  /\ UNCHANGED <<fresh, up, pc, rows, owed, half, direct, table, undone, stats, faults>>

Pop(w) ==
  /\ up[w] /\ pc[w] = "popping" /\ queue # <<>> /\ Cardinality(batch[w]) < BatchSize
  /\ batch' = [batch EXCEPT ![w] = @ \cup {Head(queue)}]
  /\ queue' = Tail(queue)
  /\ UNCHANGED <<fresh, up, pc, rows, owed, half, direct, table, undone, stats, faults>>

\* An rpop fails: popLogs returns [], and what it had popped is gone.
PopFails(w) ==
  /\ Goto(w, "popping", "idle")
  /\ up[w] => Fault("pop")
  /\ ~up[w] => UNCHANGED faults
  /\ batch' = [batch EXCEPT ![w] = {}]
  /\ UNCHANGED <<fresh, queue, up, rows, owed, half, direct, table, undone, stats>>

BatchPopped(w) ==
  /\ queue = <<>> \/ Cardinality(batch[w]) = BatchSize
  /\ Goto(w, "popping", IF batch[w] = {} THEN "idle" ELSE "inserting")
  /\ UNCHANGED <<fresh, queue, up, batch, rows, owed, half, direct, table, undone, stats, faults>>

\* One row; a row that cannot be inserted is skipped.
Insert(w) == \E l \in batch[w] :
  /\ pc[w] = "inserting"
  /\ batch' = [batch EXCEPT ![w] = @ \ {l}]
  /\ \/ rows' = [rows EXCEPT ![w] = @ \cup {l}] /\ UNCHANGED faults
     \/ Fault("insert") /\ UNCHANGED rows
  /\ UNCHANGED <<fresh, queue, up, pc, owed, half, direct, table, undone, stats>>

\* MySQL undoes the transaction for a row.  The loop skips that row, keeps the
\* tokens of the rows before it, and goes on outside a transaction.
Deadlock(w) == \E l \in batch[w] :
  /\ Goto(w, "inserting", "autocommit") /\ Fault("deadlock")
  /\ batch' = [batch EXCEPT ![w] = @ \ {l}]
  /\ rows' = [rows EXCEPT ![w] = {}] /\ undone' = undone \cup rows[w]
  /\ owed' = [owed EXCEPT ![w] = rows[w]]
  /\ UNCHANGED <<fresh, queue, up, half, direct, table, stats>>

\* One row after that: it is in the table at once.
InsertAlone(w) == \E l \in batch[w] :
  /\ pc[w] = "autocommit"
  /\ batch' = [batch EXCEPT ![w] = @ \ {l}]
  /\ \/ /\ table' = Plus(table, {l}) /\ owed' = [owed EXCEPT ![w] = @ \cup {l}]
        /\ UNCHANGED faults
     \/ Fault("insert") /\ UNCHANGED <<table, owed>>
  /\ UNCHANGED <<fresh, queue, up, pc, rows, half, direct, undone, stats>>

\* COMMIT, which has nothing to do when there is no transaction any more.
Commit(w) ==
  /\ pc[w] \in {"inserting", "autocommit"} /\ batch[w] = {}
  /\ table' = Plus(table, rows[w])
  /\ owed' = [owed EXCEPT ![w] = @ \cup rows[w]]
  /\ rows' = [rows EXCEPT ![w] = {}]
  /\ pc' = [pc EXCEPT ![w] = IF rows[w] \cup owed[w] = {} THEN "idle" ELSE "flushing"]
  /\ UNCHANGED <<fresh, queue, up, batch, half, direct, undone, stats, faults>>

\* What the statement writes whose answer is lost with the connection: the COMMIT,
\* or a row outside a transaction.
Unanswered(w) ==
  IF pc[w] = "autocommit" THEN {{l} : l \in batch[w]} ELSE {S \in {rows[w]} : batch[w] = {}}

\* BEGIN or COMMIT fails, or the connection is lost: the batch is rolled back, as
\* far as it is not written, not pushed again, and none of it is counted.
Rollback(w) ==
  /\ pc[w] \in {"inserting", "autocommit"} /\ pc' = [pc EXCEPT ![w] = "idle"]
  /\ \/ Fault("commit") /\ UNCHANGED table
     \/ Fault("answer") /\ \E S \in Unanswered(w) : table' = Plus(table, S)
  /\ batch' = [batch EXCEPT ![w] = {}] /\ rows' = [rows EXCEPT ![w] = {}]
  /\ owed' = [owed EXCEPT ![w] = {}]
  /\ UNCHANGED <<fresh, queue, up, half, direct, undone, stats>>

\* flushTokenStatsUpdates: one model after another, its own row ...
FlushModel(w, k) ==
  /\ pc[w] = "flushing" /\ half[w] = None /\ OfModel(owed[w], k) # {}
  /\ inModel' = Plus(inModel, OfModel(owed[w], k))
  /\ half' = [half EXCEPT ![w] = k]
  /\ UNCHANGED <<fresh, queue, up, pc, batch, rows, owed, direct, table, undone, inTotal, requests, faults>>

\* ... and then the row '_total', which counts one request.
FlushTotal(w, k) ==
  /\ half[w] = k
  /\ inTotal' = Plus(inTotal, OfModel(owed[w], k)) /\ requests' = requests + 1
  /\ half' = [half EXCEPT ![w] = None]
  /\ owed' = [owed EXCEPT ![w] = @ \ OfModel(@, k)]
  /\ UNCHANGED <<fresh, queue, up, pc, batch, rows, direct, table, undone, inModel, faults>>

\* Mutants of FlushEnds: one model of the batch is enough; isProcessing stays set.
FlushEndsEarly(w) ==
  /\ Goto(w, "flushing", "idle") /\ half[w] = None
  /\ owed' = [owed EXCEPT ![w] = {}]
  /\ UNCHANGED <<fresh, queue, up, batch, rows, half, direct, table, undone, stats, faults>>
FlushEndsOnErrorOnly(w) ==
  /\ Goto(w, "flushing", "idle") /\ owed[w] # {} /\ Fault("stats")
  /\ owed' = [owed EXCEPT ![w] = {}] /\ half' = [half EXCEPT ![w] = None]
  /\ UNCHANGED <<fresh, queue, up, batch, rows, direct, table, undone, stats>>

\* All models done, or one update fails and the rest of the batch is given up.
FlushEnds(w) ==
  /\ Goto(w, "flushing", "idle")
  /\ IF owed[w] = {} THEN UNCHANGED faults ELSE Fault("stats")
  /\ owed' = [owed EXCEPT ![w] = {}] /\ half' = [half EXCEPT ![w] = None]
  /\ UNCHANGED <<fresh, queue, up, batch, rows, direct, table, undone, stats>>

-----------------------------------------------------------------------------
(* Faults                                                                  *)

Disconnect(w) ==
  /\ up[w] /\ up' = [up EXCEPT ![w] = FALSE] /\ Fault("redis")
  /\ UNCHANGED <<fresh, queue, worker, direct, table, undone, stats>>

Reconnect(w) ==
  /\ ~up[w] /\ up' = [up EXCEPT ![w] = TRUE]
  /\ UNCHANGED <<fresh, queue, worker, direct, table, undone, stats, faults>>

\* A process dies (the master starts it again): an open transaction is rolled
\* back, and of the logs inserted directly it counts no more tokens.
Crash(w) ==
  /\ Fault("crash")
  /\ pc' = [pc EXCEPT ![w] = "idle"] /\ batch' = [batch EXCEPT ![w] = {}]
  /\ rows' = [rows EXCEPT ![w] = {}] /\ owed' = [owed EXCEPT ![w] = {}]
  /\ half' = [half EXCEPT ![w] = None] /\ direct' \in SUBSET direct
  /\ UNCHANGED <<fresh, queue, up, table, undone, stats>>

Work(w) ==
  \/ Pop(w) \/ BatchPopped(w) \/ PopFails(w) \/ Insert(w) \/ InsertAlone(w)
  \/ Commit(w) \/ FlushEnds(w)
  \/ \E k \in Models : FlushModel(w, k) \/ FlushTotal(w, k)

Next ==
  \/ \E w \in Workers : StartBatch(w) \/ Work(w) \/ Deadlock(w) \/ Rollback(w)
                        \/ Disconnect(w) \/ Reconnect(w) \/ Crash(w)
  \/ \E w \in Workers, l \in Logs : Push(w, l) \/ CreateDirectly(w, l)
  \/ \E l \in Logs : CountDirectly(l)

Spec == Init /\ [][Next]_vars

\* The timer of every process fires, and every awaited answer comes.
FairSpec ==
  /\ Spec
  /\ \A w \in Workers : WF_vars(StartBatch(w)) /\ WF_vars(Work(w))
  /\ \A l \in Logs : WF_vars(CountDirectly(l))

-----------------------------------------------------------------------------
(* Properties                                                              *)

TypeOK ==
  /\ fresh \subseteq Logs /\ queue \in Seq(Logs) /\ direct \subseteq Logs
  /\ up \in [Workers -> BOOLEAN]
  /\ pc \in [Workers -> {"idle", "popping", "inserting", "autocommit", "flushing"}]
  /\ batch \in [Workers -> SUBSET Logs] /\ rows \in [Workers -> SUBSET Logs]
  /\ owed \in [Workers -> SUBSET Logs] /\ half \in [Workers -> Models \cup {None}]
  /\ table \in [Logs -> Nat] /\ inModel \in [Logs -> Nat] /\ inTotal \in [Logs -> Nat]
  /\ undone \subseteq Logs /\ requests \in Nat /\ faults \subseteq FaultKinds

Queued == {queue[n] : n \in 1..Len(queue)}
Lossy == FaultKinds \ {"stats", "answer"}

\* What leaves tokens uncounted: a failed update of the statistics, a dead process,
\* a lost answer, and a COMMIT that fails after rows were written without it.
Uncounting ==
  faults \cap {"stats", "crash", "answer"} # {} \/ {"deadlock", "commit"} \subseteq faults
InHand(l) == \E w \in Workers : l \in batch[w] \cup rows[w]

\* A request is logged at most once, whichever processes pop the list (popLogs,
\* batchInsert).
LoggedAtMostOnce == \A l \in Logs : table[l] <= 1

\* A log that is neither waiting nor written was lost to a fault of the push, of
\* a pop, of the database or to a crash; never to the statistics, to a lost answer
\* or to processes working at the same time.
LostOnlyToFaults ==
  \A l \in Logs : l \in fresh \/ l \in Queued \/ InHand(l) \/ table[l] > 0
    \/ faults \cap Lossy # {}

\* The statistics count no tokens but of requests that are logged or whose row was
\* accepted and then undone for a deadlock, each once, and the row of a model never
\* lags behind '_total' (batchInsert, the order of the updates of incrementStats).
StatsOfLoggedOnly == \A l \in Logs :
  inTotal[l] <= inModel[l] /\ inModel[l] <= (IF l \in undone THEN 1 ELSE table[l])

\* The statistics count what was logged, no more; and when nothing is in progress
\* they agree with the log, but for rows undone for a deadlock, unless an update of
\* them failed, a process died, an answer was lost or a COMMIT failed that had no
\* transaction to commit (batchInsert, create, flushTokenStatsUpdates).
StatsComplete ==
  /\ StatsOfLoggedOnly
  /\ (direct = {} /\ \A w \in Workers : owed[w] = {}) =>
       Uncounting \/ \A l \in Logs \ undone : inTotal[l] = table[l]

\* The queue keeps the promise of LogLedger: every request is written once or lost
\* to a fault, never both, and its tokens are added to the totals once at most,
\* after its row was accepted (pushLog, popLogs, batchInsert, create,
\* incrementStats).
Ledger == INSTANCE LogLedger WITH
  pending <- fresh \cup Queued \cup {l \in Logs : InHand(l)},
  entries <- table, tokens <- inTotal, refused <- undone,
  trouble <- faults \cap Lossy # {}

ImplementsLogLedger == Ledger!Spec

\* The list is emptied, unless the processes stay cut off from Redis.
QueueDrained == <>[](queue = <<>>) \/ []<>(\E w \in Workers : ~up[w])

\* backend/sql/provider_token_stats.sql: request_count is "请求次数", the number
\* of requests whose tokens the row contains.
RequestCountCounts == requests = Cardinality({l \in Logs : inTotal[l] > 0})
=============================================================================
