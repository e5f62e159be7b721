--------------------------- MODULE ShardSupervision ---------------------------
(***************************************************************************)
(* What the supervision of the workers promises each shard, without phases,*)
(* timers, connections or messages: a shard has one process after another, *)
(* each with an id never used before; a process that ends is replaced      *)
(* later as long as the shard has restarts left; a shard that is given up  *)
(* stays so; and after the master has gone nothing is started any more.    *)
(* Cluster is shown to implement this specification.                       *)
(***************************************************************************)
EXTENDS Integers

CONSTANTS NumWorkers, MaxAttempts

Shards == 0..(NumWorkers - 1)

VARIABLES
  owners,  \* the processes of each shard, by id
  waiting, \* shards whose next process is to be started
  left,    \* restarts left to each shard
  lastId,  \* the id given last
  over     \* the master has gone

vars == <<owners, waiting, left, lastId, over>>

Init ==
  /\ owners = [s \in Shards |-> {s + 1}] /\ lastId = NumWorkers
  /\ waiting = {}
  /\ left = [s \in Shards |-> MaxAttempts]
  /\ over = FALSE

Start(s) ==
  /\ s \in waiting /\ ~over
  /\ lastId' = lastId + 1
  /\ owners' = [owners EXCEPT ![s] = {lastId + 1}]
  /\ waiting' = waiting \ {s}
  /\ UNCHANGED <<left, over>>

End(s) == owners[s] # {} /\ owners' = [owners EXCEPT ![s] = {}]

Schedule(s) ==
  /\ ~over /\ left[s] > 0
  /\ End(s)
  /\ waiting' = waiting \cup {s}
  /\ left' = [left EXCEPT ![s] = @ - 1]
  /\ UNCHANGED <<lastId, over>>

GiveUp(s) ==
  /\ over \/ left[s] = 0
  /\ End(s)
  /\ left' = [left EXCEPT ![s] = 0]
  /\ UNCHANGED <<waiting, lastId, over>>

MasterGoes ==
  /\ ~over /\ over' = TRUE
  /\ waiting' = {}
  /\ left' = [s \in Shards |-> IF s \in waiting THEN 0 ELSE left[s]]
  /\ UNCHANGED <<owners, lastId>>

Next == MasterGoes \/ \E s \in Shards : Start(s) \/ Schedule(s) \/ GiveUp(s)

Spec == Init /\ [][Next]_vars

-----------------------------------------------------------------------------
\* What follows for the shards: none has two processes and no process two shards,
\* none waits beside a process or after the end, and a shard that has no process
\* and waits for none has no restarts left.
AllShardsAccounted ==
  /\ \A s \in Shards : owners[s] = {} \/ \E id \in 1..lastId : owners[s] = {id}
  /\ \A s, z \in Shards : s # z => owners[s] \cap owners[z] = {}
  /\ \A s \in Shards : owners[s] = {} => s \in waiting \/ left[s] = 0
  /\ \A s \in waiting : owners[s] = {} /\ ~over

\* One process after another: a shard gets a process only after it was without one
\* and not given up, and the new one is younger than all that ever were.
Succession ==
  \A s \in Shards : \A id \in owners'[s] \ owners[s] :
    owners[s] = {} /\ s \in waiting /\ id > lastId

OneAfterAnother == [][Succession]_vars
=============================================================================
