---------------------------- MODULE AdminProcess ----------------------------
(***************************************************************************)
(* The admin process (management API) and the master that supervises it:   *)
(* an exit is followed by a restart after a delay that doubles with each   *)
(* attempt, the attempts start again from 0 after a run of more than 60 s, *)
(* and the exit handler is the same while the master shuts down.           *)
(***************************************************************************)
EXTENDS Integers

CONSTANTS
  MaxAdminRestart,  \* MAX_ADMIN_RESTART
  MaxShutdowns      \* 1, or 0 for runs without a shutdown

ASSUME AdminAssumption == MaxAdminRestart \in Nat /\ MaxShutdowns \in 0..1

VARIABLES
  master,       \* up, stopping (dispatcher closed), killed (children told to exit), down
  admin,        \* up, draining (SIGTERM), waiting for its timer, unspawned (its start
                \* failed), gone
  age,          \* of the present run: old after ADMIN_RESTART_RESET_TIME (60 s)
  adminRestartCount,
  shortRuns,    \* history: exits in a row after a run that was not old
  shutdowns

vars == <<master, admin, age, adminRestartCount, shortRuns, shutdowns>>
Running == admin \in {"up", "draining"}

Init ==
  /\ master = "up" /\ admin \in {"up", "unspawned"} /\ age = "young"
  /\ adminRestartCount = 0 /\ shortRuns = 0 /\ shutdowns = 0

Age ==
  /\ Running /\ age = "young" /\ age' = "old"
  /\ UNCHANGED <<master, admin, adminRestartCount, shortRuns, shutdowns>>

\* Mutant of Count: a long run does not reset the attempts.
CountAll == adminRestartCount

Count == IF age = "old" THEN 0 ELSE adminRestartCount

\* Mutant of Exit: the limit is tested with > instead of >=.
ExitOffByOne ==
  /\ Running /\ age' = "young"
  /\ shortRuns' = IF age = "old" THEN 0 ELSE shortRuns + 1
  /\ IF master = "down" \/ Count > MaxAdminRestart
       THEN admin' = "gone" /\ UNCHANGED adminRestartCount
       ELSE admin' = "waiting" /\ adminRestartCount' = Count + 1
  /\ UNCHANGED <<master, shutdowns>>

\* A crash, or the end of the drain; without its master nobody handles the exit.
Exit ==
  /\ Running /\ age' = "young"
  /\ shortRuns' = IF age = "old" THEN 0 ELSE shortRuns + 1
  /\ IF master = "down"
       THEN admin' = "gone" /\ UNCHANGED adminRestartCount
     ELSE IF Count >= MaxAdminRestart
       THEN admin' = "gone" /\ adminRestartCount' = Count
     ELSE admin' = "waiting" /\ adminRestartCount' = Count + 1
  /\ UNCHANGED <<master, shutdowns>>

\* startAdminProcess.  A spawn that fails gives an 'error', which is only logged,
\* and no 'exit': nothing starts the admin process again.
TimerFires ==
  /\ admin = "waiting" /\ master # "down" /\ admin' \in {"up", "unspawned"}
  /\ UNCHANGED <<master, age, adminRestartCount, shortRuns, shutdowns>>

Shutdown ==
  /\ master = "up" /\ shutdowns < MaxShutdowns
  /\ master' = "stopping" /\ shutdowns' = shutdowns + 1
  /\ UNCHANGED <<admin, age, adminRestartCount, shortRuns>>

\* adminProcess.kill: nothing to kill while the restart timer runs, or when the last
\* start failed.
KillAdmin ==
  /\ master = "stopping" /\ master' = "killed"
  /\ admin' = IF admin = "up" THEN "draining" ELSE admin
  /\ UNCHANGED <<age, adminRestartCount, shortRuns, shutdowns>>

\* The forced exit 5 s later.  The admin process does not listen for 'disconnect'.
MasterExit ==
  /\ master = "killed" /\ master' = "down"
  /\ admin' = IF admin \in {"waiting", "unspawned"} THEN "gone" ELSE admin
  /\ UNCHANGED <<age, adminRestartCount, shortRuns, shutdowns>>

Next == Age \/ Exit \/ TimerFires \/ Shutdown \/ KillAdmin \/ MasterExit

Spec == Init /\ [][Next]_vars

\* A SIGTERMed admin process exits within 10 s, the timers fire, a shutdown goes on.
ExitOnceKilled == admin = "draining" /\ Exit
FairSpec ==
  /\ Spec /\ WF_vars(ExitOnceKilled) /\ WF_vars(TimerFires)
  /\ WF_vars(KillAdmin) /\ WF_vars(MasterExit)

-----------------------------------------------------------------------------
(* Properties.                                                             *)

\* The shapes of the state; the attempts never exceed MAX_ADMIN_RESTART.
TypeOK ==
  /\ master \in {"up", "stopping", "killed", "down"}
  /\ admin \in {"up", "draining", "waiting", "unspawned", "gone"}
  /\ age \in {"young", "old"}
  /\ adminRestartCount \in 0..MaxAdminRestart
  /\ shortRuns \in Nat /\ shutdowns \in Nat

\* The exit handler gives the admin process up only in a crash loop: at least
\* MAX_ADMIN_RESTART runs in a row shorter than 60 s.  (A start that fails ends the
\* supervision without it.)
GivesUpOnlyInCrashLoop ==
  admin = "gone" /\ master # "down" => shortRuns >= MaxAdminRestart

\* Once a shut-down master is gone, the admin process ends as well.
AdminEndsWithMaster == master = "down" ~> admin = "gone"
=============================================================================
