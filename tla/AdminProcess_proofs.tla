------------------------- MODULE AdminProcess_proofs -------------------------
(* The supervision of the admin process: only a crash loop ends it.         *)
EXTENDS AdminProcess, TLAPS

USE AdminAssumption DEF AdminAssumption

\* The attempts exceed the row of short runs by one at most (the first restart
\* after a long run), and reach the maximum only through short runs.
CountInv ==
  /\ TypeOK
  /\ master # "down" => adminRestartCount <= shortRuns + 1
  /\ GivesUpOnlyInCrashLoop

LEMMA CountInvariant == Spec => []CountInv
  <1>1. Init => CountInv BY DEF Init, CountInv, TypeOK, GivesUpOnlyInCrashLoop
  <1>2. CountInv /\ [Next]_vars => CountInv'
    <2> SUFFICES ASSUME CountInv, [Next]_vars PROVE CountInv' OBVIOUS
    <2> USE DEF CountInv, TypeOK, GivesUpOnlyInCrashLoop
    <2>1. CASE Age BY <2>1 DEF Age, Running
    <2>2. CASE Exit
      <3>1. Count \in 0..MaxAdminRestart /\ (master # "down" => Count <= shortRuns') BY <2>2 DEF Count, Exit
      <3> QED BY <2>2, <3>1 DEF Exit, Running
    <2>3. CASE TimerFires BY <2>3 DEF TimerFires
    <2>4. CASE Shutdown BY <2>4 DEF Shutdown
    <2>5. CASE KillAdmin BY <2>5 DEF KillAdmin
    <2>6. CASE MasterExit BY <2>6 DEF MasterExit
    <2>7. CASE UNCHANGED vars BY <2>7 DEF vars
    <2> QED BY <2>1, <2>2, <2>3, <2>4, <2>5, <2>6, <2>7 DEF Next
  <1> QED BY <1>1, <1>2, PTL DEF Spec

\* The attempts never exceed MAX_ADMIN_RESTART, whatever its value.
THEOREM AdminTypeCorrect == Spec => []TypeOK
  <1>1. CountInv => TypeOK BY DEF CountInv
  <1> QED BY <1>1, CountInvariant, PTL

\* Whatever the limit, the master gives the admin process up only after that many
\* runs of less than a minute in a row.
THEOREM GivenUpInCrashLoop == Spec => []GivesUpOnlyInCrashLoop
  <1>1. CountInv => GivesUpOnlyInCrashLoop BY DEF CountInv
  <1> QED BY <1>1, CountInvariant, PTL
=============================================================================
