------------------------------ MODULE LogLedger ------------------------------
(***************************************************************************)
(* What the request log promises a reader of request_logs and of the       *)
(* statistics, without list, batches, processes or connections: a request  *)
(* is written once or lost, never both; the tokens of a request are added  *)
(* to the totals once at most, and only if it was written or its row was   *)
(* taken back by the database; and nothing is lost before something        *)
(* failed.  RequestLogQueue is shown to implement this specification.      *)
(***************************************************************************)
EXTENDS Naturals

CONSTANT Logs

VARIABLES
  pending, \* requests neither written nor lost
  entries, \* rows of request_logs, per request
  tokens,  \* how often the tokens of a request were added to the totals
  refused, \* lost requests whose row the database first accepted
  trouble  \* something that may lose logs has failed

vars == <<pending, entries, tokens, refused, trouble>>

Init ==
  /\ pending = Logs
  /\ entries = [l \in Logs |-> 0]
  /\ tokens = [l \in Logs |-> 0]
  /\ refused = {} /\ trouble = FALSE

Increased(counts, S) == [l \in Logs |-> IF l \in S THEN counts[l] + 1 ELSE counts[l]]

Write(S) ==
  /\ S \subseteq pending
  /\ pending' = pending \ S
  /\ entries' = Increased(entries, S)
  /\ UNCHANGED <<tokens, refused, trouble>>

\* A fault stops the work on the requests S: W of them were written all the same,
\* the others are lost, R of these only after the database had accepted them.
Lose(S) ==
  /\ S \subseteq pending
  /\ pending' = pending \ S
  /\ trouble' = TRUE
  /\ \E W \in SUBSET S :
       /\ entries' = Increased(entries, W)
       /\ \E R \in SUBSET (S \ W) : refused' = refused \cup R
  /\ UNCHANGED tokens

Count(S) ==
  /\ \A l \in S : tokens[l] < (IF l \in refused THEN 1 ELSE entries[l])
  /\ tokens' = Increased(tokens, S)
  /\ UNCHANGED <<pending, entries, refused, trouble>>

Next == \E S \in SUBSET Logs : Write(S) \/ Lose(S) \/ Count(S)

Spec == Init /\ [][Next]_vars

-----------------------------------------------------------------------------
\* What follows for a reader of the tables: a request is pending, written once or
\* lost after trouble, and its tokens are in the totals once at most, and only if
\* its row is in the log or was taken back.
AllAccountedFor ==
  \A l \in Logs :
    /\ entries[l] <= 1 /\ tokens[l] <= (IF l \in refused THEN 1 ELSE entries[l])
    /\ l \in pending \/ l \in refused => entries[l] = 0
    /\ l \in pending => l \notin refused
    /\ l \in pending \/ entries[l] = 1 \/ trouble
=============================================================================
