---------------------------- MODULE AccountLease ----------------------------
(***************************************************************************)
(* What the account queue lock promises to the handler, without queue,     *)
(* polls, tokens, counters, tracking entries or clean-up: a request is     *)
(* granted at most one account, at most once, and alone; it gives the      *)
(* account back once; and it is answered once, granted or refused.         *)
(* RequestSlots is shown to implement this specification.                  *)
(***************************************************************************)
CONSTANTS Requests, Accounts, None

VARIABLES
  held,     \* the account each request holds, or None
  answered  \* the requests that are over

vars == <<held, answered>>

Init ==
  /\ held = [r \in Requests |-> None]
  /\ answered = {}

Waiting(r) == held[r] = None /\ r \notin answered

Grant(r) ==
  /\ Waiting(r)
  /\ \E a \in Accounts :
       /\ \A s \in Requests : held[s] # a
       /\ held' = [held EXCEPT ![r] = a]
  /\ UNCHANGED answered

\* No account is available, the user is at its limit, or the wait was too long.
Refuse(r) ==
  /\ Waiting(r)
  /\ answered' = answered \cup {r}
  /\ UNCHANGED held

Return(r) ==
  /\ held[r] # None
  /\ held' = [held EXCEPT ![r] = None]
  /\ answered' = answered \cup {r}

Next == \E r \in Requests : Grant(r) \/ Refuse(r) \/ Return(r)

Spec == Init /\ [][Next]_vars
=============================================================================
