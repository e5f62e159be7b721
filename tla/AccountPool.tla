---------------------------- MODULE AccountPool ----------------------------
(***************************************************************************)
(* Which account a request gets: selectProvider in the workers of one      *)
(* channel (claude-offical, one pool), with the sticky bindings they share *)
(* in Redis and the retries of the handler on another account.             *)
(*                                                                         *)
(* A selection reads the rows of the accounts, keeps those of its shard,   *)
(* drops the ones in cooldown, waits for or resets short cooldowns when    *)
(* none is left, drops the account that has just failed and the full ones, *)
(* reads the binding of its session, chooses, and writes the binding.      *)
(* Every await is a step of its own, so the row and the binding another    *)
(* request changes meanwhile are not seen again.                           *)
(*                                                                         *)
(* A row is abstracted to what the selection tells apart; how reports and  *)
(* recoveries change it is AccountHealth.  Which accounts are full is      *)
(* RequestSlots, here any set.  The strategies differ in the candidate     *)
(* they choose, here any of them.  Channel routing between pools, model    *)
(* lists and model quotas only shrink the rows that are read.              *)
(***************************************************************************)
EXTENDS Naturals

CONSTANTS
  Requests,     \* the requests that ever arrive
  Accounts,     \* the accounts of the pool
  Keys,         \* sticky identities: a session, or the client's fingerprint
  KeyOf,        \* the identity of each request's first selection, or None
  RetryKeyOf,   \* the one of its retries, which pass sessionId: null
  Own,          \* the accounts of the shard of the worker that serves a request
  Sticky,       \* the accounts whose configuration enables stickiness
  Strict,       \* the accounts whose configuration has strictBinding
  MayReset,     \* the channel resets short cooldowns (openai-codex does not)
  MaxRetries,   \* CREDENTIAL_SWITCH_MAX_RETRIES
  MaxOutages,   \* bound: how often an account gets worse
  None          \* no account, no key

\* healthy: is_healthy, and no cooldown or one that is over; short and long: a
\* cooldown that ends within the next minute, or later; out: findAvailable does
\* not return the row.
Status == {"healthy", "short", "long", "out"}

ASSUME PoolAssumption ==
  /\ None \notin Accounts \cup Keys
  /\ KeyOf \in [Requests -> Keys \cup {None}]
  /\ RetryKeyOf \in [Requests -> Keys \cup {None}]
  /\ Own \in [Requests -> SUBSET Accounts]
  /\ Sticky \subseteq Accounts /\ Strict \subseteq Accounts
  /\ MayReset \in BOOLEAN /\ MaxRetries \in Nat /\ MaxOutages \in Nat

VARIABLES
  row,         \* the status of each account in the database
  binding,     \* the account bound to each sticky identity (Redis)
  pc,          \* where each request is
  candidates,  \* local: availableProviders, candidateProviders
  recovering,  \* local: the accounts the selection is about to mark healthy
  bound,       \* local: stickyUuid
  account,     \* pooluuid: the account of the last attempt
  retries,     \* retryContext.currentRetry
  outages,     \* how often an account got worse
  near,        \* history: accounts healthy or in a short cooldown at some
               \* time of the selection in progress
  away,        \* history: accounts that were not healthy, or full, at some time of it
  last,        \* history: the account chosen last under each identity, unless the
               \* choice switched the identity's stickiness off
  alone        \* history: no selection under the same identity overlapped it

locals == <<candidates, recovering, bound>>
history == <<near, away, last, alone>>
vars == <<row, binding, pc, locals, account, retries, outages, history>>

Init ==
  /\ row \in [Accounts -> Status]
  /\ binding = [k \in Keys |-> None]
  /\ pc = [r \in Requests |-> "arriving"]
  /\ candidates = [r \in Requests |-> {}]
  /\ recovering = [r \in Requests |-> {}]
  /\ bound = [r \in Requests |-> None]
  /\ account = [r \in Requests |-> None]
  /\ retries = [r \in Requests |-> 0]
  /\ outages = 0
  /\ near = [r \in Requests |-> {}]
  /\ away = [r \in Requests |-> {}]
  /\ last = [k \in Keys |-> None]
  /\ alone = [r \in Requests |-> FALSE]

Goto(r, from, to) == pc[r] = from /\ pc' = [pc EXCEPT ![r] = to]

\* The retry passes no session id; _resolveStickyIdentity then falls back to the
\* session in the user's identity, or to the fingerprint.
Key(r) == IF retries[r] = 0 THEN KeyOf[r] ELSE RetryKeyOf[r]

\* excludeUuids: the account that has just failed.
Excluded(r) == IF retries[r] = 0 THEN {} ELSE {account[r]}

\* The states of a request whose selection is in progress.
Selecting == {"reading", "emptyPool", "reviving", "rereading", "cooling", "waiting",
              "resetting", "filtering", "binding", "unbinding", "choosing"}

With(status, rows) == {a \in Accounts : rows[a] \in status}

-----------------------------------------------------------------------------
(* History.                                                                *)

\* A selection of r under identity k begins: what it could see now, and which
\* selections under k it overlaps.
Begin(r, k) ==
  LET overlapping == {s \in Requests \ {r} : pc[s] \in Selecting /\ k # None /\ Key(s) = k} IN
  /\ near' = [near EXCEPT ![r] = With({"healthy", "short"}, row)]
  /\ away' = [away EXCEPT ![r] = Accounts \ With({"healthy"}, row)]
  /\ alone' = [s \in Requests |->
       IF s = r THEN overlapping = {} ELSE alone[s] /\ s \notin overlapping]
  /\ UNCHANGED last

\* The rows change: what each selection in progress could have seen grows.
Rows(rows) ==
  /\ row' = rows
  /\ near' = [r \in Requests |->
       IF pc[r] \in Selecting THEN near[r] \cup With({"healthy", "short"}, rows) ELSE near[r]]
  /\ away' = [r \in Requests |->
       IF pc[r] \in Selecting THEN away[r] \cup (Accounts \ With({"healthy"}, rows)) ELSE away[r]]
  /\ UNCHANGED <<last, alone>>

-----------------------------------------------------------------------------
(* Reading the rows.                                                       *)

Arrive(r) ==
  /\ Goto(r, "arriving", "reading")
  /\ Begin(r, KeyOf[r])
  /\ UNCHANGED <<row, binding, locals, account, retries, outages>>

\* Mutant of Visible: no shard filter.
VisibleAnywhere(r) == Accounts \ With({"out"}, row)

\* The rows findAvailable returns, limited to the worker's shard unless that
\* leaves none.
Visible(r) ==
  LET all == Accounts \ With({"out"}, row)
  IN  IF all \cap Own[r] = {} THEN all ELSE all \cap Own[r]

Free(r) == Visible(r) \cap With({"healthy"}, row)
\* Mutant of Short: long cooldowns are reset too.
AnyCooldown(r) == Visible(r) \cap With({"short", "long"}, row)

Short(r) == Visible(r) \cap With({"short"}, row)

\* After auto recovery an empty pool is final.
FindAvailable(r) ==
  /\ \E from \in {"reading", "rereading"} :
       Goto(r, from, IF Visible(r) = {} THEN IF from = "reading" THEN "emptyPool" ELSE "refused"
                     ELSE IF Free(r) = {} THEN "cooling" ELSE "filtering")
  /\ candidates' = [candidates EXCEPT ![r] = Free(r)]
  /\ UNCHANGED <<row, binding, recovering, bound, account, retries, outages, history>>

\* _autoRecoverUnhealthyProviders picks some accounts of the shard that are out:
\* those whose error looks temporary, or who pass a check.
AutoRecover(r) ==
  \E R \in SUBSET (Own[r] \cap With({"out"}, row)) :
    /\ Goto(r, "emptyPool", IF R = {} THEN "refused" ELSE "reviving")
    /\ recovering' = [recovering EXCEPT ![r] = R]
    /\ UNCHANGED <<row, binding, candidates, bound, account, retries, outages, history>>

\* No account is free: the rows are read a second time, for their cooldowns.
\* When the soonest ends within 3 s the selection waits for it; otherwise it
\* resets the short ones.
ReadCooldowns(r) ==
  /\ recovering' = [recovering EXCEPT ![r] = Short(r)]
  /\ \/ /\ Short(r) # {}
        /\ Goto(r, "cooling", "waiting")
        /\ candidates' = [candidates EXCEPT ![r] = Free(r)]
     \/ /\ Short(r) # {} /\ MayReset
        /\ Goto(r, "cooling", "resetting")
        /\ candidates' = [candidates EXCEPT ![r] = Short(r)]
     \/ /\ Short(r) = {} \/ ~MayReset
        /\ Goto(r, "cooling", "refused")
        /\ UNCHANGED candidates
  /\ UNCHANGED <<row, binding, bound, account, retries, outages, history>>

\* The rows of the second read are filtered again: some cooldowns are over now.
WaitEnds(r) ==
  \E S \in SUBSET recovering[r] \ {{}} :
    /\ Goto(r, "waiting", "filtering")
    /\ candidates' = [candidates EXCEPT ![r] = @ \cup S]
    /\ recovering' = [recovering EXCEPT ![r] = {}]
    /\ Rows([a \in Accounts |-> IF a \in S /\ row[a] = "short" THEN "healthy" ELSE row[a]])
    /\ UNCHANGED <<binding, bound, account, retries, outages>>

\* markProviderHealthy on the next account, whatever its row has become since it
\* was read; an account disabled meanwhile stays out.
MarkProviderHealthy(r) ==
  \E a \in recovering[r] :
    /\ LET done == recovering[r] = {a} IN
       \/ Goto(r, "reviving", IF done THEN "rereading" ELSE "reviving")
       \/ Goto(r, "resetting", IF done THEN "filtering" ELSE "resetting")
    /\ recovering' = [recovering EXCEPT ![r] = @ \ {a}]
    /\ \/ Rows([row EXCEPT ![a] = "healthy"])
       \/ row[a] = "out" /\ Rows(row)
    /\ UNCHANGED <<binding, candidates, bound, account, retries, outages>>

-----------------------------------------------------------------------------
(* Choosing.                                                               *)

\* Drops the account that has just failed and those that are full by now.
Filter(r) ==
  \E full \in SUBSET candidates[r] :
    LET rest == candidates[r] \ (Excluded(r) \cup full) IN
    /\ Goto(r, "filtering", IF rest = {} THEN "refused"
                            ELSE IF Key(r) = None THEN "choosing" ELSE "binding")
    /\ candidates' = [candidates EXCEPT ![r] = rest]
    /\ away' = [away EXCEPT ![r] = @ \cup full]
    /\ UNCHANGED <<row, binding, recovering, bound, account, retries, outages, near, last, alone>>

\* Mutant of ReadBinding: strictBinding is taken to be set.
ReadBindingStrictly(r) ==
  LET b == binding[Key(r)] IN
  /\ Key(r) # None
  /\ Goto(r, "binding", IF b \in candidates[r] \cup {None} THEN "choosing" ELSE "refused")
  /\ bound' = [bound EXCEPT ![r] = b]
  /\ UNCHANGED <<row, binding, candidates, recovering, account, retries, outages, history>>

\* Mutant of ReadBinding: strictBinding is not looked at.
ReadBindingLoosely(r) ==
  LET b == binding[Key(r)] IN
  /\ Key(r) # None
  /\ Goto(r, "binding", IF b \in candidates[r] \cup {None} THEN "choosing" ELSE "unbinding")
  /\ bound' = [bound EXCEPT ![r] = b]
  /\ UNCHANGED <<row, binding, candidates, recovering, account, retries, outages, history>>

ReadBinding(r) ==
  LET b == binding[Key(r)] IN
  /\ Key(r) # None
  /\ Goto(r, "binding", IF b \in candidates[r] \cup {None} THEN "choosing"
                        ELSE IF b \in Strict THEN "refused" ELSE "unbinding")
  /\ bound' = [bound EXCEPT ![r] = b]
  /\ UNCHANGED <<row, binding, candidates, recovering, account, retries, outages, history>>

\* Deletes the binding of the identity, whichever it is by now.
Unbind(r) ==
  /\ Goto(r, "unbinding", "choosing")
  /\ binding' = [binding EXCEPT ![Key(r)] = None]
  /\ UNCHANGED <<row, locals, account, retries, outages, history>>

\* The bound account, or the strategy's choice.  Its binding is written again, or
\* deleted when the configuration of the first candidate, which may be any of them,
\* does not enable stickiness.
Choose(r) ==
  \E a \in IF bound[r] \in candidates[r] THEN {bound[r]} ELSE candidates[r], first \in candidates[r] :
    LET written == IF first \in Sticky THEN a ELSE None IN
    /\ Goto(r, "choosing", "serving")
    /\ account' = [account EXCEPT ![r] = a]
    /\ candidates' = [candidates EXCEPT ![r] = {}]
    /\ bound' = [bound EXCEPT ![r] = None]
    /\ binding' = [k \in Keys |-> IF k = Key(r) THEN written ELSE binding[k]]
    /\ last' = [k \in Keys |-> IF k = Key(r) THEN written ELSE last[k]]
    /\ UNCHANGED <<row, recovering, retries, outages, near, away, alone>>

Succeed(r) ==
  /\ Goto(r, "serving", "done")
  /\ UNCHANGED <<row, binding, locals, account, retries, outages, history>>

\* Mutant of Fail: one retry too many.
FailLate(r) ==
  /\ retries[r] <= MaxRetries
  /\ Goto(r, "serving", "reading")
  /\ retries' = [retries EXCEPT ![r] = @ + 1]
  /\ Begin(r, RetryKeyOf[r])
  /\ UNCHANGED <<row, binding, locals, account, outages>>

\* The error goes to the client, or the handler selects again.
Fail(r) ==
  \/ /\ retries[r] = MaxRetries
     /\ Goto(r, "serving", "failed")
     /\ UNCHANGED <<row, binding, locals, account, retries, outages, history>>
  \/ /\ retries[r] < MaxRetries
     /\ Goto(r, "serving", "reading")
     /\ retries' = [retries EXCEPT ![r] = @ + 1]
     /\ Begin(r, RetryKeyOf[r])
     /\ UNCHANGED <<row, binding, locals, account, outages>>

-----------------------------------------------------------------------------
(* What happens to the accounts meanwhile (AccountHealth), and the expiry  *)
(* of bindings.                                                            *)

Worsen(a) ==
  /\ outages < MaxOutages /\ outages' = outages + 1
  /\ \E status \in {"short", "long", "out"} :
       row[a] # status /\ Rows([row EXCEPT ![a] = status])
  /\ UNCHANGED <<binding, pc, locals, account, retries>>

\* Time passes, or the account recovers.
Improve(a) ==
  /\ row[a] # "healthy"
  /\ Rows([row EXCEPT ![a] = IF row[a] = "long" THEN "short" ELSE "healthy"])
  /\ UNCHANGED <<binding, pc, locals, account, retries, outages>>

\* The binding of k expires (its TTL), which ends the session; selections
\* in progress under k do not see that it did.
BindingExpires(k) ==
  /\ binding[k] # None
  /\ binding' = [binding EXCEPT ![k] = None]
  /\ last' = [last EXCEPT ![k] = None]
  /\ alone' = [r \in Requests |-> alone[r] /\ ~(pc[r] \in Selecting /\ Key(r) = k)]
  /\ UNCHANGED <<row, pc, locals, account, retries, outages, near, away>>

-----------------------------------------------------------------------------
Step(r) ==
  \/ FindAvailable(r) \/ AutoRecover(r) \/ ReadCooldowns(r) \/ WaitEnds(r) \/ MarkProviderHealthy(r)
  \/ Filter(r) \/ ReadBinding(r) \/ Unbind(r) \/ Choose(r) \/ Succeed(r) \/ Fail(r)

Next ==
  \/ \E r \in Requests : Arrive(r) \/ Step(r)
  \/ \E a \in Accounts : Worsen(a) \/ Improve(a)
  \/ \E k \in Keys : BindingExpires(k)

Spec == Init /\ [][Next]_vars

-----------------------------------------------------------------------------
(* Properties.                                                             *)

Ends == {"done", "failed", "refused"}

TypeOK ==
  /\ row \in [Accounts -> Status]
  /\ binding \in [Keys -> Accounts \cup {None}]
  /\ pc \in [Requests -> {"arriving", "serving"} \cup Selecting \cup Ends]
  /\ candidates \in [Requests -> SUBSET Accounts]
  /\ recovering \in [Requests -> SUBSET Accounts]
  /\ bound \in [Requests -> Accounts \cup {None}]
  /\ account \in [Requests -> Accounts \cup {None}]
  /\ retries \in [Requests -> 0..MaxRetries]
  /\ outages \in 0..MaxOutages
  /\ near \in [Requests -> SUBSET Accounts]
  /\ away \in [Requests -> SUBSET Accounts]
  /\ last \in [Keys -> Accounts \cup {None}]
  /\ alone \in [Requests -> BOOLEAN]

\* The account a request runs on was healthy, or in a cooldown about to end, at
\* some time of its selection, whatever happened to it between the reads and
\* even when the binding named it.
GivenWasAvailable ==
  \A r \in Requests : pc[r] = "serving" => account[r] \in near[r]

\* A request is refused only when each account of its shard was away or full at
\* some time of the selection, or has just failed it, or when its identity is
\* bound strictly to an account that cannot be chosen.
RefusedForCause ==
  \A r \in Requests : pc[r] = "refused" =>
    \/ Own[r] \subseteq away[r] \cup Excluded(r)
    \/ bound[r] \in Strict \ candidates[r]

\* A selection that no other one under the same identity overlapped moves the
\* identity to another account only when its account cannot be chosen and is
\* not bound strictly: the deletion of a binding never drops a newer one.
SessionMovesForCause ==
  [][\A r \in Requests :
       LET k == Key(r) IN
       pc[r] = "choosing" /\ pc'[r] = "serving" /\ k # None /\ alone[r] =>
         last[k] \in {None, account'[r]} \/ last[k] \notin candidates[r] \cup Strict]_vars

\* A worker serves a request on an account of another shard only when all of its
\* own accounts were away at some time of the selection: a binding another worker
\* wrote does not bring a foreign account in.
ForeignOnlyWhenShardAway ==
  \A r \in Requests : pc[r] = "serving" /\ account[r] \notin Own[r] => Own[r] \subseteq away[r]

\* A selection that has got as far as its binding can still choose, and never the
\* account that has just failed it; one that waits or recovers has somebody to
\* wait for.  So no selection stops half-way.
SelectionGoesOn ==
  \A r \in Requests :
    /\ pc[r] \in {"reviving", "waiting", "resetting"} => recovering[r] # {}
    /\ pc[r] \in {"binding", "unbinding"} => Key(r) # None
    /\ pc[r] \in {"binding", "unbinding", "choosing"} =>
         candidates[r] # {} /\ candidates[r] \cap Excluded(r) = {}

\* A retry goes to another account, also when the binding of its session names
\* the one that has just failed: the handler's branch for a result with the same
\* uuid (common.js:1473) is never taken.
RetryMovesOn ==
  [][\A r \in Requests :
       pc[r] = "choosing" /\ pc'[r] = "serving" /\ retries[r] > 0
         => account'[r] # account[r]]_vars

\* The comment of the retry: sticky is disabled, since it names the account that
\* has just failed.  So a retry is refused only for want of accounts, never
\* because of a binding.
RetryIgnoresSticky ==
  \A r \in Requests : pc[r] = "refused" /\ retries[r] > 0 => Own[r] \subseteq away[r] \cup Excluded(r)
=============================================================================
