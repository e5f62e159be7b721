------------------------- MODULE AccountPool_proofs -------------------------
(***************************************************************************)
(* What holds of the selections for any number of requests, accounts,      *)
(* identities and shards.  Each stage of a selection knows something of    *)
(* its candidates (Stages); the binding of an identity agrees with the     *)
(* account chosen last unless a selection stands between deleting it and   *)
(* writing it again (Bindings).                                            *)
(***************************************************************************)
EXTENDS AccountPool, TLAPS

-----------------------------------------------------------------------------
(* Types.                                                                  *)

LEMMA TypeInit == Init => TypeOK
BY PoolAssumption DEF Init, TypeOK, With, Status, Selecting, Ends

LEMMA TypeStep ==
  ASSUME TypeOK, [Next]_vars
  PROVE  TypeOK'
<1> USE PoolAssumption DEF TypeOK, Status, Selecting, Ends, locals, history
<1>1. ASSUME NEW r \in Requests, Arrive(r) PROVE TypeOK'
  BY <1>1 DEF Arrive, Goto, Begin, With
<1>2. ASSUME NEW r \in Requests, FindAvailable(r) PROVE TypeOK'
  BY <1>2 DEF FindAvailable, Goto, Free, Visible, With
<1>3. ASSUME NEW r \in Requests, AutoRecover(r) PROVE TypeOK'
  BY <1>3 DEF AutoRecover, Goto, With
<1>4. ASSUME NEW r \in Requests, ReadCooldowns(r) PROVE TypeOK'
  BY <1>4 DEF ReadCooldowns, Goto, Free, Short, Visible, With
<1>5. ASSUME NEW r \in Requests, WaitEnds(r) PROVE TypeOK'
  BY <1>5, SMTT(30) DEF WaitEnds, Goto, Rows, With
<1>6. ASSUME NEW r \in Requests, MarkProviderHealthy(r) PROVE TypeOK'
  BY <1>6, SMTT(30) DEF MarkProviderHealthy, Goto, Rows, With
<1>7. ASSUME NEW r \in Requests, Filter(r) PROVE TypeOK'
  BY <1>7 DEF Filter, Goto, Key
<1>8. ASSUME NEW r \in Requests, ReadBinding(r) PROVE TypeOK'
  BY <1>8 DEF ReadBinding, Goto, Key
<1>9. ASSUME NEW r \in Requests, Unbind(r) PROVE TypeOK'
  BY <1>9 DEF Unbind, Goto, Key
<1>10. ASSUME NEW r \in Requests, Choose(r) PROVE TypeOK'
  BY <1>10 DEF Choose, Goto
<1>11. ASSUME NEW r \in Requests, Succeed(r) PROVE TypeOK'
  BY <1>11 DEF Succeed, Goto
<1>12. ASSUME NEW r \in Requests, Fail(r) PROVE TypeOK'
  <2>1. CASE retries[r] = MaxRetries
    BY <1>12, <2>1 DEF Fail, Goto
  <2>2. CASE retries[r] < MaxRetries
    <3>1. alone' \in [Requests -> BOOLEAN]
      <4>1. Begin(r, RetryKeyOf[r])
        BY <1>12, <2>2 DEF Fail
      <4>. QED BY <4>1 DEF Begin
    <3>2. retries' \in [Requests -> 0..MaxRetries]
      BY <1>12, <2>2 DEF Fail
    <3>. QED BY <1>12, <2>2, <3>1, <3>2, SMTT(30) DEF Fail, Goto, Begin, With
  <2>. QED BY <1>12, <2>1, <2>2 DEF Fail
<1>13. ASSUME NEW a \in Accounts, Worsen(a) PROVE TypeOK'
  BY <1>13 DEF Worsen, Rows, With
<1>14. ASSUME NEW a \in Accounts, Improve(a) PROVE TypeOK'
  BY <1>14 DEF Improve, Rows, With
<1>15. ASSUME NEW k \in Keys, BindingExpires(k) PROVE TypeOK'
  BY <1>15 DEF BindingExpires
<1>16. CASE UNCHANGED vars
  BY <1>16 DEF vars, locals, history
<1>. QED BY <1>1, <1>2, <1>3, <1>4, <1>5, <1>6, <1>7, <1>8, <1>9, <1>10, <1>11, <1>12, <1>13, <1>14,
            <1>15, <1>16 DEF Next, Step

-----------------------------------------------------------------------------
(* What each stage knows of the candidates.                                *)

Chosen == {"filtering", "binding", "unbinding", "choosing"}

\* The history of a selection in progress takes in what the rows are now.
Sees(r) ==
  pc[r] \in Selecting =>
    \A a \in Accounts :
      /\ row[a] \in {"healthy", "short"} => a \in near[r]
      /\ row[a] # "healthy" => a \in away[r]

NearStage(r) ==
  /\ pc[r] \in Chosen \cup {"waiting", "resetting"} => candidates[r] \subseteq near[r]
  /\ pc[r] \in {"waiting", "resetting"} => recovering[r] \subseteq near[r]
  /\ pc[r] = "serving" => account[r] \in near[r]

\* Once no account was free, those of the shard have all been away.
AwayStage(r) ==
  /\ pc[r] \in {"emptyPool", "reviving", "rereading", "cooling", "waiting", "resetting"} =>
       Own[r] \subseteq away[r]
  /\ pc[r] \in Chosen =>
       /\ Own[r] \subseteq candidates[r] \cup away[r] \cup Excluded(r)
       /\ candidates[r] \subseteq Own[r] \/ Own[r] \subseteq away[r]
  /\ pc[r] = "serving" => account[r] \in Own[r] \/ Own[r] \subseteq away[r]
  /\ pc[r] = "refused" => \/ Own[r] \subseteq away[r] \cup Excluded(r)
                          \/ bound[r] \in Strict \ candidates[r]

Stages == \A r \in Requests : Sees(r) /\ NearStage(r) /\ AwayStage(r)

LEMMA SeesStep ==
  ASSUME TypeOK, \A r \in Requests : Sees(r), NEW s \in Requests, [Next]_vars
  PROVE  Sees(s)'
<1> USE DEF TypeOK, Sees, Selecting, With, locals, history
<1>1. ASSUME NEW r \in Requests, Arrive(r) PROVE Sees(s)'
  BY <1>1 DEF Arrive, Goto, Begin, With
<1>2. ASSUME NEW r \in Requests, FindAvailable(r) PROVE Sees(s)'
  BY <1>2 DEF FindAvailable, Goto
<1>3. ASSUME NEW r \in Requests, AutoRecover(r) PROVE Sees(s)'
  BY <1>3 DEF AutoRecover, Goto
<1>4. ASSUME NEW r \in Requests, ReadCooldowns(r) PROVE Sees(s)'
  BY <1>4 DEF ReadCooldowns, Goto
<1>5. ASSUME NEW r \in Requests, WaitEnds(r) PROVE Sees(s)'
  BY <1>5 DEF WaitEnds, Goto, Rows, With
<1>6. ASSUME NEW r \in Requests, MarkProviderHealthy(r) PROVE Sees(s)'
  BY <1>6 DEF MarkProviderHealthy, Goto, Rows, With
<1>7. ASSUME NEW r \in Requests, Filter(r) PROVE Sees(s)'
  BY <1>7 DEF Filter, Goto
<1>8. ASSUME NEW r \in Requests, ReadBinding(r) PROVE Sees(s)'
  BY <1>8 DEF ReadBinding, Goto
<1>9. ASSUME NEW r \in Requests, Unbind(r) PROVE Sees(s)'
  BY <1>9 DEF Unbind, Goto
<1>10. ASSUME NEW r \in Requests, Choose(r) PROVE Sees(s)'
  BY <1>10 DEF Choose, Goto
<1>11. ASSUME NEW r \in Requests, Succeed(r) PROVE Sees(s)'
  BY <1>11 DEF Succeed, Goto
<1>12. ASSUME NEW r \in Requests, Fail(r) PROVE Sees(s)'
  BY <1>12 DEF Fail, Goto, Begin, With
<1>13. ASSUME NEW a \in Accounts, Worsen(a) PROVE Sees(s)'
  BY <1>13 DEF Worsen, Rows, With
<1>14. ASSUME NEW a \in Accounts, Improve(a) PROVE Sees(s)'
  BY <1>14 DEF Improve, Rows, With
<1>15. ASSUME NEW k \in Keys, BindingExpires(k) PROVE Sees(s)'
  BY <1>15 DEF BindingExpires
<1>16. CASE UNCHANGED vars
  BY <1>16 DEF vars, locals, history
<1>. QED BY <1>1, <1>2, <1>3, <1>4, <1>5, <1>6, <1>7, <1>8, <1>9, <1>10, <1>11, <1>12, <1>13, <1>14,
            <1>15, <1>16 DEF Next, Step

LEMMA NearStep ==
  ASSUME TypeOK, \A r \in Requests : Sees(r), \A r \in Requests : NearStage(r),
         NEW s \in Requests, [Next]_vars
  PROVE  NearStage(s)'
<1> USE DEF TypeOK, NearStage, Chosen, Selecting, locals, history
<1>1. ASSUME NEW r \in Requests, Arrive(r) PROVE NearStage(s)'
  BY <1>1 DEF Arrive, Goto, Begin, With
<1>2. ASSUME NEW r \in Requests, FindAvailable(r) PROVE NearStage(s)'
  BY <1>2 DEF FindAvailable, Goto, Free, Visible, With, Sees
<1>3. ASSUME NEW r \in Requests, AutoRecover(r) PROVE NearStage(s)'
  BY <1>3 DEF AutoRecover, Goto
<1>4. ASSUME NEW r \in Requests, ReadCooldowns(r) PROVE NearStage(s)'
  BY <1>4 DEF ReadCooldowns, Goto, Free, Short, Visible, With, Sees
<1>5. ASSUME NEW r \in Requests, WaitEnds(r) PROVE NearStage(s)'
  BY <1>5 DEF WaitEnds, Goto, Rows, With
<1>6. ASSUME NEW r \in Requests, MarkProviderHealthy(r) PROVE NearStage(s)'
  BY <1>6 DEF MarkProviderHealthy, Goto, Rows, With
<1>7. ASSUME NEW r \in Requests, Filter(r) PROVE NearStage(s)'
  BY <1>7 DEF Filter, Goto
<1>8. ASSUME NEW r \in Requests, ReadBinding(r) PROVE NearStage(s)'
  BY <1>8 DEF ReadBinding, Goto
<1>9. ASSUME NEW r \in Requests, Unbind(r) PROVE NearStage(s)'
  BY <1>9 DEF Unbind, Goto
<1>10. ASSUME NEW r \in Requests, Choose(r) PROVE NearStage(s)'
  BY <1>10 DEF Choose, Goto
<1>11. ASSUME NEW r \in Requests, Succeed(r) PROVE NearStage(s)'
  BY <1>11 DEF Succeed, Goto
<1>12. ASSUME NEW r \in Requests, Fail(r) PROVE NearStage(s)'
  BY <1>12 DEF Fail, Goto, Begin, With
<1>13. ASSUME NEW a \in Accounts, Worsen(a) PROVE NearStage(s)'
  BY <1>13 DEF Worsen, Rows, With
<1>14. ASSUME NEW a \in Accounts, Improve(a) PROVE NearStage(s)'
  BY <1>14 DEF Improve, Rows, With
<1>15. ASSUME NEW k \in Keys, BindingExpires(k) PROVE NearStage(s)'
  BY <1>15 DEF BindingExpires
<1>16. CASE UNCHANGED vars
  BY <1>16 DEF vars, locals, history
<1>. QED BY <1>1, <1>2, <1>3, <1>4, <1>5, <1>6, <1>7, <1>8, <1>9, <1>10, <1>11, <1>12, <1>13, <1>14,
            <1>15, <1>16 DEF Next, Step

LEMMA AwayStep ==
  ASSUME TypeOK, \A r \in Requests : Sees(r), \A r \in Requests : AwayStage(r),
         NEW s \in Requests, [Next]_vars
  PROVE  AwayStage(s)'
<1> USE PoolAssumption DEF TypeOK, AwayStage, Chosen, Selecting, Excluded, locals, history
<1>1. ASSUME NEW r \in Requests, Arrive(r) PROVE AwayStage(s)'
  BY <1>1 DEF Arrive, Goto, Begin, With
<1>2. ASSUME NEW r \in Requests, FindAvailable(r) PROVE AwayStage(s)'
  BY <1>2 DEF FindAvailable, Goto, Free, Visible, With, Sees
<1>3. ASSUME NEW r \in Requests, AutoRecover(r) PROVE AwayStage(s)'
  BY <1>3 DEF AutoRecover, Goto
<1>4. ASSUME NEW r \in Requests, ReadCooldowns(r) PROVE AwayStage(s)'
  BY <1>4 DEF ReadCooldowns, Goto
<1>5. ASSUME NEW r \in Requests, WaitEnds(r) PROVE AwayStage(s)'
  BY <1>5, SMTT(30) DEF WaitEnds, Goto, Rows, With
<1>6. ASSUME NEW r \in Requests, MarkProviderHealthy(r) PROVE AwayStage(s)'
  BY <1>6, SMTT(30) DEF MarkProviderHealthy, Goto, Rows, With
<1>7. ASSUME NEW r \in Requests, Filter(r) PROVE AwayStage(s)'
  BY <1>7 DEF Filter, Goto
<1>8. ASSUME NEW r \in Requests, ReadBinding(r) PROVE AwayStage(s)'
  BY <1>8 DEF ReadBinding, Goto
<1>9. ASSUME NEW r \in Requests, Unbind(r) PROVE AwayStage(s)'
  BY <1>9 DEF Unbind, Goto
<1>10. ASSUME NEW r \in Requests, Choose(r) PROVE AwayStage(s)'
  BY <1>10 DEF Choose, Goto
<1>11. ASSUME NEW r \in Requests, Succeed(r) PROVE AwayStage(s)'
  BY <1>11 DEF Succeed, Goto
<1>12. ASSUME NEW r \in Requests, Fail(r) PROVE AwayStage(s)'
  BY <1>12 DEF Fail, Goto, Begin, With
<1>13. ASSUME NEW a \in Accounts, Worsen(a) PROVE AwayStage(s)'
  BY <1>13, SMTT(30) DEF Worsen, Rows, With
<1>14. ASSUME NEW a \in Accounts, Improve(a) PROVE AwayStage(s)'
  BY <1>14, SMTT(30) DEF Improve, Rows, With
<1>15. ASSUME NEW k \in Keys, BindingExpires(k) PROVE AwayStage(s)'
  BY <1>15 DEF BindingExpires
<1>16. CASE UNCHANGED vars
  BY <1>16 DEF vars, locals, history
<1>. QED BY <1>1, <1>2, <1>3, <1>4, <1>5, <1>6, <1>7, <1>8, <1>9, <1>10, <1>11, <1>12, <1>13, <1>14,
            <1>15, <1>16 DEF Next, Step

-----------------------------------------------------------------------------
(* Bindings.                                                               *)

Arriving(r) == pc[r] = "arriving" => retries[r] = 0

\* No selection under its identity runs beside one that is alone.
Solitary(r) ==
  pc[r] \in Selecting /\ alone[r] /\ Key(r) # None =>
    \A s \in Requests \ {r} : pc[s] \in Selecting => Key(s) # Key(r)

\* A binding is missing only between its deletion and its next write.
Agrees(k) ==
  \/ binding[k] = last[k]
  \/ binding[k] = None /\ \E s \in Requests : pc[s] = "choosing" /\ Key(s) = k

\* A selection that is alone has read the account chosen last.
BoundStage(r) ==
  pc[r] \in {"unbinding", "choosing"} /\ alone[r] /\ Key(r) # None =>
    /\ bound[r] = last[Key(r)]
    /\ bound[r] \notin Strict \/ (pc[r] = "choosing" /\ bound[r] \in candidates[r])

Bindings ==
  /\ \A r \in Requests : Arriving(r) /\ Solitary(r) /\ BoundStage(r)
  /\ \A k \in Keys : Agrees(k)

LEMMA KeyType == ASSUME TypeOK, NEW r \in Requests PROVE Key(r) \in Keys \cup {None}
BY PoolAssumption DEF TypeOK, Key

LEMMA ArrivingStep ==
  ASSUME TypeOK, \A r \in Requests : Arriving(r), NEW s \in Requests, [Next]_vars
  PROVE  Arriving(s)'
<1> USE DEF TypeOK, Arriving, locals, history
<1>1. ASSUME NEW r \in Requests, Arrive(r) PROVE Arriving(s)'
  BY <1>1 DEF Arrive, Goto, Begin, With
<1>2. ASSUME NEW r \in Requests, FindAvailable(r) PROVE Arriving(s)'
  BY <1>2 DEF FindAvailable, Goto
<1>3. ASSUME NEW r \in Requests, AutoRecover(r) PROVE Arriving(s)'
  BY <1>3 DEF AutoRecover, Goto
<1>4. ASSUME NEW r \in Requests, ReadCooldowns(r) PROVE Arriving(s)'
  BY <1>4 DEF ReadCooldowns, Goto
<1>5. ASSUME NEW r \in Requests, WaitEnds(r) PROVE Arriving(s)'
  BY <1>5 DEF WaitEnds, Goto, Rows, With
<1>6. ASSUME NEW r \in Requests, MarkProviderHealthy(r) PROVE Arriving(s)'
  BY <1>6 DEF MarkProviderHealthy, Goto, Rows, With
<1>7. ASSUME NEW r \in Requests, Filter(r) PROVE Arriving(s)'
  BY <1>7 DEF Filter, Goto
<1>8. ASSUME NEW r \in Requests, ReadBinding(r) PROVE Arriving(s)'
  BY <1>8 DEF ReadBinding, Goto
<1>9. ASSUME NEW r \in Requests, Unbind(r) PROVE Arriving(s)'
  BY <1>9 DEF Unbind, Goto
<1>10. ASSUME NEW r \in Requests, Choose(r) PROVE Arriving(s)'
  BY <1>10 DEF Choose, Goto
<1>11. ASSUME NEW r \in Requests, Succeed(r) PROVE Arriving(s)'
  BY <1>11 DEF Succeed, Goto
<1>12. ASSUME NEW r \in Requests, Fail(r) PROVE Arriving(s)'
  BY <1>12 DEF Fail, Goto, Begin, With
<1>13. ASSUME NEW a \in Accounts, Worsen(a) PROVE Arriving(s)'
  BY <1>13 DEF Worsen, Rows, With
<1>14. ASSUME NEW a \in Accounts, Improve(a) PROVE Arriving(s)'
  BY <1>14 DEF Improve, Rows, With
<1>15. ASSUME NEW k \in Keys, BindingExpires(k) PROVE Arriving(s)'
  BY <1>15 DEF BindingExpires
<1>16. CASE UNCHANGED vars
  BY <1>16 DEF vars, locals, history
<1>. QED BY <1>1, <1>2, <1>3, <1>4, <1>5, <1>6, <1>7, <1>8, <1>9, <1>10, <1>11, <1>12, <1>13, <1>14,
            <1>15, <1>16 DEF Next, Step

LEMMA SolitaryStep ==
  ASSUME TypeOK, \A r \in Requests : Arriving(r) /\ Solitary(r), NEW s \in Requests, [Next]_vars
  PROVE  Solitary(s)'
<1> USE DEF TypeOK, Arriving, Solitary, Key, Selecting, locals, history
<1>1. ASSUME NEW r \in Requests, Arrive(r) PROVE Solitary(s)'
  <2>1. Begin(r, KeyOf[r]) /\ Goto(r, "arriving", "reading") /\ retries' = retries
    BY <1>1 DEF Arrive
  <2>2. Key(r)' = KeyOf[r]
    BY <2>1 DEF Goto
  <2>3. \A q \in Requests \ {r} : Key(q)' = Key(q) /\ pc'[q] = pc[q]
    BY <2>1 DEF Goto
  <2>4. \A q \in Requests \ {r} : alone'[q] =>
          alone[q] /\ ~(pc[q] \in Selecting /\ KeyOf[r] # None /\ Key(q) = KeyOf[r])
    BY <2>1 DEF Begin
  <2>5. alone'[r] =>
          \A q \in Requests \ {r} : ~(pc[q] \in Selecting /\ KeyOf[r] # None /\ Key(q) = KeyOf[r])
    BY <2>1 DEF Begin
  <2>. QED BY <2>2, <2>3, <2>4, <2>5
<1>2. ASSUME NEW r \in Requests, FindAvailable(r) PROVE Solitary(s)'
  BY <1>2 DEF FindAvailable, Goto
<1>3. ASSUME NEW r \in Requests, AutoRecover(r) PROVE Solitary(s)'
  BY <1>3 DEF AutoRecover, Goto
<1>4. ASSUME NEW r \in Requests, ReadCooldowns(r) PROVE Solitary(s)'
  BY <1>4 DEF ReadCooldowns, Goto
<1>5. ASSUME NEW r \in Requests, WaitEnds(r) PROVE Solitary(s)'
  BY <1>5 DEF WaitEnds, Goto, Rows, With
<1>6. ASSUME NEW r \in Requests, MarkProviderHealthy(r) PROVE Solitary(s)'
  BY <1>6 DEF MarkProviderHealthy, Goto, Rows, With
<1>7. ASSUME NEW r \in Requests, Filter(r) PROVE Solitary(s)'
  BY <1>7 DEF Filter, Goto
<1>8. ASSUME NEW r \in Requests, ReadBinding(r) PROVE Solitary(s)'
  BY <1>8 DEF ReadBinding, Goto
<1>9. ASSUME NEW r \in Requests, Unbind(r) PROVE Solitary(s)'
  BY <1>9 DEF Unbind, Goto
<1>10. ASSUME NEW r \in Requests, Choose(r) PROVE Solitary(s)'
  BY <1>10 DEF Choose, Goto
<1>11. ASSUME NEW r \in Requests, Succeed(r) PROVE Solitary(s)'
  BY <1>11 DEF Succeed, Goto
<1>12. ASSUME NEW r \in Requests, Fail(r) PROVE Solitary(s)'
  <2>1. CASE retries[r] = MaxRetries
    BY <1>12, <2>1 DEF Fail, Goto
  <2>2. CASE retries[r] < MaxRetries
    <3>1. Begin(r, RetryKeyOf[r]) /\ Goto(r, "serving", "reading")
      BY <1>12, <2>2 DEF Fail
    <3>2. retries' = [retries EXCEPT ![r] = @ + 1] /\ retries'[r] # 0
      BY <1>12, <2>2 DEF Fail
    <3>3. Key(r)' = RetryKeyOf[r]
      BY <3>2
    <3>4. \A q \in Requests \ {r} : Key(q)' = Key(q) /\ pc'[q] = pc[q]
      BY <3>1, <3>2 DEF Goto
    <3>5. \A q \in Requests \ {r} : alone'[q] =>
            alone[q] /\ ~(pc[q] \in Selecting /\ RetryKeyOf[r] # None /\ Key(q) = RetryKeyOf[r])
      BY <3>1 DEF Begin
    <3>6. alone'[r] =>
            \A q \in Requests \ {r} : ~(pc[q] \in Selecting /\ RetryKeyOf[r] # None /\ Key(q) = RetryKeyOf[r])
      BY <3>1 DEF Begin
    <3>. QED BY <3>3, <3>4, <3>5, <3>6
  <2>. QED BY <1>12, <2>1, <2>2 DEF Fail
<1>13. ASSUME NEW a \in Accounts, Worsen(a) PROVE Solitary(s)'
  BY <1>13 DEF Worsen, Rows, With
<1>14. ASSUME NEW a \in Accounts, Improve(a) PROVE Solitary(s)'
  BY <1>14 DEF Improve, Rows, With
<1>15. ASSUME NEW k \in Keys, BindingExpires(k) PROVE Solitary(s)'
  BY <1>15 DEF BindingExpires
<1>16. CASE UNCHANGED vars
  BY <1>16 DEF vars, locals, history
<1>. QED BY <1>1, <1>2, <1>3, <1>4, <1>5, <1>6, <1>7, <1>8, <1>9, <1>10, <1>11, <1>12, <1>13, <1>14,
            <1>15, <1>16 DEF Next, Step

LEMMA AgreesStep ==
  ASSUME TypeOK, NEW k \in Keys, Agrees(k), [Next]_vars
  PROVE  Agrees(k)'
<1> USE DEF TypeOK, Agrees, Key, locals, history
<1>1. ASSUME NEW r \in Requests, Arrive(r) PROVE Agrees(k)'
  BY <1>1 DEF Arrive, Goto, Begin, With
<1>2. ASSUME NEW r \in Requests, FindAvailable(r) PROVE Agrees(k)'
  BY <1>2 DEF FindAvailable, Goto
<1>3. ASSUME NEW r \in Requests, AutoRecover(r) PROVE Agrees(k)'
  BY <1>3 DEF AutoRecover, Goto
<1>4. ASSUME NEW r \in Requests, ReadCooldowns(r) PROVE Agrees(k)'
  BY <1>4 DEF ReadCooldowns, Goto
<1>5. ASSUME NEW r \in Requests, WaitEnds(r) PROVE Agrees(k)'
  BY <1>5 DEF WaitEnds, Goto, Rows, With
<1>6. ASSUME NEW r \in Requests, MarkProviderHealthy(r) PROVE Agrees(k)'
  BY <1>6 DEF MarkProviderHealthy, Goto, Rows, With
<1>7. ASSUME NEW r \in Requests, Filter(r) PROVE Agrees(k)'
  BY <1>7 DEF Filter, Goto
<1>8. ASSUME NEW r \in Requests, ReadBinding(r) PROVE Agrees(k)'
  BY <1>8 DEF ReadBinding, Goto
<1>9. ASSUME NEW r \in Requests, Unbind(r) PROVE Agrees(k)'
  BY <1>9 DEF Unbind, Goto
<1>10. ASSUME NEW r \in Requests, Choose(r) PROVE Agrees(k)'
  BY <1>10 DEF Choose, Goto
<1>11. ASSUME NEW r \in Requests, Succeed(r) PROVE Agrees(k)'
  BY <1>11 DEF Succeed, Goto
<1>12. ASSUME NEW r \in Requests, Fail(r) PROVE Agrees(k)'
  BY <1>12 DEF Fail, Goto, Begin, With
<1>13. ASSUME NEW a \in Accounts, Worsen(a) PROVE Agrees(k)'
  BY <1>13 DEF Worsen, Rows, With
<1>14. ASSUME NEW a \in Accounts, Improve(a) PROVE Agrees(k)'
  BY <1>14 DEF Improve, Rows, With
<1>15. ASSUME NEW l \in Keys, BindingExpires(l) PROVE Agrees(k)'
  BY <1>15 DEF BindingExpires
<1>16. CASE UNCHANGED vars
  BY <1>16 DEF vars, locals, history
<1>. QED BY <1>1, <1>2, <1>3, <1>4, <1>5, <1>6, <1>7, <1>8, <1>9, <1>10, <1>11, <1>12, <1>13, <1>14,
            <1>15, <1>16 DEF Next, Step

LEMMA BoundStep ==
  ASSUME TypeOK, \A r \in Requests : Solitary(r) /\ BoundStage(r), \A k \in Keys : Agrees(k),
         NEW s \in Requests, [Next]_vars
  PROVE  BoundStage(s)'
<1> USE PoolAssumption, KeyType DEF TypeOK, BoundStage, Key, Selecting, locals, history
<1>1. ASSUME NEW r \in Requests, Arrive(r) PROVE BoundStage(s)'
  BY <1>1 DEF Arrive, Goto, Begin, With
<1>2. ASSUME NEW r \in Requests, FindAvailable(r) PROVE BoundStage(s)'
  BY <1>2 DEF FindAvailable, Goto
<1>3. ASSUME NEW r \in Requests, AutoRecover(r) PROVE BoundStage(s)'
  BY <1>3 DEF AutoRecover, Goto
<1>4. ASSUME NEW r \in Requests, ReadCooldowns(r) PROVE BoundStage(s)'
  BY <1>4 DEF ReadCooldowns, Goto
<1>5. ASSUME NEW r \in Requests, WaitEnds(r) PROVE BoundStage(s)'
  BY <1>5 DEF WaitEnds, Goto, Rows, With
<1>6. ASSUME NEW r \in Requests, MarkProviderHealthy(r) PROVE BoundStage(s)'
  BY <1>6 DEF MarkProviderHealthy, Goto, Rows, With
<1>7. ASSUME NEW r \in Requests, Filter(r) PROVE BoundStage(s)'
  BY <1>7 DEF Filter, Goto
<1>8. ASSUME NEW r \in Requests, ReadBinding(r) PROVE BoundStage(s)'
  BY <1>8 DEF ReadBinding, Goto, Solitary, Agrees
<1>9. ASSUME NEW r \in Requests, Unbind(r) PROVE BoundStage(s)'
  BY <1>9 DEF Unbind, Goto
<1>10. ASSUME NEW r \in Requests, Choose(r) PROVE BoundStage(s)'
  BY <1>10 DEF Choose, Goto, Solitary
<1>11. ASSUME NEW r \in Requests, Succeed(r) PROVE BoundStage(s)'
  BY <1>11 DEF Succeed, Goto
<1>12. ASSUME NEW r \in Requests, Fail(r) PROVE BoundStage(s)'
  BY <1>12 DEF Fail, Goto, Begin, With
<1>13. ASSUME NEW a \in Accounts, Worsen(a) PROVE BoundStage(s)'
  BY <1>13 DEF Worsen, Rows, With
<1>14. ASSUME NEW a \in Accounts, Improve(a) PROVE BoundStage(s)'
  BY <1>14 DEF Improve, Rows, With
<1>15. ASSUME NEW k \in Keys, BindingExpires(k) PROVE BoundStage(s)'
  BY <1>15 DEF BindingExpires
<1>16. CASE UNCHANGED vars
  BY <1>16 DEF vars, locals, history
<1>. QED BY <1>1, <1>2, <1>3, <1>4, <1>5, <1>6, <1>7, <1>8, <1>9, <1>10, <1>11, <1>12, <1>13, <1>14,
            <1>15, <1>16 DEF Next, Step

-----------------------------------------------------------------------------
(* The theorems.                                                           *)

IInv == TypeOK /\ Stages /\ Bindings

LEMMA IInvInit == Init => IInv
<1>. SUFFICES ASSUME Init PROVE IInv
  OBVIOUS
<1>1. TypeOK
  BY TypeInit
<1>2. Stages
  BY DEF Init, Stages, Sees, NearStage, AwayStage, Selecting, Chosen
<1>3. Bindings
  BY DEF Init, Bindings, Arriving, Solitary, BoundStage, Agrees, Selecting
<1>. QED BY <1>1, <1>2, <1>3 DEF IInv

LEMMA IInvStep == IInv /\ [Next]_vars => IInv'
<1>. SUFFICES ASSUME IInv, [Next]_vars PROVE IInv'
  OBVIOUS
<1>1. TypeOK /\ TypeOK'
  BY TypeStep DEF IInv
<1>2. Stages'
  <2>. SUFFICES ASSUME NEW s \in Requests
                PROVE  Sees(s)' /\ NearStage(s)' /\ AwayStage(s)'
    BY DEF Stages
  <2>1. \A r \in Requests : Sees(r) /\ NearStage(r) /\ AwayStage(r)
    BY DEF IInv, Stages
  <2>2. Sees(s)'
    BY <1>1, <2>1, SeesStep
  <2>3. NearStage(s)'
    BY <1>1, <2>1, NearStep
  <2>4. AwayStage(s)'
    BY <1>1, <2>1, AwayStep
  <2>. QED BY <2>2, <2>3, <2>4
<1>3. Bindings'
  <2>1. /\ \A r \in Requests : Arriving(r) /\ Solitary(r) /\ BoundStage(r)
        /\ \A k \in Keys : Agrees(k)
    BY DEF IInv, Bindings
  <2>2. ASSUME NEW s \in Requests PROVE Arriving(s)'
    BY <1>1, <2>1, ArrivingStep
  <2>3. ASSUME NEW s \in Requests PROVE Solitary(s)'
    BY <1>1, <2>1, SolitaryStep
  <2>4. ASSUME NEW s \in Requests PROVE BoundStage(s)'
    BY <1>1, <2>1, BoundStep
  <2>5. ASSUME NEW k \in Keys PROVE Agrees(k)'
    BY <1>1, <2>1, AgreesStep
  <2>. QED BY <2>2, <2>3, <2>4, <2>5 DEF Bindings
<1>. QED BY <1>1, <1>2, <1>3 DEF IInv

LEMMA Invariance == Spec => []IInv
BY IInvInit, IInvStep, PTL DEF Spec

\* The variables of the pool keep their types.
THEOREM TypeCorrect == Spec => []TypeOK
<1>1. IInv => TypeOK
  BY DEF IInv
<1>. QED BY <1>1, Invariance, PTL

\* Whatever happens to the rows between the awaits of selectProvider, the account
\* a request runs on was healthy, or about to be, at some time of its selection.
THEOREM GivenAvailable == Spec => []GivenWasAvailable
<1>1. IInv => GivenWasAvailable
  BY DEF IInv, Stages, NearStage, GivenWasAvailable
<1>. QED BY <1>1, Invariance, PTL

\* selectProvider returns null for cause: no account of the shard stayed
\* available all through the selection, or a strict binding stands in the way.
THEOREM RefusedOnlyForCause == Spec => []RefusedForCause
<1>1. IInv => RefusedForCause
  BY DEF IInv, Stages, AwayStage, RefusedForCause
<1>. QED BY <1>1, Invariance, PTL

\* The shard filter of selectProvider, with its fallback, over both of its reads
\* and the binding: a foreign account is served only while the shard's are away.
THEOREM ForeignOnlyThen == Spec => []ForeignOnlyWhenShardAway
<1>1. IInv => ForeignOnlyWhenShardAway
  BY DEF IInv, Stages, AwayStage, ForeignOnlyWhenShardAway
<1>. QED BY <1>1, Invariance, PTL

\* The next-state relation takes a request from choosing to serving by Choose only.
LEMMA OnlyChoose ==
  ASSUME TypeOK, [Next]_vars, NEW s \in Requests, pc[s] = "choosing", pc'[s] = "serving"
  PROVE  Choose(s)
<1> USE DEF TypeOK, Goto, locals, history
<1>1. ASSUME NEW r \in Requests, Arrive(r) PROVE Choose(s)
  BY <1>1 DEF Arrive
<1>2. ASSUME NEW r \in Requests, FindAvailable(r) PROVE Choose(s)
  BY <1>2 DEF FindAvailable
<1>3. ASSUME NEW r \in Requests, AutoRecover(r) PROVE Choose(s)
  BY <1>3 DEF AutoRecover
<1>4. ASSUME NEW r \in Requests, ReadCooldowns(r) PROVE Choose(s)
  BY <1>4 DEF ReadCooldowns
<1>5. ASSUME NEW r \in Requests, WaitEnds(r) PROVE Choose(s)
  BY <1>5 DEF WaitEnds
<1>6. ASSUME NEW r \in Requests, MarkProviderHealthy(r) PROVE Choose(s)
  BY <1>6 DEF MarkProviderHealthy
<1>7. ASSUME NEW r \in Requests, Filter(r) PROVE Choose(s)
  BY <1>7 DEF Filter
<1>8. ASSUME NEW r \in Requests, ReadBinding(r) PROVE Choose(s)
  BY <1>8 DEF ReadBinding
<1>9. ASSUME NEW r \in Requests, Unbind(r) PROVE Choose(s)
  BY <1>9 DEF Unbind
<1>10. ASSUME NEW r \in Requests, Choose(r) PROVE Choose(s)
  <2>1. pc' = [pc EXCEPT ![r] = "serving"]
    BY <1>10 DEF Choose
  <2>2. r = s
    BY <2>1
  <2>. QED BY <1>10, <2>2
<1>11. ASSUME NEW r \in Requests, Succeed(r) PROVE Choose(s)
  BY <1>11 DEF Succeed
<1>12. ASSUME NEW r \in Requests, Fail(r) PROVE Choose(s)
  BY <1>12 DEF Fail
<1>13. ASSUME NEW a \in Accounts, Worsen(a) PROVE Choose(s)
  BY <1>13 DEF Worsen
<1>14. ASSUME NEW a \in Accounts, Improve(a) PROVE Choose(s)
  BY <1>14 DEF Improve
<1>15. ASSUME NEW k \in Keys, BindingExpires(k) PROVE Choose(s)
  BY <1>15 DEF BindingExpires
<1>16. CASE UNCHANGED vars
  BY <1>16 DEF vars
<1>. QED BY <1>1, <1>2, <1>3, <1>4, <1>5, <1>6, <1>7, <1>8, <1>9, <1>10, <1>11, <1>12, <1>13, <1>14,
            <1>15, <1>16 DEF Next, Step

\* A session that one selection at a time uses stays on its account while that
\* one can be chosen, and for good when it is bound strictly.
THEOREM SessionMoves == Spec => SessionMovesForCause
<1>1. ASSUME IInv, [Next]_vars, NEW r \in Requests, pc[r] = "choosing", pc'[r] = "serving",
             Key(r) # None, alone[r]
      PROVE  last[Key(r)] \in {None, account'[r]} \/ last[Key(r)] \notin candidates[r] \cup Strict
  <2>1. TypeOK /\ Choose(r)
    BY <1>1, OnlyChoose DEF IInv
  <2>2. bound[r] = last[Key(r)] /\ (bound[r] \notin Strict \/ bound[r] \in candidates[r])
    BY <1>1 DEF IInv, Bindings, BoundStage
  <2>3. bound[r] \in candidates[r] => account'[r] = bound[r]
    BY <2>1 DEF Choose, TypeOK
  <2>. QED BY <2>2, <2>3
<1>2. IInv /\ [Next]_vars =>
        [\A r \in Requests :
           LET k == Key(r) IN
           pc[r] = "choosing" /\ pc'[r] = "serving" /\ k # None /\ alone[r] =>
             last[k] \in {None, account'[r]} \/ last[k] \notin candidates[r] \cup Strict]_vars
  BY <1>1
<1>. QED BY <1>2, Invariance, PTL DEF Spec, SessionMovesForCause

-----------------------------------------------------------------------------
(* No selection stops half-way, and none returns to the account that failed. *)

GoesOn(r) ==
  /\ pc[r] \in {"reviving", "waiting", "resetting"} => recovering[r] # {}
  /\ pc[r] \in {"binding", "unbinding"} => Key(r) # None
  /\ pc[r] \in {"binding", "unbinding", "choosing"} =>
       candidates[r] # {} /\ candidates[r] \cap Excluded(r) = {}

LEMMA GoesOnStep ==
  ASSUME TypeOK, \A r \in Requests : GoesOn(r), NEW s \in Requests, [Next]_vars
  PROVE  GoesOn(s)'
<1> USE DEF TypeOK, GoesOn, Key, Excluded, Selecting, locals, history
<1>1. ASSUME NEW r \in Requests, Arrive(r) PROVE GoesOn(s)'
  BY <1>1 DEF Arrive, Goto, Begin, With
<1>2. ASSUME NEW r \in Requests, FindAvailable(r) PROVE GoesOn(s)'
  BY <1>2 DEF FindAvailable, Goto
<1>3. ASSUME NEW r \in Requests, AutoRecover(r) PROVE GoesOn(s)'
  BY <1>3 DEF AutoRecover, Goto
<1>4. ASSUME NEW r \in Requests, ReadCooldowns(r) PROVE GoesOn(s)'
  BY <1>4 DEF ReadCooldowns, Goto
<1>5. ASSUME NEW r \in Requests, WaitEnds(r) PROVE GoesOn(s)'
  BY <1>5 DEF WaitEnds, Goto, Rows
<1>6. ASSUME NEW r \in Requests, MarkProviderHealthy(r) PROVE GoesOn(s)'
  BY <1>6 DEF MarkProviderHealthy, Goto, Rows
<1>7. ASSUME NEW r \in Requests, Filter(r) PROVE GoesOn(s)'
  BY <1>7 DEF Filter, Goto
<1>8. ASSUME NEW r \in Requests, ReadBinding(r) PROVE GoesOn(s)'
  BY <1>8 DEF ReadBinding, Goto
<1>9. ASSUME NEW r \in Requests, Unbind(r) PROVE GoesOn(s)'
  BY <1>9 DEF Unbind, Goto
<1>10. ASSUME NEW r \in Requests, Choose(r) PROVE GoesOn(s)'
  BY <1>10 DEF Choose, Goto
<1>11. ASSUME NEW r \in Requests, Succeed(r) PROVE GoesOn(s)'
  BY <1>11 DEF Succeed, Goto
<1>12. ASSUME NEW r \in Requests, Fail(r) PROVE GoesOn(s)'
  BY <1>12 DEF Fail, Goto, Begin, With
<1>13. ASSUME NEW a \in Accounts, Worsen(a) PROVE GoesOn(s)'
  BY <1>13 DEF Worsen, Rows
<1>14. ASSUME NEW a \in Accounts, Improve(a) PROVE GoesOn(s)'
  BY <1>14 DEF Improve, Rows
<1>15. ASSUME NEW k \in Keys, BindingExpires(k) PROVE GoesOn(s)'
  BY <1>15 DEF BindingExpires
<1>16. CASE UNCHANGED vars
  BY <1>16 DEF vars, locals, history
<1>. QED BY <1>1, <1>2, <1>3, <1>4, <1>5, <1>6, <1>7, <1>8, <1>9, <1>10, <1>11, <1>12, <1>13, <1>14,
            <1>15, <1>16 DEF Next, Step

LEMMA GoesOnAlways == Spec => []SelectionGoesOn
<1>1. Init => SelectionGoesOn
  BY DEF Init, SelectionGoesOn
<1>2. IInv /\ SelectionGoesOn /\ [Next]_vars => SelectionGoesOn'
  <2>. SUFFICES ASSUME TypeOK, SelectionGoesOn, [Next]_vars, NEW s \in Requests PROVE GoesOn(s)'
    BY DEF IInv, SelectionGoesOn, GoesOn
  <2>1. \A r \in Requests : GoesOn(r)
    BY DEF SelectionGoesOn, GoesOn
  <2>. QED BY <2>1, GoesOnStep
<1>. QED BY <1>1, <1>2, Invariance, PTL DEF Spec

\* Whatever the rows and bindings become between its awaits, selectProvider has
\* an account to wait for or to choose from wherever it relies on one.
THEOREM NoSelectionStops == Spec => []SelectionGoesOn
BY GoesOnAlways

\* The retry of handleStreamRequest never runs on the account that has just failed,
\* whatever the sticky binding names.
THEOREM RetriesMoveOn == Spec => RetryMovesOn
<1>1. ASSUME TypeOK, SelectionGoesOn, [Next]_vars, NEW r \in Requests,
             pc[r] = "choosing", pc'[r] = "serving", retries[r] > 0
      PROVE  account'[r] # account[r]
  <2>1. Choose(r)
    BY <1>1, OnlyChoose
  <2>2. account'[r] \in candidates[r]
    BY <1>1, <2>1 DEF Choose, TypeOK
  <2>3. candidates[r] \cap {account[r]} = {}
    BY <1>1 DEF SelectionGoesOn, Excluded, TypeOK
  <2>. QED BY <2>2, <2>3
<1>2. TypeOK /\ SelectionGoesOn /\ [Next]_vars =>
        [\A r \in Requests :
           pc[r] = "choosing" /\ pc'[r] = "serving" /\ retries[r] > 0
             => account'[r] # account[r]]_vars
  BY <1>1
<1>. QED BY <1>2, TypeCorrect, NoSelectionStops, PTL DEF Spec, RetryMovesOn

=============================================================================
