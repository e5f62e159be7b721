------------------------- MODULE SharedSlots_proofs -------------------------
(***************************************************************************)
(* Theorems about SharedSlots, for any number of workers and requests, any *)
(* limit and any TTL: until a fault the races of INCR, EXPIRE, DECR, DEL  *)
(* and the expiry of the key can only lose counts, never leave one behind. *)
(***************************************************************************)
EXTENDS SharedSlots, FiniteSetTheorems, TLAPS

\* A key at zero or below is about to be deleted: this is what makes the bound on
\* the count say something about the key once every request is over.
DelPending == present /\ count <= 0 => \E r \in Requests : pc[r] = "deleting"

FaultFreeInv ==
  /\ \A w \in Workers : connected[w]
  /\ count <= Cardinality(Charged)
  /\ DelPending
Inv == Undisturbed => FaultFreeInv

LEMMA InitTypeOK == Init => TypeOK
  BY SharedAssumption DEF Init, TypeOK, States, NoTtl, Absent, present

LEMMA NextTypeOK == TypeOK /\ [Next]_vars => TypeOK'
  <1> SUFFICES ASSUME TypeOK, [Next]_vars PROVE TypeOK' OBVIOUS
  <1> USE SharedAssumption DEF TypeOK, States, NoTtl, Absent, present, key, disruptions, Goto, Up, Fault, Tears
  <1>1. ASSUME NEW r \in Requests, Admit(r) PROVE TypeOK' BY <1>1 DEF Admit
  <1>2. ASSUME NEW r \in Requests, Increment(r) PROVE TypeOK'
    BY <1>2 DEF Increment, INCR, SetCount, CountInMemory
  <1>3. ASSUME NEW r \in Requests, SetExpiry(r) PROVE TypeOK'
    BY <1>3 DEF SetExpiry, EXPIRE, CountInMemory
  <1>4. ASSUME NEW r \in Requests, Decrement(r) PROVE TypeOK'
    <2>1. memory' \in [Workers -> Nat] BY <1>4 DEF Decrement, UncountInMemory
    <2> QED BY <1>4, <2>1 DEF Decrement, DECR, SetCount
  <1>5. ASSUME NEW r \in Requests, Delete(r) PROVE TypeOK'
    <2>1. memory' \in [Workers -> Nat] BY <1>5 DEF Delete, UncountInMemory
    <2> QED BY <1>5, <2>1 DEF Delete, DEL
  <1>6. ASSUME NEW w \in Workers, Crash(w) PROVE TypeOK' BY <1>6 DEF Crash
  <1>7. ASSUME NEW w \in Workers, Disconnect(w) PROVE TypeOK' BY <1>7 DEF Disconnect
  <1>8. ASSUME NEW w \in Workers, Reconnect(w) PROVE TypeOK' BY <1>8 DEF Reconnect
  <1>9. CASE Tick BY <1>9 DEF Tick, DEL
  <1>10. CASE RestartCluster BY <1>10 DEF RestartCluster, DEL
  <1>11. CASE UNCHANGED vars BY <1>11 DEF vars
  <1> QED BY <1>1, <1>2, <1>3, <1>4, <1>5, <1>6, <1>7, <1>8, <1>9, <1>10, <1>11 DEF Next, Work

\* Type correctness: in particular an absent key has no value.
THEOREM SharedTypeCorrect == Spec => []TypeOK
  BY InitTypeOK, NextTypeOK, PTL DEF Spec

-----------------------------------------------------------------------------
\* How a set of requests counts when one request enters or leaves it.
LEMMA CountChange ==
  ASSUME NEW S \in SUBSET Requests, NEW T \in SUBSET Requests,
         NEW r \in Requests, S \ {r} = T \ {r}
  PROVE  /\ Cardinality(S) \in Nat /\ Cardinality(T) \in Nat
         /\ r \notin S /\ r \in T => Cardinality(T) = Cardinality(S) + 1
         /\ r \in S /\ r \notin T => Cardinality(T) = Cardinality(S) - 1
         /\ (r \in S <=> r \in T) => Cardinality(T) = Cardinality(S)
  <1>1. IsFiniteSet(S) /\ IsFiniteSet(T) BY SharedAssumption, FS_Subset
  <1>2. Cardinality(S) \in Nat /\ Cardinality(T) \in Nat BY <1>1, FS_CardinalityType
  <1>3. ASSUME r \notin S, r \in T PROVE Cardinality(T) = Cardinality(S) + 1
    <2>1. T = S \cup {r} BY <1>3
    <2> QED BY <1>1, <1>3, <2>1, FS_AddElement
  <1>4. ASSUME r \in S, r \notin T PROVE Cardinality(T) = Cardinality(S) - 1
    <2>1. T = S \ {r} BY <1>4
    <2> QED BY <1>1, <1>4, <2>1, FS_RemoveElement
  <1>5. ASSUME r \in S <=> r \in T PROVE Cardinality(T) = Cardinality(S)
    <2>1. T = S BY <1>5
    <2> QED BY <2>1
  <1> QED BY <1>2, <1>3, <1>4, <1>5

\* How one step of a request changes the number of requests charged.
LEMMA ChargedChange ==
  ASSUME TypeOK, NEW r \in Requests, \A q \in Requests \ {r} : pc'[q] = pc[q]
  PROVE  /\ Cardinality(Charged) \in Nat /\ Cardinality(Charged') \in Nat
         /\ r \notin Charged /\ r \in Charged' => Cardinality(Charged') = Cardinality(Charged) + 1
         /\ r \in Charged /\ r \notin Charged' => Cardinality(Charged') = Cardinality(Charged) - 1
         /\ (r \in Charged <=> r \in Charged') => Cardinality(Charged') = Cardinality(Charged)
  <1>1. Charged \in SUBSET Requests /\ Charged' \in SUBSET Requests BY DEF Charged
  <1>2. Charged \ {r} = Charged' \ {r} BY DEF Charged
  <1> QED BY <1>1, <1>2, CountChange

\* ... and of requests between INCR and EXPIRE.
LEMMA ExpiringChange ==
  ASSUME TypeOK, NEW r \in Requests, \A q \in Requests \ {r} : pc'[q] = pc[q]
  PROVE  /\ Cardinality(Expiring) \in Nat /\ Cardinality(Expiring') \in Nat
         /\ r \notin Expiring /\ r \in Expiring' => Cardinality(Expiring') = Cardinality(Expiring) + 1
         /\ r \in Expiring /\ r \notin Expiring' => Cardinality(Expiring') = Cardinality(Expiring) - 1
         /\ (r \in Expiring <=> r \in Expiring') => Cardinality(Expiring') = Cardinality(Expiring)
  <1>1. Expiring \in SUBSET Requests /\ Expiring' \in SUBSET Requests BY DEF Expiring
  <1>2. Expiring \ {r} = Expiring' \ {r} BY DEF Expiring
  <1> QED BY <1>1, <1>2, CountChange

LEMMA NextFaultFree ==
  ASSUME TypeOK, Inv, [Next]_vars
  PROVE  Inv'
  <1> SUFFICES ASSUME Undisturbed' PROVE FaultFreeInv' BY DEF Inv
  <1>0. ASSUME faults' = faults /\ restarts' = restarts PROVE FaultFreeInv
    BY <1>0 DEF Inv, Undisturbed
  <1> USE SharedAssumption DEF TypeOK, FaultFreeInv, key, disruptions, present, Absent, NoTtl
  <1>1. ASSUME NEW r \in Requests, Admit(r) \/ Work(r) PROVE FaultFreeInv'
    <2>. FaultFreeInv
      BY <1>0, <1>1 DEF Admit, Work, Increment, SetExpiry, Decrement, Delete
    <2>0. Up(r) BY DEF Up
    <2>1. \A q \in Requests \ {r} : pc'[q] = pc[q]
      BY <1>1 DEF Admit, Work, Increment, SetExpiry, Decrement, Delete, Goto
    <2>2. Cardinality(Charged) \in Nat /\ Cardinality(Charged') \in Nat BY <2>1, ChargedChange
    <2>3. CASE Admit(r)
      <3>1. Cardinality(Charged') = Cardinality(Charged)
        BY <2>1, <2>3, ChargedChange DEF Charged, Admit, Goto
      <3> QED BY <2>3, <3>1 DEF Admit, Goto, DelPending
    <2>4. CASE Increment(r)
      <3>1. Cardinality(Charged') = Cardinality(Charged) + 1
        BY <2>0, <2>1, <2>4, ChargedChange DEF Charged, Increment, Goto
      <3>2. count' = count + 1 /\ connected' = connected BY <2>0, <2>4 DEF Increment, INCR, SetCount
      <3>3. DelPending'
        BY <2>0, <2>1, <2>4, <3>2 DEF DelPending, Increment, INCR, SetCount, Goto
      <3> QED BY <2>2, <3>1, <3>2, <3>3
    <2>5. CASE SetExpiry(r)
      <3>1. Cardinality(Charged') = Cardinality(Charged)
        BY <2>1, <2>5, ChargedChange DEF Charged, SetExpiry, Goto
      <3>2. count' = count /\ present' = present /\ connected' = connected
        BY <2>0, <2>5 DEF SetExpiry, EXPIRE
      <3>3. DelPending' BY <2>1, <2>5, <3>2 DEF DelPending, SetExpiry, Goto
      <3> QED BY <3>1, <3>2, <3>3
    <2>6. CASE Decrement(r)
      <3>1. Cardinality(Charged') = Cardinality(Charged) - 1
        BY <2>0, <2>1, <2>6, ChargedChange DEF Charged, Decrement, Goto
      <3>2. count' = count - 1 /\ connected' = connected BY <2>0, <2>6 DEF Decrement, DECR, SetCount
      <3>3. DelPending' BY <2>0, <2>6, <3>2 DEF DelPending, Decrement, Goto
      <3> QED BY <2>2, <3>1, <3>2, <3>3
    <2>7. CASE Delete(r)
      <3>1. count' = 0 /\ ~present' /\ connected' = connected BY <2>0, <2>7 DEF Delete, DEL
      <3> QED BY <2>2, <3>1 DEF DelPending
    <2> QED BY <1>1, <2>3, <2>4, <2>5, <2>6, <2>7 DEF Work
  <1>2. ASSUME FaultFreeInv, pc' = pc, connected' = connected,
               (count' = count /\ present' = present) \/ DEL
        PROVE  FaultFreeInv'
    <2>1. Charged' = Charged BY <1>2 DEF Charged
    <2>2. IsFiniteSet(Charged) BY FS_Subset DEF Charged
    <2>3. Cardinality(Charged) \in Nat BY <2>2, FS_CardinalityType
    <2> QED BY <1>2, <2>1, <2>3 DEF DelPending, DEL
  <1>3. CASE Tick BY <1>0, <1>2, <1>3 DEF Tick
  <1>4. CASE UNCHANGED vars BY <1>0, <1>2, <1>4 DEF vars
  <1>5. ASSUME NEW w \in Workers PROVE ~Crash(w) /\ ~Disconnect(w)
    BY DEF Crash, Disconnect, Fault, Undisturbed
  <1>6. ASSUME NEW w \in Workers PROVE ~Reconnect(w)
    BY <1>0 DEF Reconnect
  <1>7. ~RestartCluster BY DEF RestartCluster, Undisturbed
  <1> QED BY <1>1, <1>3, <1>4, <1>5, <1>6, <1>7 DEF Next

LEMMA InvAlways == Spec => [](TypeOK /\ Inv)
  <1>1. Init => TypeOK /\ Inv
    <2> SUFFICES ASSUME Init PROVE FaultFreeInv BY InitTypeOK DEF Inv
    <2>1. Charged = {} BY DEF Init, Charged
    <2> QED BY <2>1, FS_EmptySet DEF Init, FaultFreeInv, DelPending, present
  <1>2. TypeOK /\ Inv /\ [Next]_vars => (TypeOK /\ Inv)'
    BY NextTypeOK, NextFaultFree
  <1> QED BY <1>1, <1>2, PTL DEF Spec

\* As long as nothing has failed, the shared counter never shows more than the
\* requests in flight.
THEOREM SharedNeverOvercounts == Spec => []NeverOvercounts
  <1>1. TypeOK /\ Inv => NeverOvercounts BY DEF Inv, FaultFreeInv, NeverOvercounts
  <1> QED BY <1>1, InvAlways, PTL

\* As long as nothing has failed, the key is gone whenever no request is in flight.
THEOREM SharedKeyGoneWhenIdle == Spec => []KeyGoneWhenIdle
  <1>1. TypeOK /\ Inv => KeyGoneWhenIdle
    <2> SUFFICES ASSUME TypeOK, FaultFreeInv, \A r \in Requests : pc[r] \in {"idle", "charging"}
                 PROVE  ~present
      BY DEF KeyGoneWhenIdle, Inv
    <2>1. Charged = {} BY DEF Charged
    <2>2. count <= 0 BY <2>1, FS_EmptySet DEF FaultFreeInv
    <2> QED BY <2>2 DEF FaultFreeInv, DelPending
  <1> QED BY <1>1, InvAlways, PTL

-----------------------------------------------------------------------------
(* Keys that do not expire, whatever fails.                                *)

\* Unless a fault struck between INCR and EXPIRE, the workers of the requests
\* between the two are connected, so the EXPIRE will reach the key.
WillExpire == torn = 0 => \A r \in Expiring : Up(r)

LEMMA WillExpireStep ==
  ASSUME TypeOK, WillExpire, [Next]_vars
  PROVE  WillExpire'
  <1> USE SharedAssumption DEF TypeOK, WillExpire, Expiring, Up, disruptions, Goto
  <1>1. ASSUME NEW r \in Requests, Admit(r) \/ Work(r) PROVE WillExpire'
    BY <1>1 DEF Admit, Work, Increment, SetExpiry, Decrement, Delete
  <1>2. ASSUME NEW w \in Workers, Crash(w) PROVE WillExpire'
    BY <1>2 DEF Crash, Fault, Tears
  <1>3. ASSUME NEW w \in Workers, Disconnect(w) PROVE WillExpire'
    <2>1. torn' = torn + 1 \/ \A r \in Requests : pc[r] = "expiring" => WorkerOf[r] # w
      BY <1>3 DEF Disconnect, Fault, Tears, MidCharge
    <2> QED BY <1>3, <2>1 DEF Disconnect, Fault, Tears
  <1>4. ASSUME NEW w \in Workers, Reconnect(w) PROVE WillExpire'
    BY <1>4 DEF Reconnect
  <1>5. CASE Tick BY <1>5 DEF Tick
  <1>6. CASE RestartCluster BY <1>6 DEF RestartCluster
  <1>7. CASE UNCHANGED vars BY <1>7 DEF vars
  <1> QED BY <1>1, <1>2, <1>3, <1>4, <1>5, <1>6, <1>7 DEF Next

LEMMA ExpiryStep ==
  ASSUME TypeOK, WillExpire, ExpiryInHand, [Next]_vars
  PROVE  ExpiryInHand'
  <1> SUFFICES ASSUME ttl' = NoTtl, torn' = 0 PROVE count' <= Cardinality(Expiring')
    BY DEF ExpiryInHand
  <1> USE SharedAssumption DEF TypeOK, key, disruptions, present, Absent, NoTtl
  <1>1. torn = 0
    BY DEF Next, Admit, Work, Increment, SetExpiry, Decrement, Delete, Crash, Disconnect,
           Fault, Tears, Reconnect, Tick, RestartCluster, vars
  <1>2. Cardinality(Expiring) \in Nat
    <2>1. IsFiniteSet(Expiring) BY FS_Subset DEF Expiring
    <2> QED BY <2>1, FS_CardinalityType
  <1>3. ~present => count <= Cardinality(Expiring) BY <1>2
  <1>4. ttl = NoTtl => count <= Cardinality(Expiring) BY <1>1 DEF ExpiryInHand
  <1>5. ASSUME NEW r \in Requests, Admit(r) \/ Work(r) PROVE count' <= Cardinality(Expiring')
    <2>1. \A q \in Requests \ {r} : pc'[q] = pc[q]
      BY <1>5 DEF Admit, Work, Increment, SetExpiry, Decrement, Delete, Goto
    <2>2. Cardinality(Expiring') \in Nat BY <2>1, ExpiringChange
    <2>3. CASE Admit(r)
      <3>1. Cardinality(Expiring') = Cardinality(Expiring)
        BY <2>1, <2>3, ExpiringChange DEF Expiring, Admit, Goto
      <3> QED BY <1>4, <2>3, <3>1 DEF Admit
    <2>4. CASE Increment(r)
      <3>1. CASE Up(r)
        <4>1. Cardinality(Expiring') = Cardinality(Expiring) + 1
          BY <2>1, <2>4, <3>1, ExpiringChange DEF Expiring, Increment, Goto
        <4> QED BY <1>2, <1>3, <1>4, <2>4, <3>1, <4>1 DEF Increment, INCR, SetCount
      <3>2. CASE ~Up(r)
        <4>1. Cardinality(Expiring') = Cardinality(Expiring)
          BY <2>1, <2>4, <3>2, ExpiringChange DEF Expiring, Increment, Goto
        <4> QED BY <1>4, <2>4, <3>2, <4>1 DEF Increment
      <3> QED BY <3>1, <3>2
    <2>5. ~SetExpiry(r)
      <3>1. ASSUME SetExpiry(r) PROVE Up(r)
        BY <1>1, <3>1 DEF WillExpire, Expiring, SetExpiry, Goto
      <3> QED BY <3>1 DEF SetExpiry, EXPIRE
    <2>6. CASE Decrement(r)
      <3>1. Cardinality(Expiring') = Cardinality(Expiring)
        BY <2>1, <2>6, ExpiringChange DEF Expiring, Decrement, Goto
      <3> QED BY <1>2, <1>3, <1>4, <2>6, <3>1 DEF Decrement, DECR, SetCount
    <2>7. CASE Delete(r)
      <3>1. Cardinality(Expiring') = Cardinality(Expiring)
        BY <2>1, <2>7, ExpiringChange DEF Expiring, Delete, Goto
      <3> QED BY <1>4, <2>7, <3>1 DEF Delete, DEL
    <2> QED BY <1>5, <2>3, <2>4, <2>5, <2>6, <2>7 DEF Work
  <1>6. ASSUME NEW w \in Workers, Crash(w) PROVE count' <= Cardinality(Expiring')
    <2>1. ~MidCharge(w) BY <1>1, <1>6 DEF Crash, Fault, Tears
    <2>2. Expiring' = Expiring BY <1>6, <2>1 DEF Crash, MidCharge, Expiring
    <2> QED BY <1>4, <1>6, <2>2 DEF Crash
  <1>7. ASSUME Expiring' = Expiring, UNCHANGED key \/ DEL \/ Tick
        PROVE  count' <= Cardinality(Expiring')
    BY <1>4, <1>7 DEF DEL, Tick
  <1>8. ASSUME NEW w \in Workers, Disconnect(w) \/ Reconnect(w)
        PROVE  Expiring' = Expiring /\ UNCHANGED key
    BY <1>8 DEF Disconnect, Reconnect, Expiring
  <1>9. CASE Tick
    <2>1. Expiring' = Expiring BY <1>9 DEF Tick, Expiring
    <2> QED BY <1>7, <1>9, <2>1
  <1>10. CASE RestartCluster
    <2>1. \A w \in Workers : ~MidCharge(w) BY <1>1, <1>10 DEF RestartCluster, Tears
    <2>2. Expiring' = Expiring BY <1>10, <2>1 DEF RestartCluster, MidCharge, Expiring
    <2> QED BY <1>7, <1>10, <2>2 DEF RestartCluster
  <1>11. CASE UNCHANGED vars
    <2>1. Expiring' = Expiring /\ UNCHANGED key BY <1>11 DEF vars, Expiring
    <2> QED BY <1>7, <2>1
  <1> QED BY <1>5, <1>6, <1>7, <1>8, <1>9, <1>10, <1>11 DEF Next

\* Whatever fails, and however often the key lapses and returns: a key that does not
\* expire counts requests about to set its TTL, unless a fault struck between INCR
\* and EXPIRE.  The safety half of FullAccountComesBack.
THEOREM SharedExpiryInHand == Spec => []ExpiryInHand
  <1>1. Init => WillExpire /\ ExpiryInHand
    BY DEF Init, WillExpire, Expiring, ExpiryInHand, NoTtl, Absent
  <1> QED BY <1>1, WillExpireStep, ExpiryStep, SharedTypeCorrect, PTL DEF Spec
=============================================================================
