------------------------- MODULE ThreadLocksRefinement -------------------------
(***************************************************************************)
(* Proof that the step-by-step locking of ThreadLocks implements the       *)
(* all-or-nothing locks of DeviceLocks: thread_and_lock gives a new thread *)
(* all of its devices at the moment it claims a slot of the pool.          *)
(***************************************************************************)
EXTENDS ThreadLocksProofs

(* Thread t is the one device d belongs to. *)
Has(t, d) ==
  \/ \E c \in Callers : cpc[c] = "lock" /\ cthr[c] = t /\ d \in creq[c].devs
  \/ d \in Owned(t)

OwnerIsWhoHas ==
  \A d \in Devices :
    /\ \A t \in Threads : Has(t, d) => Owner(d) = t
    /\ (\A t \in Threads : ~Has(t, d)) => Owner(d) = NoThread

(* Owner chooses the only thread that has the device.                       *)
LEMMA OwnerUnique == ASSUME SingleCaller, IInv PROVE OwnerIsWhoHas
<1> SUFFICES ASSUME NEW d \in Devices
             PROVE  /\ \A t \in Threads : Has(t, d) => Owner(d) = t
                    /\ (\A t \in Threads : ~Has(t, d)) => Owner(d) = NoThread
  BY DEF OwnerIsWhoHas
<1> DEFINE claimed == {c \in Callers : cpc[c] = "lock" /\ d \in creq[c].devs}
           working == {t \in Threads : d \in Owned(t)}
<1>1. Owner(d) = IF claimed # {} THEN cthr[CHOOSE c \in claimed : TRUE]
                 ELSE IF working # {} THEN CHOOSE t \in working : TRUE ELSE NoThread
  BY DEF Owner
<1>2. \A c \in claimed : claimed = {c} /\ cthr[c] \in Threads
  BY DEF SingleCaller, IInv, PoolInv, CallerSlots
<1>3. ASSUME NEW c \in claimed, NEW t \in working PROVE FALSE
  <2>1. CASE d \in ctodo[c]
    BY <1>3, <2>1 DEF IInv, LockInv, CallerLocks, LockedIffOwned
  <2>2. CASE d \notin ctodo[c]
    BY <1>3, <2>2 DEF Held, IInv, LockInv, HeldNotOwned
  <2>3. QED
    BY <2>1, <2>2
<1>4. \A t \in working : working = {t}
  BY DEF IInv, LockInv, MutualExclusion
<1>5. \A t \in Threads : Has(t, d) <=> t \in working \/ \E c \in claimed : cthr[c] = t
  BY DEF Has
<1> HIDE DEF claimed, working
<1>6. ASSUME NEW t \in Threads, Has(t, d) PROVE Owner(d) = t
  <2>1. CASE t \in working
    BY <1>1, <1>3, <1>4, <2>1
  <2>2. CASE t \notin working
    <3>1. PICK c \in claimed : cthr[c] = t
      BY <1>5, <1>6, <2>2
    <3>2. QED
      BY <1>1, <1>2, <3>1
  <2>3. QED
    BY <2>1, <2>2
<1>7. ASSUME \A t \in Threads : ~Has(t, d) PROVE Owner(d) = NoThread
  <2>1. claimed = {} /\ working = {}
    <3>1. working \subseteq Threads
      BY DEF working
    <3>2. QED
      BY <1>2, <1>5, <1>7, <3>1
  <2>2. QED
    BY <1>1, <2>1
<1>8. QED
  BY <1>6, <1>7

LEMMA OwnerUniqueNext == ASSUME SingleCaller PROVE IInv' => OwnerIsWhoHas'
<1>1. IInv => OwnerIsWhoHas
  BY OwnerUnique
<1>2. QED
  BY <1>1, PTL

(* The locking steps that change who has a device, and those that do not.   *)
LEMMA ClaimHas ==
  ASSUME SingleCaller, IInv, NEW c \in Callers, ClaimSlot(c)
  PROVE  \E t \in Threads :
           /\ \A d \in Devices : ~Has(t, d)
           /\ \A d \in creq[c].devs, u \in Threads : ~Has(u, d)
           /\ \A d \in Devices, u \in Threads :
                Has(u, d)' <=> Has(u, d) \/ (u = t /\ d \in creq[c].devs)
<1>1. PICK t \in FreeThreads : cthr' = [cthr EXCEPT ![c] = t]
  BY DEF ClaimSlot, Claim
<1>2. /\ t \in Threads /\ Owned(t) = {}
      /\ \A k \in Callers : k = c /\ cpc[k] = "claim"
      /\ creq[c].devs \subseteq Devices
  BY DEF FreeThreads, Owned, SingleCaller, ClaimSlot, Claim, IInv, PoolInv, TypeOK, Request
<1>3. \A d \in Devices : ~Has(t, d)
  BY <1>2 DEF Has
<1>4. \A d \in creq[c].devs, u \in Threads : ~Has(u, d)
  BY <1>2 DEF Has, IInv, LockInv, CallerLocks, LockedIffOwned
<1>5. \A u \in Threads : Owned(u)' = Owned(u)
  BY DEF ClaimSlot, Claim, Owned, workVars
<1>6. cpc'[c] = "lock" /\ cthr'[c] = t /\ creq' = creq
  BY <1>1 DEF ClaimSlot, Claim, IInv, PoolInv, TypeOK
<1>7. \A d \in Devices, u \in Threads :
        Has(u, d)' <=> Has(u, d) \/ (u = t /\ d \in creq[c].devs)
  BY <1>2, <1>5, <1>6 DEF Has
<1>8. QED
  BY <1>2, <1>3, <1>4, <1>7

LEMMA UnlockHas ==
  ASSUME IInv, NEW t \in Threads, UnlockDevice(t)
  PROVE  \E e \in Devices :
           /\ Has(t, e)
           /\ \A d \in Devices, u \in Threads : Has(u, d)' <=> Has(u, d) /\ d # e
<1>1. PICK e \in Devices : e \in wtodo[t] /\ wtodo' = [wtodo EXCEPT ![t] = @ \ {e}]
  BY DEF UnlockDevice, IsFirst
<1>2. e \in Owned(t)
  BY <1>1 DEF Owned, UnlockDevice
<1>3. \A u \in Threads : Owned(u)' = IF u = t THEN Owned(t) \ {e} ELSE Owned(u)
  BY <1>1 DEF Owned, UnlockDevice, IInv, PoolInv, TypeOK
<1>4. \A u \in Threads : Owned(u)' = Owned(u) \ {e}
  BY <1>2, <1>3 DEF IInv, LockInv, MutualExclusion
<1>5. \A c \in Callers : cpc[c] = "lock" => e \notin creq[c].devs
  <2> SUFFICES ASSUME NEW c \in Callers, cpc[c] = "lock", e \in creq[c].devs PROVE FALSE
    OBVIOUS
  <2>1. CASE e \in ctodo[c]
    BY <1>2, <2>1 DEF IInv, LockInv, CallerLocks, LockedIffOwned
  <2>2. CASE e \notin ctodo[c]
    BY <1>2, <2>2 DEF Held, IInv, LockInv, HeldNotOwned
  <2>3. QED
    BY <2>1, <2>2
<1>6. UNCHANGED <<cpc, cthr, creq>>
  BY DEF UnlockDevice, callVars
<1>7. QED
  BY <1>1, <1>2, <1>4, <1>5, <1>6 DEF Has

LEMMA SpawnHas ==
  ASSUME SingleCaller, IInv, NEW c \in Callers, Spawn(c), NEW u \in Threads, NEW d \in Devices
  PROVE  Has(u, d)' <=> Has(u, d)
<1>1. /\ \A k \in Callers : k = c
      /\ cpc[c] = "lock" /\ cpc'[c] = "idle"
      /\ cthr[c] \in Threads /\ Owned(cthr[c]) = {}
  BY DEF SingleCaller, Spawn, Return, IInv, PoolInv, TypeOK, CallerSlots, Owned, Live
<1>2. Owned(u)' = IF u = cthr[c] THEN creq[c].devs ELSE Owned(u)
  BY <1>1 DEF Spawn, IInv, PoolInv, TypeOK, Owned
<1>3. QED
  BY <1>1, <1>2 DEF Has

(* Every other step leaves each device with the thread that has it.         *)
SameHas == \A u \in Threads, d \in Devices : Has(u, d)' <=> Has(u, d)

LEMMA OthersHas ==
  ASSUME SingleCaller, IInv, [Next]_vars
  PROVE  \/ \E c \in Callers : ClaimSlot(c)
         \/ \E t \in Threads : UnlockDevice(t)
         \/ SameHas
<1>1. ASSUME NEW c \in Callers, Spawn(c) PROVE SameHas
  BY <1>1, SpawnHas DEF SameHas
<1>2. ASSUME NEW c \in Callers, CheckDevice(c) \/ ScanPool(c) \/ LockDevice(c) PROVE SameHas
  <2>1. cpc[c] # "claim" /\ (cpc[c] # "lock" => cpc'[c] # "lock")
    BY <1>2 DEF CheckDevice, ScanPool, LockDevice, Return, IInv, PoolInv, TypeOK
  <2>2. (cpc[c] = "lock" => UNCHANGED <<cpc, cthr, creq>>) /\ UNCHANGED workVars
    BY <1>2 DEF CheckDevice, ScanPool, LockDevice
  <2>3. \A u \in Threads : Owned(u)' = Owned(u)
    BY <2>2 DEF Owned, workVars
  <2>4. \A k \in Callers : k = c
    BY DEF SingleCaller
  <2>5. QED
    BY <2>1, <2>2, <2>3, <2>4 DEF SameHas, Has
<1>3. ASSUME NEW c \in Callers, NEW r \in Requests, Call(c, r) PROVE SameHas
  BY <1>3 DEF SingleCaller, Call, SameHas, Has, Owned, workVars, IInv, PoolInv, TypeOK
<1>4. ASSUME NEW t \in Threads, TempUnlock(t) \/ Relock(t) \/ Finish(t) \/ SetDone(t)
      PROVE  SameHas
  <2>1. \A u \in Threads : Owned(u)' = Owned(u)
    BY <1>4 DEF TempUnlock, Relock, Finish, SetDone, Owned, IInv, PoolInv, TypeOK
  <2>2. UNCHANGED callVars
    BY <1>4 DEF TempUnlock, Relock, Finish, SetDone
  <2>3. QED
    BY <2>1, <2>2 DEF SameHas, Has, callVars
<1>5. ASSUME UNCHANGED <<callVars, workVars>> PROVE SameHas
  BY <1>5 DEF SameHas, Has, Owned, callVars, workVars
<1>6. QED
  BY <1>1, <1>2, <1>3, <1>4, <1>5
  DEF Next, ThreadAndLock, UnthreadAndUnlock, LoseDevice, ConnectSbc, CleanupThreads,
      AcceptXl3, CloseXl3, vars

(* Each step of the code is a step of the abstract locks, or changes none.  *)
LEMMA StepRefines ==
  ASSUME SingleCaller, IInv, IInv', [Next]_vars
  PROVE  [Abstract!Next]_[d \in Devices |-> Owner(d)]
<1>1. OwnerIsWhoHas /\ OwnerIsWhoHas'
  BY OwnerUnique, OwnerUniqueNext
<1>2. ASSUME NEW c \in Callers, ClaimSlot(c) PROVE Abstract!Next
  <2>1. PICK t \in Threads :
          /\ \A d \in Devices : ~Has(t, d)
          /\ \A d \in creq[c].devs, u \in Threads : ~Has(u, d)
          /\ \A d \in Devices, u \in Threads :
               Has(u, d)' <=> Has(u, d) \/ (u = t /\ d \in creq[c].devs)
    BY <1>2, ClaimHas
  <2>2. creq[c].devs \in SUBSET Devices
    BY DEF IInv, PoolInv, TypeOK, Request
  <2>3. \A d \in Devices : Owner(d) # t
    BY <1>1, <2>1, ConstantsOK DEF OwnerIsWhoHas
  <2>4. \A d \in creq[c].devs : Owner(d) = NoThread
    BY <1>1, <2>1, <2>2 DEF OwnerIsWhoHas
  <2>5. \A d \in Devices : Owner(d)' = IF d \in creq[c].devs THEN t ELSE Owner(d)
    BY <1>1, <2>1 DEF OwnerIsWhoHas
  <2>6. Abstract!Acquire(t, creq[c].devs)
    BY <2>2, <2>3, <2>4, <2>5 DEF Abstract!Acquire
  <2>7. QED
    BY <2>2, <2>6 DEF Abstract!Next
<1>3. ASSUME NEW t \in Threads, UnlockDevice(t) PROVE Abstract!Next
  <2>1. PICK e \in Devices :
          /\ Has(t, e)
          /\ \A d \in Devices, u \in Threads : Has(u, d)' <=> Has(u, d) /\ d # e
    BY <1>3, UnlockHas
  <2>2. Owner(e) # NoThread
    BY <1>1, <2>1, ConstantsOK DEF OwnerIsWhoHas
  <2>3. \A d \in Devices : Owner(d)' = IF d = e THEN NoThread ELSE Owner(d)
    BY <1>1, <2>1 DEF OwnerIsWhoHas
  <2>4. Abstract!Release(e)
    BY <2>2, <2>3 DEF Abstract!Release
  <2>5. QED
    BY <2>4 DEF Abstract!Next
<1>4. CASE SameHas
  <2>1. \A d \in Devices : Owner(d)' = Owner(d)
    BY <1>1, <1>4 DEF OwnerIsWhoHas, SameHas
  <2>2. QED
    BY <2>1
<1>5. QED
  BY <1>2, <1>3, <1>4, OthersHas

(* thread_and_lock and unthread_and_unlock, step by step, implement locks   *)
(* that a command takes all at once or not at all.                          *)
THEOREM RefinesDeviceLocks == SingleCaller => (SafeSpec => Abstract!SafeSpec)
<1> SUFFICES ASSUME SingleCaller PROVE SafeSpec => Abstract!SafeSpec
  OBVIOUS
<1>1. Init => Abstract!Init
  BY DEF Init, Abstract!Init, Owner, Owned
<1>2. IInv /\ IInv' /\ [Next]_vars => [Abstract!Next]_[d \in Devices |-> Owner(d)]
  BY StepRefines
<1>3. QED
  BY <1>1, <1>2, InductiveInvariant, PTL DEF SafeSpec, Abstract!SafeSpec
=============================================================================
