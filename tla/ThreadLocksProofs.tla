--------------------------- MODULE ThreadLocksProofs ---------------------------
(***************************************************************************)
(* Proofs about ThreadLocks: the thread pool and the device locks are      *)
(* sound for any number of crates, slots and threads, although no mutex    *)
(* protects them, as long as a single thread runs thread_and_lock.         *)
(***************************************************************************)
EXTENDS ThreadLocks, TLAPS

(* The daemon without a final test or an ECAL: only the main loop issues    *)
(* commands.                                                                *)
SingleCaller == Callers = {Main}

(* What the proofs need of the callers: only one of them at a time is       *)
(* inside thread_and_lock.                                                  *)
OneInside == \A c, k \in Callers : cpc[c] # "idle" /\ cpc[k] # "idle" => c = k

LEMMA InitTypeOK == Init => TypeOK
  BY ConstantsOK DEF Init, TypeOK, Request, Other, NoRequest, Devices, Slots, Results

LEMMA LocalTypes == NoRequest \in Request /\ 0 \in Slots /\ Requests \subseteq Request
  BY ConstantsOK DEF NoRequest, Other, Request, Slots

(* thread_and_lock's return leaves the caller's locals well typed. *)
LEMMA ReturnType ==
  ASSUME TypeOK, NEW c \in Callers, NEW code \in Results, Return(c, code)
  PROVE  /\ cpc' \in [Callers -> {"idle", "check", "claim", "lock"}]
         /\ creq' \in [Callers -> Request]
         /\ ctodo' \in [Callers -> SUBSET Devices]
         /\ cslot' \in [Callers -> Slots]
         /\ cthr' \in [Callers -> Threads \cup {NoThread}]
         /\ result' \in [Callers -> Results]
  BY LocalTypes DEF TypeOK, Return

LEMMA CallTypeOK ==
  ASSUME TypeOK, NEW c \in Callers, NEW r \in Request, Call(c, r)
  PROVE  TypeOK'
  BY DEF TypeOK, Call, Request, workVars, poolVars

LEMMA ClaimTypeOK ==
  ASSUME TypeOK, NEW c \in Callers, NEW cells \in SUBSET Threads, Claim(c, cells)
  PROVE  TypeOK'
  BY DEF TypeOK, Claim, Request, workVars

LEMMA FreeAreThreads == FreeThreads \in SUBSET Threads
  BY DEF FreeThreads

LEMMA StepTypeOK == TypeOK /\ [Next]_vars => TypeOK'
<1> SUFFICES ASSUME TypeOK, [Next]_vars PROVE TypeOK'
  OBVIOUS
<1> USE LocalTypes
<1>1. ASSUME NEW c \in Callers, NEW r \in Requests, Call(c, r) PROVE TypeOK'
  BY <1>1, CallTypeOK
<1>2. ASSUME NEW c \in Callers, CheckDevice(c) PROVE TypeOK'
  <2> PICK d \in Devices :
        \/ \E code \in Results : Return(c, code)
        \/ /\ ctodo' = [ctodo EXCEPT ![c] = @ \ {d}]
           /\ UNCHANGED <<cpc, creq, cslot, cthr, result>>
    BY <1>2 DEF CheckDevice, Results
  <2>1. UNCHANGED <<workVars, poolVars, lock, up>>
    BY <1>2 DEF CheckDevice
  <2>2. CASE \E code \in Results : Return(c, code)
    BY <2>1, <2>2, ReturnType DEF TypeOK, workVars, poolVars
  <2>3. CASE /\ ctodo' = [ctodo EXCEPT ![c] = @ \ {d}]
             /\ UNCHANGED <<cpc, creq, cslot, cthr, result>>
    BY <2>1, <2>3 DEF TypeOK, workVars, poolVars
  <2>4. QED
    BY <2>2, <2>3
<1>3. ASSUME NEW c \in Callers, ScanPool(c) PROVE TypeOK'
  <2>1. CASE Return(c, -4)
    <3>1. -4 \in Results
      BY DEF Results
    <3>2. QED
      BY <1>3, <2>1, <3>1, ReturnType DEF TypeOK, ScanPool, workVars, poolVars
  <2>2. CASE ~Return(c, -4)
    BY <1>3, <2>2 DEF TypeOK, ScanPool, workVars, poolVars
  <2>3. QED
    BY <2>1, <2>2
<1>4. ASSUME NEW c \in Callers, ClaimSlot(c) PROVE TypeOK'
  BY <1>4, ClaimTypeOK, FreeAreThreads DEF ClaimSlot
<1>5. ASSUME NEW c \in Callers, LockDevice(c) PROVE TypeOK'
  BY <1>5 DEF TypeOK, LockDevice, workVars, poolVars
<1>6. ASSUME NEW c \in Callers, Spawn(c) PROVE TypeOK'
  <2>1. 0 \in Results
    BY DEF Results
  <2>2. Return(c, 0)
    BY <1>6 DEF Spawn
  <2>3. MaxYields \in 0 .. MaxYields
    BY ConstantsOK
  <2>4. QED
    BY <1>6, <2>1, <2>2, <2>3, ReturnType DEF TypeOK, Spawn, poolVars
<1>7. ASSUME NEW t \in Threads, NEW d \in Devices, LoseDevice(t, d) PROVE TypeOK'
  BY <1>7 DEF TypeOK, LoseDevice, callVars, workVars, poolVars
<1>8. ASSUME NEW t \in Threads, ConnectSbc(t) PROVE TypeOK'
  BY <1>8 DEF TypeOK, ConnectSbc, callVars, workVars, poolVars
<1>9. ASSUME NEW t \in Threads, TempUnlock(t) PROVE TypeOK'
  BY <1>9, ConstantsOK DEF TypeOK, TempUnlock, SetXl3Locks, callVars, poolVars
<1>10. ASSUME NEW t \in Threads, Relock(t) PROVE TypeOK'
  BY <1>10 DEF TypeOK, Relock, SetXl3Locks, callVars, poolVars
<1>11. ASSUME NEW t \in Threads, Finish(t) PROVE TypeOK'
  BY <1>11 DEF TypeOK, Finish, Request, callVars, poolVars
<1>12. ASSUME NEW t \in Threads, UnlockDevice(t) PROVE TypeOK'
  BY <1>12 DEF TypeOK, UnlockDevice, callVars, poolVars
<1>13. ASSUME NEW t \in Threads, SetDone(t) PROVE TypeOK'
  BY <1>13, ConstantsOK DEF TypeOK, SetDone, callVars
<1>14. ASSUME CleanupThreads PROVE TypeOK'
  BY <1>14 DEF TypeOK, CleanupThreads, callVars, workVars
<1>15. ASSUME NEW d \in Devices, AcceptXl3(d) PROVE TypeOK'
  BY <1>15 DEF TypeOK, AcceptXl3, callVars, workVars, poolVars
<1>16. ASSUME NEW d \in Devices, CloseXl3(d) PROVE TypeOK'
  BY <1>16 DEF TypeOK, CloseXl3, callVars, workVars, poolVars
<1>17. CASE UNCHANGED vars
  BY <1>17 DEF TypeOK, vars, callVars, workVars, poolVars
<1>18. QED
  BY <1>1, <1>2, <1>3, <1>4, <1>5, <1>6, <1>7, <1>8, <1>9, <1>10, <1>11, <1>12,
     <1>13, <1>14, <1>15, <1>16, <1>17
  DEF Next, ThreadAndLock, UnthreadAndUnlock

(* Every variable keeps its type, whoever calls thread_and_lock.            *)
THEOREM TypeCorrect == SafeSpec => []TypeOK
<1>1. QED
  BY InitTypeOK, StepTypeOK, PTL DEF SafeSpec

-----------------------------------------------------------------------------
(* The pool.  One lemma per action, one step per conjunct.                  *)

LEMMA InvCall ==
  ASSUME PoolInv, TypeOK', NEW c \in Callers, NEW r \in Request, Call(c, r)
  PROVE  PoolInv'
<1>1. CallerSlots'
  BY DEF PoolInv, CallerSlots, TypeOK, workVars, poolVars, Live, Call
<1>2. SlotAccounting'
  BY DEF PoolInv, SlotAccounting, TypeOK, workVars, poolVars, Live, Call
<1>3. QED
  BY <1>1, <1>2 DEF PoolInv

(* While it checks and scans, a caller holds nothing, and the other callers  *)
(* are left alone.                                                          *)
LEMMA NothingHeld ==
  ASSUME TypeOK, NEW c \in Callers, CheckDevice(c) \/ ScanPool(c)
  PROVE  \A k \in Callers : /\ cpc'[k] = "lock" <=> cpc[k] = "lock"
                            /\ cpc[k] = "lock" => cslot'[k] = cslot[k]
                            /\ Held(k)' = Held(k)
<1> TAKE k \in Callers
<1>1. /\ cpc'[k] = "lock" <=> cpc[k] = "lock"
      /\ cpc[k] = "lock" => /\ cslot'[k] = cslot[k]
                            /\ creq'[k] = creq[k] /\ ctodo'[k] = ctodo[k]
  <2>1. CASE CheckDevice(c)
    <3>1. PICK d \in Devices :
            \/ \E code \in Results : Return(c, code)
            \/ /\ ctodo' = [ctodo EXCEPT ![c] = @ \ {d}]
               /\ UNCHANGED <<cpc, creq, cslot>>
      BY <2>1 DEF CheckDevice, Results
    <3>2. QED
      BY <2>1, <3>1 DEF TypeOK, CheckDevice, Return
  <2>2. CASE ScanPool(c)
    BY <2>2 DEF TypeOK, ScanPool, Return
  <2>3. QED
    BY <2>1, <2>2
<1>2. QED
  BY <1>1 DEF Held

LEMMA InvCheckDevice ==
  ASSUME PoolInv, TypeOK', NEW c \in Callers, CheckDevice(c)
  PROVE  PoolInv'
<1>1. CallerSlots'
  BY DEF PoolInv, CallerSlots, TypeOK, workVars, poolVars, Live, Return,
         CheckDevice
<1>2. SlotAccounting'
  <2>1. UNCHANGED <<thread_pool, thread_done, wpc, wslot>>
    BY DEF CheckDevice, workVars, poolVars
  <2>2. QED
    BY <2>1, NothingHeld DEF PoolInv, SlotAccounting, Live
<1>3. QED
  BY <1>1, <1>2 DEF PoolInv

LEMMA InvScanPool ==
  ASSUME PoolInv, TypeOK', NEW c \in Callers, ScanPool(c)
  PROVE  PoolInv'
<1>1. CallerSlots'
  BY DEF PoolInv, CallerSlots, TypeOK, workVars, poolVars, Live, FreeSlots,
         IsFirst, Return, ScanPool
<1>2. SlotAccounting'
  <2>1. UNCHANGED <<thread_pool, thread_done, wpc, wslot>>
    BY DEF ScanPool, workVars, poolVars
  <2>2. QED
    BY <2>1, NothingHeld DEF PoolInv, SlotAccounting, Live
<1>3. QED
  BY <1>1, <1>2 DEF PoolInv

LEMMA InvClaimSlot ==
  ASSUME OneInside, PoolInv, TypeOK', NEW c \in Callers, ClaimSlot(c)
  PROVE  PoolInv'
<1>1. CallerSlots'
  BY DEF PoolInv, CallerSlots, OneInside, TypeOK, workVars, SlotAccounting,
         Live, FreeThreads, ClaimSlot, Claim
<1>2. SlotAccounting'
  BY DEF PoolInv, SlotAccounting, TypeOK, workVars, CallerSlots, Live,
         FreeThreads, ClaimSlot, Claim
<1>3. QED
  BY <1>1, <1>2 DEF PoolInv

LEMMA InvLockDevice ==
  ASSUME OneInside, PoolInv, TypeOK', NEW c \in Callers, LockDevice(c)
  PROVE  PoolInv'
<1>1. CallerSlots'
  BY DEF PoolInv, CallerSlots, TypeOK, workVars, poolVars, Live, LockDevice
<1>2. SlotAccounting'
  BY DEF PoolInv, SlotAccounting, workVars, poolVars, Live, LockDevice
<1>3. QED
  BY <1>1, <1>2 DEF PoolInv

LEMMA InvSpawn ==
  ASSUME OneInside, PoolInv, TypeOK', NEW c \in Callers, Spawn(c)
  PROVE  PoolInv'
<1>1. CallerSlots'
  BY DEF PoolInv, CallerSlots, OneInside, TypeOK, Live, Return, Spawn
<1>2. SlotAccounting'
  BY DEF PoolInv, SlotAccounting, TypeOK, poolVars, CallerSlots, Live, Return,
         Spawn
<1>3. QED
  BY <1>1, <1>2 DEF PoolInv

LEMMA InvTempUnlock ==
  ASSUME PoolInv, TypeOK', NEW t \in Threads, TempUnlock(t)
  PROVE  PoolInv'
<1>1. CallerSlots'
  BY DEF PoolInv, CallerSlots, TypeOK, callVars, poolVars, Live, TempUnlock
<1>2. SlotAccounting'
  BY DEF PoolInv, SlotAccounting, callVars, poolVars, Live, TempUnlock
<1>3. QED
  BY <1>1, <1>2 DEF PoolInv

LEMMA InvRelock ==
  ASSUME PoolInv, TypeOK', NEW t \in Threads, Relock(t)
  PROVE  PoolInv'
<1>1. CallerSlots'
  BY DEF PoolInv, CallerSlots, TypeOK, callVars, poolVars, Live, Relock
<1>2. SlotAccounting'
  BY DEF PoolInv, SlotAccounting, callVars, poolVars, Live, Relock
<1>3. QED
  BY <1>1, <1>2 DEF PoolInv

LEMMA InvFinish ==
  ASSUME PoolInv, TypeOK', NEW t \in Threads, Finish(t)
  PROVE  PoolInv'
<1>1. CallerSlots'
  BY DEF PoolInv, CallerSlots, callVars, poolVars, Live, Finish
<1>2. SlotAccounting'
  BY DEF PoolInv, SlotAccounting, callVars, poolVars, Live, Finish
<1>3. QED
  BY <1>1, <1>2 DEF PoolInv

LEMMA InvUnlockDevice ==
  ASSUME PoolInv, TypeOK', NEW t \in Threads, UnlockDevice(t)
  PROVE  PoolInv'
<1>1. CallerSlots'
  BY DEF PoolInv, CallerSlots, callVars, poolVars, Live, UnlockDevice
<1>2. SlotAccounting'
  BY DEF PoolInv, SlotAccounting, callVars, poolVars, Live, UnlockDevice
<1>3. QED
  BY <1>1, <1>2 DEF PoolInv

LEMMA InvSetDone ==
  ASSUME PoolInv, TypeOK', NEW t \in Threads, SetDone(t)
  PROVE  PoolInv'
<1>1. CallerSlots'
  BY DEF PoolInv, CallerSlots, TypeOK, callVars, SlotAccounting, Live, SetDone
<1>2. SlotAccounting'
  BY DEF PoolInv, SlotAccounting, TypeOK, callVars, Live, SetDone
<1>3. QED
  BY <1>1, <1>2 DEF PoolInv

LEMMA InvCleanupThreads ==
  ASSUME PoolInv, TypeOK', CleanupThreads
  PROVE  PoolInv'
<1>1. CallerSlots'
  BY DEF PoolInv, CallerSlots, TypeOK, callVars, workVars, Live, CleanupThreads
<1>2. SlotAccounting'
  BY DEF PoolInv, SlotAccounting, TypeOK, callVars, workVars, CallerSlots, Live,
         CleanupThreads
<1>3. QED
  BY <1>1, <1>2 DEF PoolInv

(* The remaining steps change no variable but up, which only TypeOK         *)
(* mentions.                                                                *)
LEMMA InvUp ==
  ASSUME PoolInv, TypeOK', UNCHANGED <<thread_pool, thread_done, lock, callVars, workVars>>
  PROVE  PoolInv'
<1>1. CallerSlots'
  BY DEF PoolInv, CallerSlots, Live, callVars, workVars
<1>2. SlotAccounting'
  BY DEF PoolInv, SlotAccounting, Live, callVars, workVars
<1>3. QED
  BY <1>1, <1>2 DEF PoolInv

-----------------------------------------------------------------------------
(* The same for the locks.  Of the pool these need only that a slot that a  *)
(* caller has claimed is that of a thread still to be created.              *)
NewThreads == \A c \in Callers : cpc[c] = "lock" => cthr[c] \in Threads /\ ~Live(cthr[c])

LEMMA LocksCall ==
  ASSUME TypeOK, LockInv, NEW c \in Callers, NEW r \in Request, Call(c, r)
  PROVE  LockInv'
<1>1. MutualExclusion'
  BY DEF LockInv, MutualExclusion, workVars, Owned, Call
<1>2. LockedIffOwned'
  BY DEF LockInv, LockedIffOwned, TypeOK, workVars, Owned, Held,
         Call
<1>3. CallerLocks'
  BY DEF LockInv, CallerLocks, TypeOK, Call
<1>4. HeldNotOwned'
  BY DEF LockInv, HeldNotOwned, TypeOK, workVars, Owned, Held, Call
<1>5. QED
  BY <1>1, <1>2, <1>3, <1>4 DEF LockInv

LEMMA LocksCheckDevice ==
  ASSUME TypeOK, LockInv, NEW c \in Callers, CheckDevice(c)
  PROVE  LockInv'
<1>1. MutualExclusion'
  BY DEF LockInv, MutualExclusion, workVars, Owned, Return, CheckDevice
<1>2. LockedIffOwned'
  <2>1. UNCHANGED <<lock, workVars>>
    BY DEF CheckDevice
  <2>2. QED
    BY <2>1, NothingHeld DEF LockInv, LockedIffOwned, workVars, Owned
<1>3. CallerLocks'
  BY DEF LockInv, CallerLocks, TypeOK, IsFirst, Return, CheckDevice
<1>4. HeldNotOwned'
  <2>1. UNCHANGED workVars
    BY DEF CheckDevice
  <2>2. QED
    BY <2>1, NothingHeld DEF LockInv, HeldNotOwned, workVars, Owned
<1>5. QED
  BY <1>1, <1>2, <1>3, <1>4 DEF LockInv

LEMMA LocksScanPool ==
  ASSUME TypeOK, LockInv, NEW c \in Callers, ScanPool(c)
  PROVE  LockInv'
<1>1. MutualExclusion'
  BY DEF LockInv, MutualExclusion, workVars, Owned, Return, ScanPool
<1>2. LockedIffOwned'
  <2>1. UNCHANGED <<lock, workVars>>
    BY DEF ScanPool
  <2>2. QED
    BY <2>1, NothingHeld DEF LockInv, LockedIffOwned, workVars, Owned
<1>3. CallerLocks'
  BY DEF LockInv, CallerLocks, TypeOK, Return, ScanPool
<1>4. HeldNotOwned'
  <2>1. UNCHANGED workVars
    BY DEF ScanPool
  <2>2. QED
    BY <2>1, NothingHeld DEF LockInv, HeldNotOwned, workVars, Owned
<1>5. QED
  BY <1>1, <1>2, <1>3, <1>4 DEF LockInv

LEMMA LocksClaim ==
  ASSUME TypeOK, LockInv, NEW c \in Callers, NEW cells,
         Claim(c, cells)
  PROVE  LockInv'
<1>1. MutualExclusion'
  BY DEF LockInv, MutualExclusion, workVars, Owned, Claim
<1>2. LockedIffOwned'
  BY DEF LockInv, LockedIffOwned, TypeOK, workVars, Owned, Held,
         Claim
<1>3. CallerLocks'
  BY DEF LockInv, CallerLocks, TypeOK, workVars, Claim
<1>4. HeldNotOwned'
  BY DEF LockInv, HeldNotOwned, TypeOK, workVars, Owned, Held,
         Claim
<1>5. QED
  BY <1>1, <1>2, <1>3, <1>4 DEF LockInv

LEMMA LocksLockDevice ==
  ASSUME OneInside, TypeOK, LockInv, NEW c \in Callers, LockDevice(c)
  PROVE  LockInv'
<1>1. MutualExclusion'
  BY DEF LockInv, MutualExclusion, workVars, Owned, LockDevice
<1>2. LockedIffOwned'
  BY DEF LockInv, LockedIffOwned, TypeOK, workVars, CallerLocks,
         Owned, Held, IsFirst, LockDevice
<1>3. CallerLocks'
  BY DEF LockInv, CallerLocks, OneInside, TypeOK, workVars,
         LockDevice
<1>4. HeldNotOwned'
  BY DEF LockInv, HeldNotOwned, workVars, LockedIffOwned, CallerLocks, Owned,
         Held, LockDevice
<1>5. QED
  BY <1>1, <1>2, <1>3, <1>4 DEF LockInv

LEMMA LocksSpawn ==
  ASSUME OneInside, NewThreads, TypeOK, LockInv, NEW c \in Callers, Spawn(c)
  PROVE  LockInv'
<1>1. \A u \in Threads : Owned(u)' = IF u = cthr[c] THEN creq[c].devs ELSE Owned(u)
  BY DEF TypeOK, Owned, Live, Return, Spawn
<1>2. \A k \in Callers : Held(k)' = IF k = c THEN {} ELSE Held(k)
  BY DEF TypeOK, Held, Return, Spawn
<1>3. cthr[c] \in Threads /\ Held(c) = creq[c].devs /\ Owned(cthr[c]) = {} /\ lock' = lock
  BY DEF NewThreads, Owned, Held, Live, Spawn
<1>4. \A k \in Callers \ {c} : Held(k) = {}
  BY DEF OneInside, Held, Spawn
<1>5. MutualExclusion'
  BY DEF LockInv, MutualExclusion, NewThreads, TypeOK, HeldNotOwned,
         Owned, Held, Spawn
<1>6. LockedIffOwned'
  BY <1>1, <1>2, <1>3 DEF LockInv, LockedIffOwned
<1>7. CallerLocks'
  BY DEF LockInv, CallerLocks, NewThreads, TypeOK, Return, Spawn
<1>8. HeldNotOwned'
  BY <1>2, <1>4 DEF HeldNotOwned
<1>9. QED
  BY <1>5, <1>6, <1>7, <1>8 DEF LockInv

LEMMA LocksTempUnlock ==
  ASSUME TypeOK, LockInv, NEW t \in Threads, TempUnlock(t)
  PROVE  LockInv'
<1>1. MutualExclusion'
  BY DEF LockInv, MutualExclusion, Owned, TempUnlock
<1>2. LockedIffOwned'
  <2>1. \A u \in Threads : Owned(u)' = Owned(u)
    BY DEF TypeOK, Owned, TempUnlock
  <2>2. \A k \in Callers : Held(k)' = Held(k)
    BY DEF callVars, Held, TempUnlock
  <2>3. \A d \in Devices : lock'[d] # 0 <=> lock[d] # 0 \/ d \in wreq[t].devs \ {Sbc}
    BY DEF SetXl3Locks, TempUnlock
  <2>4. wreq[t].devs = Owned(t)
    BY DEF Owned, TempUnlock
  <2>5. QED
    BY <2>1, <2>2, <2>3, <2>4 DEF LockInv, LockedIffOwned
<1>3. CallerLocks'
  BY DEF LockInv, CallerLocks, TypeOK, Request, callVars,
         LockedIffOwned, Owned, SetXl3Locks, TempUnlock
<1>4. HeldNotOwned'
  BY DEF LockInv, HeldNotOwned, callVars, Owned, Held, TempUnlock
<1>5. QED
  BY <1>1, <1>2, <1>3, <1>4 DEF LockInv

LEMMA LocksRelock ==
  ASSUME TypeOK, LockInv, NEW t \in Threads, Relock(t)
  PROVE  LockInv'
<1>1. MutualExclusion'
  BY DEF LockInv, MutualExclusion, Owned, Relock
<1>2. LockedIffOwned'
  <2>1. \A u \in Threads : Owned(u)' = Owned(u)
    BY DEF TypeOK, Owned, Relock
  <2>2. \A k \in Callers : Held(k)' = Held(k)
    BY DEF callVars, Held, Relock
  <2>3. \A d \in Devices : lock'[d] # 0 <=> lock[d] # 0 \/ d \in wreq[t].devs \ {Sbc}
    BY DEF SetXl3Locks, Relock
  <2>4. wreq[t].devs = Owned(t)
    BY DEF Owned, Relock
  <2>5. QED
    BY <2>1, <2>2, <2>3, <2>4 DEF LockInv, LockedIffOwned
<1>3. CallerLocks'
  BY DEF LockInv, CallerLocks, TypeOK, Request, callVars,
         LockedIffOwned, Owned, SetXl3Locks, Relock
<1>4. HeldNotOwned'
  BY DEF LockInv, HeldNotOwned, callVars, Owned, Held, Relock
<1>5. QED
  BY <1>1, <1>2, <1>3, <1>4 DEF LockInv

LEMMA LocksFinish ==
  ASSUME TypeOK, LockInv, NEW t \in Threads, Finish(t)
  PROVE  LockInv'
<1>1. MutualExclusion'
  BY DEF LockInv, MutualExclusion, TypeOK, Owned, Finish
<1>2. LockedIffOwned'
  BY DEF LockInv, LockedIffOwned, TypeOK, callVars, Owned, Held,
         Finish
<1>3. CallerLocks'
  BY DEF LockInv, CallerLocks, callVars, Finish
<1>4. HeldNotOwned'
  BY DEF LockInv, HeldNotOwned, TypeOK, callVars, Owned, Held,
         Finish
<1>5. QED
  BY <1>1, <1>2, <1>3, <1>4 DEF LockInv

LEMMA LocksUnlockDevice ==
  ASSUME TypeOK, LockInv, NEW t \in Threads, UnlockDevice(t)
  PROVE  LockInv'
<1>1. MutualExclusion'
  BY DEF LockInv, MutualExclusion, Owned, UnlockDevice
<1>2. LockedIffOwned'
  <2>1. PICK d \in Devices : /\ d \in wtodo[t]
                            /\ lock' = [lock EXCEPT ![d] = 0]
                            /\ wtodo' = [wtodo EXCEPT ![t] = @ \ {d}]
    BY DEF IsFirst, UnlockDevice
  <2>2. d \in Owned(t)
    BY <2>1 DEF Owned, UnlockDevice
  <2>3. \A u \in Threads : Owned(u)' = Owned(u) \ {d}
    BY <2>1, <2>2 DEF LockInv, MutualExclusion, TypeOK, Owned, UnlockDevice
  <2>4. \A k \in Callers : Held(k)' = Held(k) /\ d \notin Held(k)
    BY <2>2 DEF LockInv, HeldNotOwned, callVars, Held, UnlockDevice
  <2>5. \A e \in Devices : lock'[e] # 0 <=> lock[e] # 0 /\ e # d
    BY <2>1 DEF TypeOK
  <2>6. QED
    BY <2>3, <2>4, <2>5 DEF LockInv, LockedIffOwned
<1>3. CallerLocks'
  BY DEF LockInv, CallerLocks, TypeOK, callVars, UnlockDevice
<1>4. HeldNotOwned'
  BY DEF LockInv, HeldNotOwned, callVars, Owned, Held, UnlockDevice
<1>5. QED
  BY <1>1, <1>2, <1>3, <1>4 DEF LockInv

LEMMA LocksSetDone ==
  ASSUME TypeOK, LockInv, NEW t \in Threads, SetDone(t)
  PROVE  LockInv'
<1>1. MutualExclusion'
  BY DEF LockInv, MutualExclusion, Owned, SetDone
<1>2. LockedIffOwned'
  <2>1. \A u \in Threads : Owned(u)' = Owned(u)
    BY DEF TypeOK, Owned, SetDone
  <2>2. UNCHANGED <<lock, callVars>>
    BY DEF SetDone
  <2>3. QED
    BY <2>1, <2>2 DEF LockInv, LockedIffOwned, Held, callVars
<1>3. CallerLocks'
  BY DEF LockInv, CallerLocks, callVars, SetDone
<1>4. HeldNotOwned'
  BY DEF LockInv, HeldNotOwned, TypeOK, callVars, Owned, Held,
         SetDone
<1>5. QED
  BY <1>1, <1>2, <1>3, <1>4 DEF LockInv

(* Steps of other variables.                                                 *)
LEMMA LocksSame ==
  ASSUME TypeOK, LockInv, UNCHANGED <<lock, callVars, workVars>>
  PROVE  LockInv'
<1>1. MutualExclusion'
  BY DEF LockInv, MutualExclusion, Owned, workVars
<1>2. LockedIffOwned'
  BY DEF LockInv, LockedIffOwned, Owned, Held, callVars, workVars
<1>3. CallerLocks'
  BY DEF LockInv, CallerLocks, callVars
<1>4. HeldNotOwned'
  BY DEF LockInv, HeldNotOwned, Owned, Held, callVars, workVars
<1>5. QED
  BY <1>1, <1>2, <1>3, <1>4 DEF LockInv

LEMMA InitIInv == Init => IInv
<1> SUFFICES ASSUME Init PROVE IInv
  OBVIOUS
<1>1. TypeOK
  BY InitTypeOK
<1>2. MutualExclusion /\ LockedIffOwned /\ HeldNotOwned
  BY DEF Init, MutualExclusion, LockedIffOwned, HeldNotOwned, Owned, Held
<1>3. CallerLocks /\ CallerSlots
  BY DEF Init, CallerLocks, CallerSlots, NoRequest, Other
<1>4. SlotAccounting
  BY DEF Init, SlotAccounting, Live
<1>5. QED
  BY <1>1, <1>2, <1>3, <1>4 DEF IInv, PoolInv, LockInv

LEMMA StepUp ==
  ASSUME \/ \E t \in Threads, d \in Devices : LoseDevice(t, d)
         \/ \E t \in Threads : ConnectSbc(t)
         \/ \E d \in Devices : AcceptXl3(d) \/ CloseXl3(d)
         \/ UNCHANGED vars
  PROVE  UNCHANGED <<thread_pool, thread_done, lock, callVars, workVars>>
  BY DEF LoseDevice, ConnectSbc, AcceptXl3, CloseXl3, vars, poolVars

(* The pool stays sound as long as no two callers are inside                *)
(* thread_and_lock at once, ...                                             *)
LEMMA StepPool == ASSUME OneInside, PoolInv, [Next]_vars PROVE PoolInv'
<1>1. TypeOK'
  BY StepTypeOK DEF PoolInv
<1>2. CASE \E c \in Callers, r \in Requests : Call(c, r)
  BY <1>1, <1>2, InvCall, LocalTypes
<1>3. CASE \E c \in Callers : ThreadAndLock(c)
  BY <1>1, <1>3, InvCheckDevice, InvScanPool, InvClaimSlot, InvLockDevice, InvSpawn
  DEF ThreadAndLock
<1>4. CASE \E t \in Threads : TempUnlock(t) \/ Relock(t) \/ Finish(t)
  BY <1>1, <1>4, InvTempUnlock, InvRelock, InvFinish
<1>5. CASE \E t \in Threads : UnthreadAndUnlock(t)
  BY <1>1, <1>5, InvUnlockDevice, InvSetDone DEF UnthreadAndUnlock
<1>6. CASE CleanupThreads
  BY <1>1, <1>6, InvCleanupThreads
<1>7. QED
  BY <1>1, <1>2, <1>3, <1>4, <1>5, <1>6, StepUp, InvUp DEF Next

(* ... and with it the locks.                                               *)
LEMMA WorkerLocks ==
  ASSUME TypeOK, LockInv, NEW t \in Threads,
         TempUnlock(t) \/ Relock(t) \/ Finish(t) \/ UnthreadAndUnlock(t)
  PROVE  LockInv'
  BY LocksTempUnlock, LocksRelock, LocksFinish, LocksUnlockDevice, LocksSetDone
  DEF UnthreadAndUnlock

LEMMA StepLocks ==
  ASSUME OneInside, NewThreads, TypeOK, LockInv, [Next]_vars PROVE LockInv'
<1>1. CASE \E c \in Callers, r \in Requests : Call(c, r)
  BY <1>1, LocksCall, LocalTypes
<1>2. CASE \E c \in Callers : ThreadAndLock(c)
  BY <1>2, LocksCheckDevice, LocksScanPool, LocksClaim, LocksLockDevice, LocksSpawn
  DEF ThreadAndLock, ClaimSlot
<1>3. CASE \E t \in Threads : TempUnlock(t) \/ Relock(t) \/ Finish(t) \/ UnthreadAndUnlock(t)
  BY <1>3, WorkerLocks
<1>4. CASE CleanupThreads
  BY <1>4, LocksSame DEF CleanupThreads
<1>5. QED
  BY <1>1, <1>2, <1>3, <1>4, StepUp, LocksSame DEF Next

LEMMA StepIInv == SingleCaller /\ IInv /\ [Next]_vars => IInv'
<1>1. SingleCaller => OneInside
  BY DEF SingleCaller, OneInside
<1>2. PoolInv => NewThreads /\ TypeOK
  BY DEF PoolInv, CallerSlots, NewThreads
<1>3. QED
  BY <1>1, <1>2, StepPool, StepLocks DEF IInv

(* With a single caller of thread_and_lock the invariant holds at every     *)
(* step, although no lock protects the accesses of thread_and_lock,         *)
(* unthread_and_unlock and cleanup_threads to the pool and the lock words.  *)
THEOREM InductiveInvariant == SingleCaller => (SafeSpec => []IInv)
<1> SUFFICES ASSUME SingleCaller PROVE SafeSpec => []IInv
  OBVIOUS
<1>1. IInv /\ [Next]_vars => IInv'
  BY StepIInv
<1>2. QED
  BY <1>1, InitIInv, PTL DEF SafeSpec

(* Two worker threads never use the same device.                            *)
THEOREM MutualExclusionHolds == SingleCaller => (SafeSpec => []MutualExclusion)
<1>1. IInv => MutualExclusion
  BY DEF IInv, LockInv
<1>2. QED
  BY <1>1, InductiveInvariant, PTL

(* A device's lock is set exactly while a thread answers for it.            *)
THEOREM LockedIffOwnedHolds == SingleCaller => (SafeSpec => []LockedIffOwned)
<1>1. IInv => LockedIffOwned
  BY DEF IInv, LockInv
<1>2. QED
  BY <1>1, InductiveInvariant, PTL

(* A slot is in use exactly while a thread owns it or awaits cleanup.       *)
THEOREM SlotAccountingHolds == SingleCaller => (SafeSpec => []SlotAccounting)
<1>1. IInv => SlotAccounting
  BY DEF IInv, PoolInv
<1>2. QED
  BY <1>1, InductiveInvariant, PTL

(* cleanup_threads frees only cells of finished threads, also while another *)
(* caller is half way through thread_and_lock.                              *)
LEMMA CleanupFreesFinished ==
  ASSUME PoolInv, CleanupThreads, NEW s \in Slots,
         thread_pool[s] # NoThread, thread_pool'[s] = NoThread
  PROVE  ~Live(thread_pool[s]) /\ \A c \in Callers : cthr[c] # thread_pool[s]
<1>1. thread_done[s] /\ thread_pool[s] \in Threads
  BY DEF CleanupThreads, PoolInv, TypeOK
<1>2. \A r \in Slots : thread_pool[r] = thread_pool[s] => r = s
  BY DEF PoolInv, SlotAccounting
<1>3. ~Live(thread_pool[s])
  BY <1>1, <1>2 DEF PoolInv, TypeOK, SlotAccounting
<1>4. ASSUME NEW c \in Callers PROVE cthr[c] # thread_pool[s]
  <2>1. CASE cpc[c] = "lock"
    BY <1>1, <1>2, <2>1 DEF PoolInv, TypeOK, CallerSlots
  <2>2. CASE cpc[c] # "lock"
    BY <2>2 DEF PoolInv, CallerSlots
  <2>3. QED
    BY <2>1, <2>2
<1>5. QED
  BY <1>3, <1>4

LEMMA OnlyCleanupFrees ==
  ASSUME PoolInv, [Next]_vars, NEW s \in Slots,
         thread_pool[s] # NoThread, thread_pool'[s] = NoThread
  PROVE  CleanupThreads
<1>1. ~\E c \in Callers : ClaimSlot(c)
  BY ConstantsOK DEF ClaimSlot, Claim, FreeThreads, PoolInv, TypeOK
<1>2. QED
  BY <1>1
  DEF Next, vars, ThreadAndLock, UnthreadAndUnlock, poolVars, Call, CheckDevice,
      ScanPool, LockDevice, Spawn, LoseDevice, ConnectSbc, TempUnlock, Relock,
      Finish, UnlockDevice, SetDone, AcceptXl3, CloseXl3

(* cleanup_threads frees no cell of a thread that runs or is about to run.  *)
THEOREM FreesOnlyFinishedHolds == SingleCaller => (SafeSpec => FreesOnlyFinished)
<1> SUFFICES ASSUME SingleCaller PROVE SafeSpec => FreesOnlyFinished
  OBVIOUS
<1>1. IInv /\ [Next]_vars =>
        [\A s \in Slots :
           thread_pool[s] # NoThread /\ thread_pool'[s] = NoThread =>
             /\ ~Live(thread_pool[s])
             /\ \A c \in Callers : cthr[c] # thread_pool[s]]_vars
  BY CleanupFreesFinished, OnlyCleanupFrees DEF IInv
<1>2. QED
  BY <1>1, InductiveInvariant, PTL DEF SafeSpec, FreesOnlyFinished
=============================================================================
