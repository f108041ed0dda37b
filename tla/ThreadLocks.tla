------------------------------ MODULE ThreadLocks ------------------------------
(***************************************************************************)
(* The thread pool and the device locks of penn_daq (utils/daq_utils.c).   *)
(*                                                                         *)
(* Every command that talks to hardware first calls thread_and_lock, which *)
(* checks that each device it needs is unlocked and connected, takes the   *)
(* first free slot of thread_pool and sets the locks; the command handler  *)
(* then creates the worker thread, and the worker ends with                *)
(* unthread_and_unlock.  No mutex protects any of this (the one in         *)
(* thread_and_lock is commented out), so each access to shared memory is a *)
(* step of its own.                                                        *)
(*                                                                         *)
(* Device 0 is the SBC (sbc_lock, rw_sbc_fd); device i+1 is the XL3 of     *)
(* crate i (xl3_lock[i], rw_xl3_fd[i]): the order in which the code visits *)
(* them.                                                                   *)
(***************************************************************************)
EXTENDS Integers

CONSTANTS
  NumCrates,    \* XL3s (19 in the code)
  MaxThreads,   \* length of thread_pool (MAX_THREADS)
  Callers,      \* threads that call thread_and_lock
  Main,         \* the caller that runs the main loop
  Threads,      \* identities of worker threads (pthread_t cells)
  NoThread,     \* NULL
  Requests,     \* the (sbc, crate_mask) arguments commands are issued with
  MaxYields     \* bound: temp_unlock/relock pairs of one worker

Sbc     == 0
Devices == 0 .. NumCrates
Slots   == 0 .. MaxThreads - 1

\* sbc != 0 puts Sbc in devs; sbc == 2 (sbc_control, final_test) also sets force.
\* Commands are told apart by their arguments only, but for see_refl (Sessions).
Request == [devs : SUBSET Devices, force : BOOLEAN, name : {"see_refl", "other"}]
Other(S, f) == [devs |-> S, force |-> f, name |-> "other"]
NoRequest == Other({}, FALSE)  \* locals that are out of scope

ASSUME ConstantsOK ==
  /\ NumCrates \in Nat
  /\ MaxThreads \in Nat \ {0}
  /\ Main \in Callers
  /\ NoThread \notin Threads
  /\ Requests \subseteq Request /\ Requests # {}
  /\ MaxYields \in Nat

VARIABLES
  thread_pool,  \* [Slots -> thread or NULL]
  thread_done,  \* [Slots -> BOOLEAN]
  lock,         \* sbc_lock and xl3_lock: 0 free, 1 locked, 2 locked but read by main
  up,           \* is the device's rw_..._fd > 0 ?
  cpc, creq, ctodo, cslot, cthr,  \* a caller inside thread_and_lock
  result,       \* what thread_and_lock last returned (0 for a thread number)
  wpc, wreq, wtodo, wslot, wyield \* a worker thread

callVars == <<cpc, creq, ctodo, cslot, cthr, result>>
workVars == <<wpc, wreq, wtodo, wslot, wyield>>
poolVars == <<thread_pool, thread_done>>
vars     == <<poolVars, lock, up, callVars, workVars>>

\* The loops over devices and over slots run upwards.
IsFirst(i, S) == i \in S /\ \A j \in S : i <= j

Init ==
  /\ thread_pool = [s \in Slots |-> NoThread]
  /\ thread_done = [s \in Slots |-> FALSE]
  /\ lock = [d \in Devices |-> 0]
  /\ up = [d \in Devices |-> FALSE]
  /\ cpc = [c \in Callers |-> "idle"]
  /\ creq = [c \in Callers |-> NoRequest]
  /\ ctodo = [c \in Callers |-> {}]
  /\ cslot = [c \in Callers |-> 0]
  /\ cthr = [c \in Callers |-> NoThread]
  /\ result = [c \in Callers |-> 0]
  /\ wpc = [t \in Threads |-> "none"]
  /\ wreq = [t \in Threads |-> NoRequest]
  /\ wtodo = [t \in Threads |-> {}]
  /\ wslot = [t \in Threads |-> 0]
  /\ wyield = [t \in Threads |-> 0]

-----------------------------------------------------------------------------
(* thread_and_lock, as called by c                                          *)

Call(c, r) ==
  /\ cpc[c] = "idle"
  /\ cpc' = [cpc EXCEPT ![c] = "check"]
  /\ creq' = [creq EXCEPT ![c] = r]
  /\ ctodo' = [ctodo EXCEPT ![c] = r.devs]
  /\ UNCHANGED <<cslot, cthr, result, workVars, poolVars, lock, up>>

Return(c, code) ==
  /\ cpc' = [cpc EXCEPT ![c] = "idle"]
  /\ result' = [result EXCEPT ![c] = code]
  /\ creq' = [creq EXCEPT ![c] = NoRequest]
  /\ ctodo' = [ctodo EXCEPT ![c] = {}]
  /\ cslot' = [cslot EXCEPT ![c] = 0]
  /\ cthr' = [cthr EXCEPT ![c] = NoThread]

MayBeDown(c, d) == d = Sbc /\ creq[c].force

\* Bug: forgets that an earlier command may hold the device.
CheckOnlyConnections(c) ==
  /\ cpc[c] = "check"
  /\ \E d \in Devices :
       /\ IsFirst(d, ctodo[c])
       /\ ctodo' = [ctodo EXCEPT ![c] = @ \ {d}]
  /\ UNCHANGED <<cpc, creq, cslot, cthr, result, workVars, poolVars, lock, up>>

CheckDevice(c) ==
  /\ cpc[c] = "check"
  /\ \E d \in Devices :
       /\ IsFirst(d, ctodo[c])
       /\ \/ /\ lock[d] # 0
             /\ Return(c, -1)
          \/ /\ lock[d] = 0 /\ ~up[d] /\ ~MayBeDown(c, d)
             /\ Return(c, IF d = Sbc THEN -2 ELSE -3)
          \/ /\ lock[d] = 0 /\ (up[d] \/ MayBeDown(c, d))
             /\ ctodo' = [ctodo EXCEPT ![c] = @ \ {d}]
             /\ UNCHANGED <<cpc, creq, cslot, cthr, result>>
  /\ UNCHANGED <<workVars, poolVars, lock, up>>

FreeSlots == {s \in Slots : thread_pool[s] = NoThread}

\* Bug: i <= MAX_THREADS.
ScanPoolTooFar(c) ==
  /\ cpc[c] = "check"
  /\ ctodo[c] = {}
  /\ cpc' = [cpc EXCEPT ![c] = "claim"]
  /\ \E s \in Slots \cup {MaxThreads} :
       /\ IsFirst(s, FreeSlots \cup {MaxThreads})
       /\ cslot' = [cslot EXCEPT ![c] = s]
  /\ UNCHANGED <<creq, ctodo, cthr, result, workVars, poolVars, lock, up>>

ScanPool(c) ==
  /\ cpc[c] = "check"
  /\ ctodo[c] = {}
  /\ \/ /\ FreeSlots = {}
        /\ Return(c, -4)
     \/ /\ cpc' = [cpc EXCEPT ![c] = "claim"]
        /\ \E s \in Slots : /\ IsFirst(s, FreeSlots)
                           /\ cslot' = [cslot EXCEPT ![c] = s]
        /\ UNCHANGED <<creq, ctodo, cthr, result>>
  /\ UNCHANGED <<workVars, poolVars, lock, up>>

\* malloc returns a cell nobody uses.
FreeThreads ==
  {t \in Threads : /\ wpc[t] = "none"
                   /\ \A s \in Slots : thread_pool[s] # t
                   /\ \A c \in Callers : cthr[c] # t}

\* The new thread's cell is one of cells.
Claim(c, cells) ==
  /\ cpc[c] = "claim"
  /\ \E t \in cells :
       /\ thread_pool' = [thread_pool EXCEPT ![cslot[c]] = t]
       /\ cthr' = [cthr EXCEPT ![c] = t]
  /\ cpc' = [cpc EXCEPT ![c] = "lock"]
  /\ ctodo' = [ctodo EXCEPT ![c] = creq[c].devs]
  /\ UNCHANGED <<creq, cslot, result, workVars, thread_done, lock, up>>

ClaimSlot(c) == Claim(c, FreeThreads)

LockDevice(c) ==
  /\ cpc[c] = "lock"
  /\ \E d \in Devices :
       /\ IsFirst(d, ctodo[c])
       /\ lock' = [lock EXCEPT ![d] = 1]
       /\ ctodo' = [ctodo EXCEPT ![c] = @ \ {d}]
  /\ UNCHANGED <<cpc, creq, cslot, cthr, result, workVars, poolVars, up>>

\* thread_and_lock has returned the slot; the command handler calls pthread_create.
Spawn(c) ==
  /\ cpc[c] = "lock"
  /\ ctodo[c] = {}
  /\ Return(c, 0)
  /\ LET t == cthr[c] IN
       /\ wpc' = [wpc EXCEPT ![t] = "run"]
       /\ wreq' = [wreq EXCEPT ![t] = creq[c]]
       /\ wslot' = [wslot EXCEPT ![t] = cslot[c]]
       /\ wyield' = [wyield EXCEPT ![t] = MaxYields]
  /\ UNCHANGED <<wtodo, poolVars, lock, up>>

ThreadAndLock(c) ==
  CheckDevice(c) \/ ScanPool(c) \/ ClaimSlot(c) \/ LockDevice(c) \/ Spawn(c)

-----------------------------------------------------------------------------
(* A worker thread t                                                        *)

\* A read of one of its own sockets fails: the worker closes it.
LoseDevice(t, d) ==
  /\ wpc[t] = "run"
  /\ d \in wreq[t].devs /\ up[d]
  /\ up' = [up EXCEPT ![d] = FALSE]
  /\ UNCHANGED <<callVars, workVars, poolVars, lock>>

\* sbc_control opens the connection to the SBC.
ConnectSbc(t) ==
  /\ wpc[t] = "run"
  /\ wreq[t].force /\ Sbc \in wreq[t].devs /\ ~up[Sbc]
  /\ up' = [up EXCEPT ![Sbc] = TRUE]
  /\ UNCHANGED <<callVars, workVars, poolVars, lock>>

SetXl3Locks(t, v) ==
  lock' = [d \in Devices |-> IF d \in wreq[t].devs \ {Sbc} THEN v ELSE lock[d]]

TempUnlock(t) ==
  /\ wpc[t] = "run" /\ wyield[t] > 0
  /\ SetXl3Locks(t, 2)
  /\ wpc' = [wpc EXCEPT ![t] = "yield"]
  /\ wyield' = [wyield EXCEPT ![t] = @ - 1]
  /\ UNCHANGED <<callVars, wreq, wtodo, wslot, poolVars, up>>

Relock(t) ==
  /\ wpc[t] = "yield"
  /\ SetXl3Locks(t, 1)
  /\ wpc' = [wpc EXCEPT ![t] = "run"]
  /\ UNCHANGED <<callVars, wreq, wtodo, wslot, wyield, poolVars, up>>

\* Bug: the sbc argument is forgotten.
FinishKeepingSbc(t) ==
  /\ wpc[t] = "run"
  /\ wpc' = [wpc EXCEPT ![t] = "end"]
  /\ wtodo' = [wtodo EXCEPT ![t] = wreq[t].devs \ {Sbc}]
  /\ UNCHANGED <<callVars, wreq, wslot, wyield, poolVars, lock, up>>

\* The command's work is over: unthread_and_unlock is called ...
Finish(t) ==
  /\ wpc[t] = "run"
  /\ wpc' = [wpc EXCEPT ![t] = "end"]
  /\ wtodo' = [wtodo EXCEPT ![t] = wreq[t].devs]
  /\ UNCHANGED <<callVars, wreq, wslot, wyield, poolVars, lock, up>>

\* Bug: the lock is counted down.
UnlockByCounting(t) ==
  /\ wpc[t] = "end"
  /\ \E d \in Devices :
       /\ IsFirst(d, wtodo[t])
       /\ lock' = [lock EXCEPT ![d] = @ - 1]
       /\ wtodo' = [wtodo EXCEPT ![t] = @ \ {d}]
  /\ UNCHANGED <<callVars, wpc, wreq, wslot, wyield, poolVars, up>>

\* ... it clears the locks one by one ...
UnlockDevice(t) ==
  /\ wpc[t] = "end"
  /\ \E d \in Devices :
       /\ IsFirst(d, wtodo[t])
       /\ lock' = [lock EXCEPT ![d] = 0]
       /\ wtodo' = [wtodo EXCEPT ![t] = @ \ {d}]
  /\ UNCHANGED <<callVars, wpc, wreq, wslot, wyield, poolVars, up>>

\* Bug: marks the slot done before the locks are clear.
SetDoneFirst(t) ==
  /\ wpc[t] = "end"
  /\ thread_done' = [thread_done EXCEPT ![wslot[t]] = TRUE]
  /\ wpc' = [wpc EXCEPT ![t] = "none"]
  /\ wreq' = [wreq EXCEPT ![t] = NoRequest]
  /\ wslot' = [wslot EXCEPT ![t] = 0]
  /\ wyield' = [wyield EXCEPT ![t] = 0]
  /\ UNCHANGED <<callVars, wtodo, thread_pool, lock, up>>

\* Bug: an exit of a command that forgets unthread_and_unlock's last line.
ReturnWithoutDone(t) ==
  /\ wpc[t] = "end"
  /\ wtodo[t] = {}
  /\ wpc' = [wpc EXCEPT ![t] = "none"]
  /\ wreq' = [wreq EXCEPT ![t] = NoRequest]
  /\ wslot' = [wslot EXCEPT ![t] = 0]
  /\ wyield' = [wyield EXCEPT ![t] = 0]
  /\ UNCHANGED <<callVars, wtodo, poolVars, lock, up>>

\* ... and marks the slot done; the thread function returns.
SetDone(t) ==
  /\ wpc[t] = "end"
  /\ wtodo[t] = {}
  /\ thread_done' = [thread_done EXCEPT ![wslot[t]] = TRUE]
  /\ wpc' = [wpc EXCEPT ![t] = "none"]
  /\ wreq' = [wreq EXCEPT ![t] = NoRequest]
  /\ wslot' = [wslot EXCEPT ![t] = 0]
  /\ wyield' = [wyield EXCEPT ![t] = 0]
  /\ UNCHANGED <<callVars, wtodo, thread_pool, lock, up>>

UnthreadAndUnlock(t) == UnlockDevice(t) \/ SetDone(t)

-----------------------------------------------------------------------------
(* The main loop, between two commands                                      *)

\* Bug: thread_done is not reset with the slot.
CleanupLeavingDone ==
  /\ cpc[Main] = "idle"
  /\ \E s \in Slots : thread_done[s]
  /\ thread_pool' = [s \in Slots |-> IF thread_done[s] THEN NoThread ELSE thread_pool[s]]
  /\ UNCHANGED <<callVars, workVars, thread_done, lock, up>>

\* Main is the only caller: nobody claims a slot between the three stores for a slot,
\* and its worker has ended, so they are one step.  Sessions, which has a second
\* caller, takes them one by one.
CleanupThreads ==
  /\ cpc[Main] = "idle"
  /\ \E s \in Slots : thread_done[s]
  /\ thread_pool' = [s \in Slots |-> IF thread_done[s] THEN NoThread ELSE thread_pool[s]]
  /\ thread_done' = [s \in Slots |-> FALSE]
  /\ UNCHANGED <<callVars, workVars, lock, up>>

\* An XL3 (re)connects, whatever its lock says.
AcceptXl3(d) ==
  /\ cpc[Main] = "idle"
  /\ d # Sbc
  /\ up' = [up EXCEPT ![d] = TRUE]
  /\ UNCHANGED <<callVars, workVars, poolVars, lock>>

\* The main loop reads an EOF or an error from an XL3 it may read.
CloseXl3(d) ==
  /\ cpc[Main] = "idle"
  /\ d # Sbc /\ lock[d] # 1
  /\ up[d]
  /\ up' = [up EXCEPT ![d] = FALSE]
  /\ UNCHANGED <<callVars, workVars, poolVars, lock>>

-----------------------------------------------------------------------------
Next ==
  \/ \E c \in Callers, r \in Requests : Call(c, r)
  \/ \E c \in Callers : ThreadAndLock(c)
  \/ \E t \in Threads, d \in Devices : LoseDevice(t, d)
  \/ \E t \in Threads : ConnectSbc(t)
  \/ \E t \in Threads : TempUnlock(t)
  \/ \E t \in Threads : Relock(t)
  \/ \E t \in Threads : Finish(t)
  \/ \E t \in Threads : UnthreadAndUnlock(t)
  \/ CleanupThreads
  \/ \E d \in Devices : AcceptXl3(d)
  \/ \E d \in Devices : CloseXl3(d)

SafeSpec == Init /\ [][Next]_vars

(* Every thread keeps running and every command's work ends: its waits are  *)
(* selects with a timeout.  The main loop runs cleanup_threads once in each *)
(* of its iterations, whatever commands it accepts between two of them,     *)
(* hence the strong fairness; its select returns at once as long as some    *)
(* connection (the controller's) can be written to.                         *)
Fairness ==
  /\ \A c \in Callers : WF_vars(ThreadAndLock(c))
  /\ \A t \in Threads : WF_vars(Relock(t) \/ Finish(t) \/ UnthreadAndUnlock(t))
  /\ SF_vars(CleanupThreads)

Spec == SafeSpec /\ Fairness

-----------------------------------------------------------------------------
(* Properties                                                               *)

Results == {0, -1, -2, -3, -4}

TypeOK ==
  /\ thread_pool \in [Slots -> Threads \cup {NoThread}]
  /\ thread_done \in [Slots -> BOOLEAN]
  /\ lock \in [Devices -> {0, 1, 2}]
  /\ up \in [Devices -> BOOLEAN]
  /\ cpc \in [Callers -> {"idle", "check", "claim", "lock"}]
  /\ creq \in [Callers -> Request]
  /\ ctodo \in [Callers -> SUBSET Devices]
  /\ cslot \in [Callers -> Slots]
  /\ cthr \in [Callers -> Threads \cup {NoThread}]
  /\ result \in [Callers -> Results]
  /\ wpc \in [Threads -> {"none", "run", "yield", "end"}]
  /\ wreq \in [Threads -> Request]
  /\ wtodo \in [Threads -> SUBSET Devices]
  /\ wslot \in [Threads -> Slots]
  /\ wyield \in [Threads -> 0 .. MaxYields]

Live(t) == wpc[t] # "none"

\* The devices a worker has locked and not yet unlocked.
Owned(t) ==
  IF wpc[t] \in {"run", "yield"} THEN wreq[t].devs
  ELSE IF wpc[t] = "end" THEN wtodo[t] ELSE {}

\* The devices a caller has locked for the worker it is about to create.
Held(c) == IF cpc[c] = "lock" THEN creq[c].devs \ ctodo[c] ELSE {}

(* Two worker threads never use the same device: the sockets and the        *)
(* hardware behind them carry no other protection against interleaved       *)
(* commands.                                                                *)
MutualExclusion ==
  \A t, u \in Threads : t # u => Owned(t) \cap Owned(u) = {}

(* A device is locked exactly when some thread answers for it: no lock is   *)
(* left behind by a refused command or a finished one, and no worker uses a *)
(* device whose lock another command would find open.                       *)
LockedIffOwned ==
  \A d \in Devices :
    lock[d] # 0 <=> \/ \E t \in Threads : d \in Owned(t)
                    \/ \E c \in Callers : d \in Held(c)

(* What thread_and_lock may rely on half way through: nobody sets a lock    *)
(* it has found open ...                                                    *)
CallerLocks ==
  \A c \in Callers :
    /\ ctodo[c] \subseteq creq[c].devs
    /\ cpc[c] = "check" => \A d \in creq[c].devs \ ctodo[c] : lock[d] = 0
    /\ cpc[c] = "claim" => \A d \in creq[c].devs : lock[d] = 0
    /\ cpc[c] = "lock" => \A d \in ctodo[c] : lock[d] = 0

(* ... nor takes a slot it has found free, and the slot it has taken stays  *)
(* its own until the thread exists.                                         *)
CallerSlots ==
  \A c \in Callers :
    /\ cpc[c] = "claim" => thread_pool[cslot[c]] = NoThread
    /\ cpc[c] = "lock" => /\ cthr[c] \in Threads /\ ~Live(cthr[c])
                          /\ thread_pool[cslot[c]] = cthr[c]
                          /\ ~thread_done[cslot[c]]
    /\ cpc[c] # "lock" => cthr[c] = NoThread

(* No worker uses a device that is being locked for another.                *)
HeldNotOwned == \A t \in Threads, c \in Callers : Owned(t) \cap Held(c) = {}

(* A slot of thread_pool is in use exactly when a caller has claimed it, a  *)
(* live worker has its number or its worker has finished and awaits         *)
(* cleanup, only one of these at a time, and no two slots hold one cell.    *)
SlotAccounting ==
  /\ \A s \in Slots :
       thread_pool[s] # NoThread <=>
         \/ thread_done[s]
         \/ \E t \in Threads : Live(t) /\ wslot[t] = s
         \/ \E c \in Callers : cpc[c] = "lock" /\ cslot[c] = s
  /\ \A t \in Threads : Live(t) => thread_pool[wslot[t]] = t /\ ~thread_done[wslot[t]]
  /\ \A s, r \in Slots :
       thread_pool[s] = thread_pool[r] /\ s # r => thread_pool[s] = NoThread

(* The inductive invariant: what is true of the pool and of the locks.      *)
PoolInv ==
  /\ TypeOK
  /\ CallerSlots
  /\ SlotAccounting

LockInv ==
  /\ MutualExclusion
  /\ LockedIffOwned
  /\ CallerLocks
  /\ HeldNotOwned

IInv == PoolInv /\ LockInv

(* cleanup_threads never frees the cell of a thread that still runs or is   *)
(* about to be created.                                                     *)
FreesOnlyFinished ==
  [][\A s \in Slots :
       thread_pool[s] # NoThread /\ thread_pool'[s] = NoThread =>
         /\ ~Live(thread_pool[s])
         /\ \A c \in Callers : cthr[c] # thread_pool[s]]_vars

(* Every lock is released again: a device is never lost to the daemon.      *)
LocksReleased == \A d \in Devices : lock[d] # 0 ~> lock[d] = 0

(* Every slot of the pool becomes free again.                               *)
SlotsRecycled == \A s \in Slots : thread_pool[s] # NoThread ~> thread_pool[s] = NoThread

-----------------------------------------------------------------------------
(* The thread a device belongs to: from the step that claims the slot on,   *)
(* the devices of the request are the new thread's.                         *)
Owner(d) ==
  LET claimed == {c \in Callers : cpc[c] = "lock" /\ d \in creq[c].devs}
      working == {t \in Threads : d \in Owned(t)}
  IN IF claimed # {} THEN cthr[CHOOSE c \in claimed : TRUE]
     ELSE IF working # {} THEN CHOOSE t \in working : TRUE
     ELSE NoThread

Abstract == INSTANCE DeviceLocks WITH owner <- [d \in Devices |-> Owner(d)]

(* The code's step-by-step locking implements the all-or-nothing locks of   *)
(* DeviceLocks, under the same promise that each device is given back.      *)
ImplementsDeviceLocks == Abstract!Spec
=============================================================================
