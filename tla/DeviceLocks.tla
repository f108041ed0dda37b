------------------------------ MODULE DeviceLocks ------------------------------
(***************************************************************************)
(* What the locking protocol of utils/daq_utils.c promises: a command's    *)
(* thread gets all the devices it asked for in one step or none of them,   *)
(* never a device that another thread holds, and gives each of them back.  *)
(***************************************************************************)
CONSTANTS Devices, Threads, NoThread  \* NoThread is not one of Threads

VARIABLE owner  \* [Devices -> thread or NoThread]

Init == owner = [d \in Devices |-> NoThread]

Acquire(t, S) ==
  /\ \A d \in Devices : owner[d] # t
  /\ \A d \in S : owner[d] = NoThread
  /\ owner' = [d \in Devices |-> IF d \in S THEN t ELSE owner[d]]

Release(d) ==
  /\ owner[d] # NoThread
  /\ owner' = [owner EXCEPT ![d] = NoThread]

Next ==
  \/ \E t \in Threads, S \in SUBSET Devices : Acquire(t, S)
  \/ \E d \in Devices : Release(d)

SafeSpec == Init /\ [][Next]_owner

Spec == SafeSpec /\ \A d \in Devices : WF_owner(Release(d))
=============================================================================
