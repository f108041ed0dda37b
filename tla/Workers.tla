-------------------------------- MODULE Workers --------------------------------
(***************************************************************************)
(* Worker threads running the commands and tests of the dispatch table     *)
(* against one MTC and the XL3s.                                           *)
(*                                                                         *)
(* A handler takes its devices in one step here (thread_and_lock, whose    *)
(* own steps are the subject of ThreadLocks), then its thread runs its     *)
(* program step by step.  Every XL3 is connected; the SBC is lost when     *)
(* do_mtc_cmd finds its connection closed, after which nothing reaches the *)
(* MTC until sbc_control connects it again.                                *)
(***************************************************************************)
EXTENDS Tests

CONSTANTS
  Threads,  \* identities of worker threads
  Jobs      \* [Threads -> the commands it may be started for: names and crates]

\* The table of process_control_cmd, by the name of the handler.
Command(name, C) ==
  LET c == CHOOSE d \in C : TRUE
  IN CASE name = "sbc_control"         -> sbc_control
       [] name = "mrw"                 -> mrw
       [] name = "mtc_read"            -> mtc_read
       [] name = "mtc_write"           -> mtc_write
       [] name = "set_mtca_thresholds" -> set_mtca_thresholds
       [] name = "set_gt_mask"         -> cmd_set_gt_mask
       [] name = "set_gt_crate_mask"   -> cmd_set_gt_crate_mask
       [] name = "set_ped_crate_mask"  -> cmd_set_ped_crate_mask
       [] name = "enable_pulser"       -> cmd_enable_pulser
       [] name = "disable_pulser"      -> cmd_disable_pulser
       [] name = "enable_pedestal"     -> cmd_enable_pedestal
       [] name = "disable_pedestal"    -> cmd_disable_pedestal
       [] name = "set_pulser_freq"     -> set_pulser_freq
       [] name = "send_softgt"         -> cmd_send_softgt
       [] name = "multi_softgt"        -> cmd_multi_softgt
       [] name = "mtc_init"            -> mtc_init
       [] name = "xrw"                 -> xrw(c)
       [] name = "frw"                 -> frw(c)
       [] name = "debugging_mode"      -> debugging_mode(c)
       [] name = "change_mode"         -> cmd_change_mode(c)
       [] name = "crate_init"          -> crate_init(c)
       [] name = "sm_reset"            -> sm_reset(c)
       [] name = "read_local_voltage"  -> read_local_voltage(c)
       [] name = "hv_readback"         -> hv_readback(c)
       [] name = "xl3_rw"              -> cmd_xl3_rw(c)
       [] name = "xl3_queue_rw"        -> xl3_queue_rw(c)
       [] name = "set_alarm_dac"       -> set_alarm_dac(c)
       [] name = "load_dac"            -> cmd_load_dac(c)
       [] name = "read_bundle"         -> read_bundle(c)
       [] name = "setup_chinj"         -> cmd_setup_chinj(c)
       [] name = "run_pedestals"           -> run_pedestals(TRUE, C)
       [] name = "run_pedestals_mtc"       -> run_pedestals(TRUE, {})
       [] name = "run_pedestals_crate"     -> run_pedestals(FALSE, C)
       [] name = "run_pedestals_end"       -> run_pedestals_end(TRUE, C)
       [] name = "run_pedestals_end_mtc"   -> run_pedestals_end(TRUE, {})
       [] name = "run_pedestals_end_crate" -> run_pedestals_end(FALSE, C)
       [] name = "trigger_scan"        -> trigger_scan(C)
       [] name = "see_refl"            -> see_refl(c)
       [] name = "fec_test"            -> fec_test(c)
       [] name = "mem_test"            -> mem_test(c)
       [] name = "vmon"                -> vmon(c)
       [] name = "board_id"            -> board_id(c)
       [] name = "ped_run"             -> ped_run(c)
       [] name = "zdisc"               -> zdisc(c)
       [] name = "crate_cbal"          -> crate_cbal(c)
       [] name = "cgt_test"            -> cgt_test(c)
       [] name = "cmos_m_gtvalid"      -> cmos_m_gtvalid(c)
       [] name = "cald_test"           -> cald_test(c)
       [] name = "get_ttot"            -> get_ttot(c)
       [] name = "set_ttot"            -> set_ttot(c)
       [] name = "fifo_test"           -> fifo_test(c)
       [] name = "disc_check"          -> disc_check(c)
       [] name = "mb_stability_test"   -> mb_stability_test(c)
       [] name = "chinj_scan"          -> chinj_scan(c)
       [] name = "find_noise"          -> find_noise(C)

Handlers == [j \in UNION {Jobs[t] : t \in Threads} |-> Command(j.name, j.crates)]

Idle == [name |-> "none", crates |-> {}]

\* What the handlers take from the command line: nothing, a crate or a crate mask.
OfTheMtc ==
  {"sbc_control", "mrw", "mtc_read", "mtc_write", "set_mtca_thresholds", "set_gt_mask",
   "set_gt_crate_mask", "set_ped_crate_mask", "enable_pulser", "disable_pulser",
   "enable_pedestal", "disable_pedestal", "set_pulser_freq", "send_softgt",
   "multi_softgt", "mtc_init", "run_pedestals_mtc", "run_pedestals_end_mtc"}

OfACrate ==
  {"xrw", "frw", "debugging_mode", "change_mode", "crate_init", "sm_reset",
   "read_local_voltage", "hv_readback", "xl3_rw", "xl3_queue_rw", "set_alarm_dac",
   "load_dac", "read_bundle", "setup_chinj", "fec_test", "mem_test", "vmon", "board_id",
   "zdisc", "cald_test", "ped_run", "see_refl", "disc_check", "fifo_test", "cgt_test",
   "mb_stability_test", "chinj_scan", "get_ttot", "set_ttot", "cmos_m_gtvalid",
   "crate_cbal"}

OfCrates ==
  {"run_pedestals", "run_pedestals_crate", "run_pedestals_end", "run_pedestals_end_crate",
   "trigger_scan", "find_noise"}

InTable(j) ==
  /\ j.name \in OfTheMtc \cup OfACrate \cup OfCrates
  /\ j.name \in OfTheMtc => j.crates = {}
  /\ j.name \in OfACrate => \E c \in Crates : j.crates = {c}
  /\ j.crates \subseteq Crates

ASSUME WorkersConstantsOK == \A t \in Threads : \A j \in Jobs[t] : InTable(j)

VARIABLES
  lock,    \* sbc_lock and xl3_lock, as in ThreadLocks
  sbc_up,  \* rw_sbc_fd > 0
  mtc,     \* MTCControlReg (two of its bits), MTCPmskReg, the pulser's counter
  mode,    \* of each XL3
  job,     \* [Threads -> what the thread was started for]
  todo,    \* [Threads -> the rest of its program]
  bufs,    \* [Threads -> the buffers it has allocated, and has freed]
  held,    \* [Threads -> devices locked for it and not unlocked yet] (history)
  calm     \* [Threads -> no free pulses when it began, no SBC lost] (history)

vars == <<lock, sbc_up, mtc, mode, job, todo, bufs, held, calm>>

NoBuffers == [live |-> {}, freed |-> {}]

Init ==
  /\ lock = [d \in Devices |-> 0]
  /\ sbc_up = FALSE
  /\ mtc = [control |-> {}, pmsk |-> {}, pulser |-> {}]
  /\ mode = [c \in Crates |-> "INIT_MODE"]
  /\ job = [t \in Threads |-> Idle]
  /\ todo = [t \in Threads |-> Nothing]
  /\ bufs = [t \in Threads |-> NoBuffers]
  /\ held = [t \in Threads |-> {}]
  /\ calm = [t \in Threads |-> TRUE]

-----------------------------------------------------------------------------

\* Pedestal pulses are sent to the crates of the mask without anyone's soft GT.
RunsFree ==
  {"PULSE_EN", "PED_EN"} \subseteq mtc.control /\ mtc.pulser = {"free"} /\ mtc.pmsk # {}

\* thread_and_lock succeeds and the handler creates the thread.
Start(t, j) ==
  /\ job[t] = Idle
  /\ \A d \in Handlers[j].devs : lock[d] = 0
  /\ Sbc \in Handlers[j].devs => sbc_up \/ Handlers[j].force
  /\ lock' = [d \in Devices |-> IF d \in Handlers[j].devs THEN 1 ELSE lock[d]]
  /\ job' = [job EXCEPT ![t] = j]
  /\ todo' = [todo EXCEPT ![t] = Handlers[j].program]
  /\ held' = [held EXCEPT ![t] = Handlers[j].devs]
  /\ calm' = [calm EXCEPT ![t] = ~RunsFree]
  /\ UNCHANGED <<sbc_up, mtc, mode, bufs>>

\* The thread function has returned.
Finish(t) ==
  /\ job[t] # Idle
  /\ todo[t] = Nothing
  /\ job' = [job EXCEPT ![t] = Idle]
  /\ bufs' = [bufs EXCEPT ![t] = NoBuffers]
  /\ calm' = [calm EXCEPT ![t] = TRUE]
  /\ UNCHANGED <<lock, sbc_up, mtc, mode, todo, held>>

At(t, ops) == todo[t] # Nothing /\ Head(todo[t]).op \in ops
Advance(t) == todo' = [todo EXCEPT ![t] = Tail(@)]

local == <<job, bufs, held, calm>>

\* A request that changes nothing kept here: to an XL3, to the MTC, a soft GT.
Ask(t) ==
  /\ At(t, {"access", "gt"})
  /\ Advance(t)
  /\ UNCHANGED <<lock, sbc_up, mtc, mode, local>>

\* Nothing reaches the MTC without a connection; the read-back is 0.
ChangeMtc(t) ==
  /\ At(t, {"mtc"})
  /\ LET s == Head(todo[t])
     IN mtc' = IF sbc_up THEN [mtc EXCEPT ![s.reg] = (@ \ s.off) \cup s.on] ELSE mtc
  /\ Advance(t)
  /\ UNCHANGED <<lock, sbc_up, mode, local>>

\* The user's register and value.
Poke(t) ==
  /\ At(t, {"poke"})
  /\ \/ mtc' = mtc
     \/ sbc_up /\ \E B \in SUBSET {"PULSE_EN", "PED_EN"} : mtc' = [mtc EXCEPT !.control = B]
     \/ sbc_up /\ \E C \in SUBSET MASKALL : mtc' = [mtc EXCEPT !.pmsk = C]
  /\ Advance(t)
  /\ UNCHANGED <<lock, sbc_up, mode, local>>

ChangeMode(t) ==
  /\ At(t, {"mode"})
  /\ LET s == Head(todo[t]) IN mode' = [mode EXCEPT ![s.crate] = s.to]
  /\ Advance(t)
  /\ UNCHANGED <<lock, sbc_up, mtc, local>>

\* sbc_control kills, connects or reconnects; connecting may fail.
Connect(t) ==
  /\ At(t, {"connect"})
  /\ sbc_up' \in BOOLEAN
  /\ Advance(t)
  /\ UNCHANGED <<lock, mtc, mode, local>>

\* A request to the MTC finds the connection closed and closes it.
LoseSbc(t) ==
  /\ sbc_up
  /\ \/ At(t, {"mtc", "gt", "poke"})
     \/ At(t, {"access"}) /\ Head(todo[t]).on = {Sbc}
  /\ sbc_up' = FALSE
  /\ calm' = [calm EXCEPT ![t] = FALSE]
  /\ Advance(t)
  /\ UNCHANGED <<lock, mtc, mode, job, bufs, held>>

\* temp_unlock and relock.
Lend(t) ==
  /\ At(t, {"lend"})
  /\ lock' = [lock EXCEPT ![Head(todo[t]).crate] = 2]
  /\ Advance(t)
  /\ UNCHANGED <<sbc_up, mtc, mode, local>>

Relock(t) ==
  /\ At(t, {"relock"})
  /\ lock' = [lock EXCEPT ![Head(todo[t]).crate] = 1]
  /\ Advance(t)
  /\ UNCHANGED <<sbc_up, mtc, mode, local>>

\* unthread_and_unlock.
End(t) ==
  /\ At(t, {"end"})
  /\ LET D == Head(todo[t]).on
     IN /\ lock' = [d \in Devices |-> IF d \in D THEN 0 ELSE lock[d]]
        /\ held' = [held EXCEPT ![t] = @ \ D]
  /\ Advance(t)
  /\ UNCHANGED <<sbc_up, mtc, mode, job, bufs, calm>>

Malloc(t) ==
  /\ At(t, {"malloc"})
  /\ LET B == Head(todo[t]).bufs
     IN bufs' = [bufs EXCEPT ![t] = [live |-> @.live \cup B, freed |-> @.freed \ B]]
  /\ Advance(t)
  /\ UNCHANGED <<lock, sbc_up, mtc, mode, job, held, calm>>

\* Freeing NULL does nothing.
Free(t) ==
  /\ At(t, {"free"})
  /\ LET B == Head(todo[t]).bufs
     IN bufs' = [bufs EXCEPT ![t] = [live  |-> @.live \ B,
                                    freed |-> @.freed \cup (@.live \cap B)]]
  /\ Advance(t)
  /\ UNCHANGED <<lock, sbc_up, mtc, mode, job, held, calm>>

Use(t) ==
  /\ At(t, {"store"})
  /\ Advance(t)
  /\ UNCHANGED <<lock, sbc_up, mtc, mode, local>>

Branch(t) ==
  /\ At(t, {"choose"})
  /\ \E p \in Head(todo[t]).alt : todo' = [todo EXCEPT ![t] = p \o Tail(@)]
  /\ UNCHANGED <<lock, sbc_up, mtc, mode, local>>

Loop(t) ==
  /\ At(t, {"loop"})
  /\ \/ todo' = [todo EXCEPT ![t] = Head(@).body \o @]
     \/ Advance(t)
  /\ UNCHANGED <<lock, sbc_up, mtc, mode, local>>

\* The lowest crate that is left is next.
ForEachCrate(t) ==
  /\ At(t, {"each"})
  /\ LET s == Head(todo[t])
     IN \/ s.left = {} /\ Advance(t)
        \/ \E c \in s.left :
             /\ \A d \in s.left : c <= d
             /\ todo' = [todo EXCEPT ![t] =
                          s.body[c] \o <<Each(s.left \ {c}, s.body)>> \o Tail(@)]
  /\ UNCHANGED <<lock, sbc_up, mtc, mode, local>>

ReturnEarly(t) ==
  /\ At(t, {"return"})
  /\ todo' = [todo EXCEPT ![t] = Head(@).rest]
  /\ UNCHANGED <<lock, sbc_up, mtc, mode, local>>

Next ==
  \E t \in Threads :
    \/ \E j \in Jobs[t] : Start(t, j)
    \/ Finish(t)
    \/ Ask(t) \/ ChangeMtc(t) \/ Poke(t) \/ ChangeMode(t) \/ Connect(t) \/ LoseSbc(t)
    \/ Lend(t) \/ Relock(t) \/ End(t)
    \/ Malloc(t) \/ Free(t) \/ Use(t)
    \/ Branch(t) \/ Loop(t) \/ ForEachCrate(t) \/ ReturnEarly(t)

Spec == Init /\ [][Next]_vars

-----------------------------------------------------------------------------
(* Properties                                                               *)

\* Each variable keeps to its type; the mask has no bit but those of crates and TUB.
WTypeOK ==
  /\ lock \in [Devices -> 0 .. 2]
  /\ sbc_up \in BOOLEAN
  /\ mtc \in [control : SUBSET {"PULSE_EN", "PED_EN"}, pmsk : SUBSET MASKALL,
              pulser : SUBSET {"free"}]
  /\ mode \in [Crates -> {"INIT_MODE", "NORMAL_MODE"}]
  /\ \A t \in Threads : job[t] \in Jobs[t] \cup {Idle}
  /\ held \in [Threads -> SUBSET Devices]
  /\ calm \in [Threads -> BOOLEAN]

Touched(s) ==
  CASE s.op \in {"access", "end"}                -> s.on
    [] s.op \in {"mtc", "poke", "gt", "connect"} -> {Sbc}
    [] s.op \in {"mode", "lend", "relock"}        -> {s.crate}
    [] OTHER                                     -> {}

\* A command talks to no device but those its handler locked, none that it has
\* already unlocked, and to no crate while the crate is lent to the main loop, which
\* would take the answer for itself: whatever path through the test it takes.
TouchesOwn ==
  \A t \in Threads : todo[t] # Nothing =>
    LET s == Head(todo[t])
    IN /\ Touched(s) \subseteq held[t]
       /\ s.op \in {"access", "mode"} => \A d \in Touched(s) : lock[d] = 1

\* On every path, the early exits included, a thread gives back each device it was
\* started with before it ends: a device is locked exactly while one thread has it.
LocksComeBack ==
  /\ \A d \in Devices : (lock[d] # 0) <=> \E t \in Threads : d \in held[t]
  /\ \A t, u \in Threads : t # u => held[t] \cap held[u] = {}
  /\ \A t \in Threads : todo[t] = Nothing => held[t] = {}

\* readout_data of fifo_test, and of cald_test the buffer whose twin was NULL.
Leaky == {"fifo_test", "cald_test"}

\* They do not look whether malloc gave them the buffers they write to.
Unchecked == {"ped_run", "find_noise"}

\* No test writes to a buffer that it has freed, or frees one twice; but for Unchecked
\* none writes to one that malloc did not give it; and on every path, but for Leaky,
\* all buffers are given back.
BuffersSound ==
  \A t \in Threads :
    /\ At(t, {"store"}) =>
         LET B == Head(todo[t]).bufs
         IN IF job[t].name \in Unchecked THEN B \cap bufs[t].freed = {}
                                         ELSE B \subseteq bufs[t].live
    /\ At(t, {"free"}) => Head(todo[t]).bufs \cap bufs[t].freed = {}
    /\ todo[t] = Nothing /\ job[t].name \notin Leaky => bufs[t].live = {}

\* A test that fires soft GTs sends pedestals to its own crates (and the TUB) only,
\* whatever masks earlier commands and tests have left in the MTC.
OwnPulses ==
  \A t \in Threads :
    At(t, {"gt"}) /\ sbc_up /\ job[t].crates # {} => mtc.pmsk \subseteq job[t].crates \cup {Tub}

\* Those that are given to set up pulses, and see_refl, whose "quit" leaves them on.
LeavePulses ==
  {"set_ped_crate_mask", "enable_pulser", "enable_pedestal", "set_pulser_freq",
   "mrw", "mtc_write", "run_pedestals", "run_pedestals_mtc", "see_refl"}

\* No other command or test, on any path, leaves the MTC sending free running pulses
\* to crates when it unlocks it (if none ran before, and the SBC was there throughout).
PulserQuiet ==
  \A t \in Threads :
    At(t, {"end"}) /\ calm[t] /\ Sbc \in Head(todo[t]).on /\ job[t].name \notin LeavePulses
      => ~RunsFree

\* run_pedestals.c:296: "put all the crates back into init mode so they stop reading
\* out", for the crates run_pedestals_end is given.
EndStopsReadout ==
  \A t \in Threads :
    At(t, {"end"}) /\ job[t].name \in {"run_pedestals_end", "run_pedestals_end_crate"}
      => \A c \in job[t].crates : mode[c] = "INIT_MODE"
=============================================================================
