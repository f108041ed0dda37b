------------------------------- MODULE Commands -------------------------------
(***************************************************************************)
(* The commands that are not tests: register and board access, the MTC     *)
(* commands, the initialisation of MTC and crates, and run_pedestals.      *)
(*                                                                         *)
(* A command is a record of the devices its handler passes to              *)
(* thread_and_lock, whether the SBC may be unconnected, and the program of *)
(* its thread function.  What the user may choose (registers, values,      *)
(* masks, options) is a choice in the program.                             *)
(***************************************************************************)
EXTENDS Steps

Handler(D, p)      == [devs |-> D, force |-> FALSE, program |-> p]
MtcCommand(p)      == Handler({Sbc}, p \o unthread_and_unlock({Sbc}))
Xl3Command(c, p)   == Handler({c}, p \o unthread_and_unlock({c}))
MtcExit            == unthread_and_unlock({Sbc})
Xl3Exit(c)         == unthread_and_unlock({c})

-----------------------------------------------------------------------------
(* mtc/mtc_cmds.c                                                           *)

\* Locks the SBC even if it is not connected (2, 0), and connects it.
sbc_control == [devs |-> {Sbc}, force |-> TRUE,
                program |-> <<[op |-> "connect"]>> \o MtcExit]

mrw == MtcCommand(Maybe(Return(MtcExit)) \o Choose({mtc_access, mtc_poke}))
mtc_read  == MtcCommand(mtc_access)
mtc_write == MtcCommand(mtc_poke)
set_mtca_thresholds   == MtcCommand(load_mtca_dacs)
cmd_set_gt_mask       == MtcCommand(Maybe(mtc_access) \o set_gt_mask)
cmd_set_gt_crate_mask == MtcCommand(Maybe(mtc_access) \o set_gt_crate_mask)

\* The mask replaces the old one or, with -o, is added to it.
cmd_set_ped_crate_mask ==
  MtcCommand(Choose({Rmw("pmsk", off, C) : off \in {MASKALL, {}}, C \in SUBSET MASKALL}))

cmd_enable_pulser    == MtcCommand(enable_pulser)
cmd_disable_pulser   == MtcCommand(disable_pulser)
cmd_enable_pedestal  == MtcCommand(enable_pedestal)
cmd_disable_pedestal == MtcCommand(disable_pedestal)

set_pulser_freq ==
  MtcCommand(Choose({set_pulser_frequency(f, Nothing) : f \in {"soft", "free", "bad"}}))

cmd_send_softgt  == MtcCommand(send_softgt)
cmd_multi_softgt == MtcCommand(multi_softgt)

-----------------------------------------------------------------------------
(* mtc/mtc_init.c                                                           *)

\* Without -x, errors is tested without having been set.
LoadXilinx == Choose({mtc_xilinx_load(MtcExit), Return(MtcExit), Nothing})

\* The values come from the MTC document of the database.
LoadMtcdValues ==
  LET Values == {"ok", "bad"}
  IN Choose({set_lockout_width(x, Nothing) : x \in Values})
     \o set_gt_counter
     \o Choose({set_prescale(x, Nothing) : x \in Values})
     \o Choose({set_pulser_frequency(f, Nothing) : f \in {"soft", "free", "bad"}})
     \o Choose({set_pedestal_width(x, Nothing) : x \in Values})
     \o Choose({set_coarse_delay(x, Nothing) : x \in Values}) \o set_fine_delay

mtc_init ==
  LET FreeAndExit == free({"mtc"}) \o MtcExit
  IN MtcCommand(
       LoadXilinx
       \o malloc_or({"mtc"}, FreeAndExit)
       \o MayFail(FreeAndExit) \o Store({"mtc"})
       \o unset_gt_mask \o unset_ped_crate_mask(MASKALL) \o unset_gt_crate_mask
       \o load_mtca_dacs
       \o Rmw("control", {"PULSE_EN", "PED_EN"}, {})
       \o LoadMtcdValues \o reset_memory
       \o free({"mtc"}))

-----------------------------------------------------------------------------
(* xl3/xl3_cmds.c and fec/fec_cmds.c: one crate each                        *)

xrw(c) == Xl3Command(c, MayFail(Xl3Exit(c)) \o xl3_rw(c))
frw(c) == Xl3Command(c, MayFail(Xl3Exit(c)) \o xl3_rw(c))
sm_reset(c)    == Xl3Command(c, do_xl3_cmd(c))
cmd_xl3_rw(c)  == Xl3Command(c, xl3_rw(c))

xl3_queue_rw(c) ==
  Xl3Command(c, do_xl3_cmd(c) \o MayFail(Xl3Exit(c))
                \o wait_for_results(c) \o MayFail(Xl3Exit(c)))

debugging_mode(c)     == Xl3Command(c, do_xl3_cmd(c))
read_local_voltage(c) == Xl3Command(c, do_xl3_cmd(c))
hv_readback(c)        == Xl3Command(c, do_xl3_cmd(c))
set_alarm_dac(c)      == Xl3Command(c, do_xl3_cmd(c))

cmd_change_mode(c) ==
  Xl3Command(c, Choose({change_mode("INIT_MODE", c), change_mode("NORMAL_MODE", c)}))

read_bundle(c) ==
  Xl3Command(c, xl3_rws(c) \o MayFail(Xl3Exit(c)))
cmd_load_dac(c) == Xl3Command(c, loadsDac(c))

\* Per slot: the bits of the channel mask are shifted in, HVLOAD is pulsed, the
\* charge is set.
setup_chinj(c) ==
  While(While(xl3_rws(c)) \o xl3_rws(c) \o loadsDac(c))
  \o deselect_fecs(c)
cmd_setup_chinj(c) == Xl3Command(c, setup_chinj(c))

-----------------------------------------------------------------------------
(* crate/crate_init.c: the constants of the 16 boards are sent one by one,  *)
(* then the board numbers are read.  Each look into the database may fail.  *)

crate_init(c) ==
  LET DatabaseMayFail == MayFail(Xl3Exit(c))
  IN Xl3Command(c,
       DatabaseMayFail \o Maybe(update_crate_config(c))
       \o While(DatabaseMayFail \o do_xl3_cmd_no_response(c))
       \o DatabaseMayFail \o do_xl3_cmd(c))

-----------------------------------------------------------------------------
(* crate/run_pedestals.c, for the crates C, with or without the MTC         *)

StartPedestals(c) ==
  change_mode("INIT_MODE", c) \o reset_slots(c) \o deselect_fecs(c)
  \o fec_load_crate_addr(c) \o set_crate_pedestals(c, TRUE) \o deselect_fecs(c)

ReadOut(c) == change_mode("NORMAL_MODE", c)

unset_masks == unset_ped_crate_mask(MASKALL) \o unset_gt_crate_mask

run_pedestals(mtc, C) ==
  LET D == C \cup (IF mtc THEN {Sbc} ELSE {})
      Failed == unset_masks \o unthread_and_unlock(D)
  IN Handler(D,
       ForCrates([c \in C |-> StartPedestals(c)])
       \o (IF mtc THEN setup_pedestals({"soft", "free", "bad"}, {"ok", "bad"},
                                       C \cup {Tub}, Failed)
                  ELSE Nothing)
       \o ForCrates([c \in C |-> ReadOut(c)])
       \o unthread_and_unlock(D))

\* change_mode(INIT_MODE, arg.crate, 0x0, ...): the crate number is 0.
StopPedestals(c) == change_mode("INIT_MODE", FirstCrate) \o set_crate_pedestals(c, FALSE)

run_pedestals_end(mtc, C) ==
  LET D == C \cup (IF mtc THEN {Sbc} ELSE {})
  IN Handler(D,
       ForCrates([c \in C |-> StopPedestals(c)])
       \o (IF mtc THEN disable_pulser \o disable_pedestal \o unset_masks ELSE Nothing)
       \o unthread_and_unlock(D))
=============================================================================
