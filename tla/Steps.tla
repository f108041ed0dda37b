--------------------------------- MODULE Steps ---------------------------------
(***************************************************************************)
(* What the commands and hardware tests of penn_daq are made of.  A thread *)
(* function is a program: a sequence of steps, written with the names of   *)
(* the C functions it calls.  The module Workers runs programs.            *)
(*                                                                         *)
(* A step talks to hardware, changes a register of the MTC or of an XL3,   *)
(* allocates or frees a buffer, lends a crate to the main loop, takes it   *)
(* back, or decides how the program goes on.  What is measured, computed,  *)
(* printed and posted is left out; where it decides the control flow the   *)
(* program has a choice.  Requests to an XL3 take effect; whether they are *)
(* answered is one of these choices.                                       *)
(***************************************************************************)
EXTENDS Integers, Sequences

CONSTANTS
  NumCrates,     \* XL3s (19 in the code)
  PennTeststand  \* CURRENT_LOCATION == PENN_TESTSTAND

ASSUME StepsConstantsOK == NumCrates \in Nat \ {0} /\ PennTeststand \in BOOLEAN

\* The devices of thread_and_lock, as in ThreadLocks: crate number i is i + 1.
Sbc        == 0
Crates     == 1 .. NumCrates
FirstCrate == 1
Devices    == {Sbc} \cup Crates

\* The bits of a crate mask: the crates and the TUB (MSK_TUB), which is no XL3.
Tub     == -1
MASKALL == Crates \cup {Tub}

-----------------------------------------------------------------------------
(* Control flow                                                             *)

Nothing     == <<>>
Choose(alt) == <<[op |-> "choose", alt |-> alt]>>  \* one of a set of programs
Maybe(p)    == Choose({p, Nothing})
While(p)    == <<[op |-> "loop", body |-> p]>>     \* any number of times
Return(p)   == <<[op |-> "return", rest |-> p]>>   \* p ends the thread
MayFail(p)  == Maybe(Return(p))

\* for (i = 0; i < 19; i++) if ((1 << i) & mask): the programs of a function of
\* crates, in the order of the crates.
Each(C, body)   == [op |-> "each", left |-> C, body |-> body]
ForCrates(body) == <<Each(DOMAIN body, body)>>

-----------------------------------------------------------------------------
(* Memory and locks                                                         *)

malloc(B) == <<[op |-> "malloc", bufs |-> B]>>
free(B)   == <<[op |-> "free", bufs |-> B]>>
Store(B)  == <<[op |-> "store", bufs |-> B]>>  \* they are written or read

\* Bug: malloc's results are not looked at.
malloc_never_failing(B, failed) ==
  Choose({malloc(B)} \cup {malloc(B \ {b}) : b \in B})

\* malloc's results are looked at; at most one of them is NULL.
malloc_or(B, failed) ==
  Choose({malloc(B)} \cup {malloc(B \ {b}) \o Return(failed) : b \in B})

\* malloc's results are not looked at: whichever of them are NULL, the thread goes on
\* with p, the rest of it.
malloc_unchecked(B, p) == Choose({malloc(A) \o Return(p) : A \in SUBSET B})

unthread_and_unlock(D) == <<[op |-> "end", on |-> D]>>

\* The main loop reads what the XL3 sends as long as the crate is lent to it.
temp_unlock(c) == <<[op |-> "lend", crate |-> c]>>
relock(c)      == <<[op |-> "relock", crate |-> c]>>

-----------------------------------------------------------------------------
(* The MTC (mtc/mtc_rw.c, mtc/mtc_utils.c).  Its state is what decides      *)
(* which crates get pedestal pulses: the enable bits of MTCControlReg, the  *)
(* pedestal crate mask MTCPmskReg and whether the pulser runs freely or     *)
(* waits for soft GTs.  The other registers are written but not kept.       *)

mtc_access == <<[op |-> "access", on |-> {Sbc}]>>
\* An mtc_reg_write of some register with some value.
mtc_poke   == <<[op |-> "poke"]>>
\* temp & ~off | on, read from the register and written back.
Rmw(reg, off, on) == <<[op |-> "mtc", reg |-> reg, off |-> off, on |-> on]>>

send_softgt  == <<[op |-> "gt"]>>
multi_softgt == <<[op |-> "gt"]>>
get_gt_count == mtc_access

enable_pulser    == Rmw("control", {}, {"PULSE_EN"})
disable_pulser   == Rmw("control", {"PULSE_EN"}, {})
enable_pedestal  == Rmw("control", {}, {"PED_EN"})
disable_pedestal == Rmw("control", {"PED_EN"}, {})

load_mtca_dacs      == mtc_access
unset_gt_mask       == mtc_access
set_gt_mask         == mtc_access
unset_gt_crate_mask == mtc_access
set_gt_crate_mask   == mtc_access
reset_memory        == mtc_access
set_gt_counter      == mtc_access

\* Bug: crate numbers instead of the bits of a mask.
set_ped_crate_numbers(C) == Rmw("pmsk", {}, {c - 1 : c \in C})

unset_ped_crate_mask(C) == Rmw("pmsk", C, {})
set_ped_crate_mask(C)   == Rmw("pmsk", {}, IF PennTeststand THEN MASKALL ELSE C)

\* An argument is out of range or "ok"; p is what the caller does with the error.
Checked(x, p) == IF x = "bad" THEN p ELSE mtc_access

set_lockout_width(w, p)  == Checked(w, p)
set_prescale(w, p)       == Checked(w, p)
set_pedestal_width(w, p) == Checked(w, p)
set_coarse_delay(w, p)   == Checked(w, p)

\* The slope comes from the database; without it, or out of range, nothing is set.
set_fine_delay == Maybe(mtc_access)
set_gt_delay   == set_coarse_delay("ok", Nothing) \o set_fine_delay

\* "soft" is a frequency of at most 1.0e-3, "free" a higher one.
set_pulser_frequency(f, p) ==
  IF f = "bad" THEN p
  ELSE Rmw("pulser", {"free"}, IF f = "free" THEN {"free"} ELSE {})

\* Bug: the crates of the test before keep their pedestals.
setup_pedestals_added(freqs, widths, ped, failed) ==
  LET Freq  == Choose({set_pulser_frequency(f, Return(failed)) : f \in freqs})
      Width == Choose({set_pedestal_width(w, Return(failed)) : w \in widths})
      Delay == Choose({set_coarse_delay(w, Return(failed)) : w \in widths})
  IN set_lockout_width("ok", Nothing) \o Freq \o Width \o Delay \o set_fine_delay
     \o enable_pulser \o enable_pedestal
     \o unset_gt_crate_mask
     \o set_ped_crate_mask(ped) \o set_gt_crate_mask \o set_gt_mask

\* The frequency is one of freqs, the width and the delay are one of widths.
setup_pedestals(freqs, widths, ped, failed) ==
  LET Freq  == Choose({set_pulser_frequency(f, Return(failed)) : f \in freqs})
      Width == Choose({set_pedestal_width(w, Return(failed)) : w \in widths})
      Delay == Choose({set_coarse_delay(w, Return(failed)) : w \in widths})
  IN set_lockout_width("ok", Nothing) \o Freq \o Width \o Delay \o set_fine_delay
     \o enable_pulser \o enable_pedestal
     \o unset_ped_crate_mask(MASKALL) \o unset_gt_crate_mask
     \o set_ped_crate_mask(ped) \o set_gt_crate_mask \o set_gt_mask

\* With a frequency of 0 and the default widths it cannot fail.
setup_softgt_pedestals(ped) == setup_pedestals({"soft"}, {"ok"}, ped, Nothing)

\* The file may be missing, the SBC may report an error.
mtc_xilinx_load(failed) == MayFail(failed) \o mtc_access \o MayFail(failed)

-----------------------------------------------------------------------------
(* The XL3s and the boards behind them (xl3/xl3_rw.c, xl3/xl3_utils.c,      *)
(* fec/fec_utils.c).  Kept is the mode: in NORMAL_MODE the XL3 reads out.   *)

do_xl3_cmd(c)             == <<[op |-> "access", on |-> {c}]>>
do_xl3_cmd_no_response(c) == do_xl3_cmd(c)
wait_for_results(c)       == do_xl3_cmd(c)
xl3_rw(c)                 == do_xl3_cmd(c)
xl3_rws(c)                == do_xl3_cmd(c)  \* several in a row

deselect_fecs(c) == do_xl3_cmd(c)
\* A request for the board numbers and deselect_fecs.
update_crate_config(c) == xl3_rws(c)
change_mode(mode, c) == <<[op |-> "mode", crate |-> c, to |-> mode]>>

get_cmos_total_count(c) == Maybe(do_xl3_cmd(c))
multi_loadsDac(c) == do_xl3_cmd(c)
loadsDac(c)       == do_xl3_cmd(c)

\* It reads in portions, until the number the FIFO pointers gave has come.
read_out_bundles(c, b) ==
  xl3_rw(c) \o While(do_xl3_cmd(c) \o Maybe(wait_for_results(c) \o Store({b})))
  \o deselect_fecs(c)

fec_load_crate_addr(c) == While(xl3_rw(c)) \o deselect_fecs(c)
set_crate_pedestals(c, pattern) == do_xl3_cmd(c)

\* The CMOS chips are disabled, the FIFO and the sequencer reset, chips enabled.
reset_slots(c) == While(xl3_rws(c))

-----------------------------------------------------------------------------
(* The database (db/db.c): a document names the boards, which the XL3 is    *)
(* asked for first.                                                         *)

post_debug_doc(c)         == update_crate_config(c)
post_debug_doc_with_id(c) == update_crate_config(c)
post_debug_doc_mem_test   == Nothing
=============================================================================
