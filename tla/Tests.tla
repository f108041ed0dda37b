--------------------------------- MODULE Tests ---------------------------------
(***************************************************************************)
(* The hardware tests (src/src/tests): what they do to the devices they    *)
(* have locked and with the buffers they allocate.                         *)
(*                                                                         *)
(* An error exit that the code can never take, because the function it     *)
(* asks always returns 0 or its arguments are constants in range, is not   *)
(* there.                                                                  *)
(***************************************************************************)
EXTENDS Commands

\* Bug: unthread_and_unlock(1, 0, ...).
MtcExits_sbc_only(c) == unthread_and_unlock({Sbc})

MtcExits(c) == unthread_and_unlock({Sbc, c})
MtcTest(c, p) == Handler({Sbc, c}, p \o MtcExits(c))

\* With -d each slot tested gets a document.
Documents(c) == While(post_debug_doc(c))
Document(c)  == Maybe(post_debug_doc(c))

-----------------------------------------------------------------------------
(* Tests an XL3 runs by itself                                              *)

fec_test(c) == Xl3Command(c, do_xl3_cmd(c) \o Documents(c))
mem_test(c) ==
  Xl3Command(c, update_crate_config(c) \o do_xl3_cmd(c) \o Maybe(post_debug_doc_mem_test))
vmon(c)     == Xl3Command(c, While(do_xl3_cmd(c)) \o Documents(c))
board_id(c) == Xl3Command(c, While(do_xl3_cmd(c)))
zdisc(c)    == Xl3Command(c, While(do_xl3_cmd(c) \o Document(c)))

\* If one of the buffers cannot be had the other is not given back.
cald_test(c) ==
  LET buffers == {"point_buf", "adc_buf"}
  IN Xl3Command(c,
       malloc_or(buffers, Xl3Exit(c))
       \o do_xl3_cmd_no_response(c) \o wait_for_results(c) \o Store(buffers)
       \o Documents(c) \o free(buffers))

-----------------------------------------------------------------------------
(* tests/ped_run.c and tests/see_refl.c take the pulser frequency, the      *)
(* pedestal width and the delay from the user.                              *)

\* Bug: the early exit forgets the pedestal masks.
ped_run_masks_left(c) ==
  LET buffers == {"pmt_buffer", "ped"}
      Failed  == free(buffers) \o MtcExits(c)
      Pulse(f) ==
        setup_pedestals({f}, {"ok", "bad"}, {c}, Failed)
        \o (IF f = "soft" THEN While(multi_softgt) ELSE Nothing)
  IN Handler({Sbc, c}, malloc_unchecked(buffers,
       StartPedestals(c) \o Choose({Pulse(f) : f \in {"soft", "free", "bad"}}) \o disable_pulser
       \o While(read_out_bundles(c, "pmt_buffer") \o Store({"ped"}) \o Document(c))
       \o free(buffers) \o unset_masks
       \o set_crate_pedestals(c, FALSE) \o deselect_fecs(c) \o MtcExits(c)))

\* Nobody looks whether the buffers could be had.
ped_run(c) ==
  LET buffers == {"pmt_buffer", "ped"}
      Failed  == unset_masks \o free(buffers) \o MtcExits(c)
      Pulse(f) ==
        setup_pedestals({f}, {"ok", "bad"}, {c}, Failed)
        \o (IF f = "soft" THEN While(multi_softgt) ELSE Nothing)
  IN Handler({Sbc, c}, malloc_unchecked(buffers,
       StartPedestals(c) \o Choose({Pulse(f) : f \in {"soft", "free", "bad"}}) \o disable_pulser
       \o While(read_out_bundles(c, "pmt_buffer") \o Store({"ped"}) \o Document(c))
       \o free(buffers) \o unset_masks
       \o set_crate_pedestals(c, FALSE) \o deselect_fecs(c) \o MtcExits(c)))

\* "quit" leaves the pulser running.  What the test does to running_final_test, on
\* which of its exits, is the subject of Sessions.
see_refl(c) ==
  LET Channel == set_crate_pedestals(c, TRUE) \o setup_chinj(c) \o MayFail(MtcExits(c))
      Pulse(f) == setup_pedestals({f}, {"ok"}, {c}, unset_masks \o MtcExits(c))
  IN MtcTest(c,
       Choose({Pulse(f) : f \in {"soft", "free", "bad"}})
       \o While(While(Channel) \o setup_chinj(c) \o Document(c))
       \o disable_pulser \o deselect_fecs(c))

-----------------------------------------------------------------------------
(* Tests with soft GTs                                                      *)

\* The crate's counters start at 0 and it is pulsed together with the TUB.
StartCounting(c) ==
  reset_memory \o set_gt_counter \o setup_softgt_pedestals({c, Tub})

\* The crate is lent to the main loop while the MTC fires.
FireUnlocked(c) == temp_unlock(c) \o While(multi_softgt) \o relock(c)

disc_check(c) ==
  MtcTest(c,
    StartCounting(c) \o While(xl3_rw(c)) \o deselect_fecs(c)
    \o get_cmos_total_count(c) \o get_cmos_total_count(c)
    \o FireUnlocked(c)
    \o get_cmos_total_count(c) \o get_cmos_total_count(c)
    \o Documents(c))

check_fifo(c) == xl3_rws(c)

\* Bug: the crate is not taken back before it is read.
fifo_test_lent(c) ==
  MtcTest(c,
    malloc_or({"readout_data"}, MtcExits(c))
    \o StartCounting(c)
    \o While(xl3_rw(c) \o MayFail(MtcExits(c)))
    \o set_crate_pedestals(c, TRUE)
    \o While(check_fifo(c) \o get_gt_count)
    \o temp_unlock(c) \o While(multi_softgt)
    \o While(get_gt_count \o check_fifo(c)))

\* readout_data is never freed.
fifo_test(c) ==
  LET Fill == multi_softgt \o check_fifo(c)
      Slot == get_gt_count \o check_fifo(c) \o set_crate_pedestals(c, TRUE)
              \o FireUnlocked(c) \o check_fifo(c)
              \o While(xl3_rw(c)) \o check_fifo(c) \o Fill
              \o While(xl3_rw(c)) \o check_fifo(c)
              \o read_out_bundles(c, "readout_data") \o check_fifo(c)
              \o While(xl3_rw(c)) \o deselect_fecs(c) \o Document(c)
  IN MtcTest(c,
       malloc_or({"readout_data"}, MtcExits(c))
       \o StartCounting(c)
       \o While(xl3_rw(c) \o MayFail(MtcExits(c)))
       \o set_crate_pedestals(c, TRUE)
       \o While(check_fifo(c) \o get_gt_count)
       \o FireUnlocked(c)
       \o While(Slot))

\* Sixteen times up to 0xFFFF GTs; then one more, and every bundle is read.
cgt_test(c) ==
  LET Rollover == multi_softgt \o While(xl3_rw(c)) \o do_xl3_cmd(c)
                  \o While(xl3_rw(c)) \o send_softgt \o While(xl3_rw(c))
  IN MtcTest(c,
       StartCounting(c) \o While(xl3_rw(c)) \o deselect_fecs(c)
       \o set_crate_pedestals(c, TRUE) \o deselect_fecs(c)
       \o While(Rollover) \o Documents(c))

mb_stability_test(c) ==
  LET Shot == While(xl3_rw(c)) \o deselect_fecs(c) \o send_softgt
              \o While(xl3_rw(c)) \o While(xl3_rws(c))
  IN MtcTest(c,
       StartCounting(c) \o While(xl3_rw(c)) \o deselect_fecs(c)
       \o set_crate_pedestals(c, TRUE) \o deselect_fecs(c)
       \o While(Shot) \o Documents(c))

-----------------------------------------------------------------------------
(* tests/chinj_scan.c                                                       *)

Results == {"qhls", "qhss", "qlxs", "tacs", "scan_errors"}
Readout == {"pmt_buffer", "ped"}

Scan(c, widths, ped, Failed) ==
  reset_slots(c) \o deselect_fecs(c) \o fec_load_crate_addr(c)
  \o Maybe(set_crate_pedestals(c, TRUE)) \o deselect_fecs(c) \o setup_chinj(c)
  \o setup_pedestals({"soft"}, widths, ped, Failed)
  \o multi_softgt
  \o While(read_out_bundles(c, "pmt_buffer") \o Store({"ped"}) \o Store(Results))
  \o unset_masks \o set_crate_pedestals(c, FALSE) \o deselect_fecs(c)

\* free(NULL) does nothing, so Quit may free all of them.
chinj_scan(c) ==
  LET buffers == Readout \cup Results
      Quit    == free(buffers) \o MtcExits(c)
  IN MtcTest(c,
       malloc_or(buffers, Quit)
       \o While(Scan(c, {"ok", "bad"}, {c}, unset_masks \o Quit))
       \o free(Readout) \o Documents(c) \o free(Results))

-----------------------------------------------------------------------------
(* tests/ttot.c                                                             *)

\* One point of a measurement: a delay is set, again until it is right, and hits
\* are counted around the GTs.
CountHits(c) ==
  set_gt_delay \o While(set_gt_delay)
  \o get_cmos_total_count(c) \o multi_softgt \o get_cmos_total_count(c)

\* Per slot; the loop over the channels, which shares its j with the loops in it,
\* ends after the first.
disc_m_ttot(c) ==
  While(set_crate_pedestals(c, TRUE) \o While(CountHits(c))
        \o set_crate_pedestals(c, TRUE) \o CountHits(c))
disc_check_ttot(c) == set_crate_pedestals(c, TRUE) \o CountHits(c) \o CountHits(c)

get_ttot(c) ==
  MtcTest(c, setup_softgt_pedestals({c, Tub}) \o disc_m_ttot(c) \o Documents(c))

\* Per slot the discriminator width is lowered step by step, first for all, then
\* channel by channel.
set_ttot(c) ==
  LET Slot == multi_loadsDac(c) \o While(disc_check_ttot(c)) \o multi_loadsDac(c)
              \o While(disc_check_ttot(c) \o multi_loadsDac(c)) \o multi_loadsDac(c)
              \o disc_m_ttot(c) \o Document(c)
  IN MtcTest(c, setup_softgt_pedestals({c, Tub}) \o While(Slot))

-----------------------------------------------------------------------------
(* tests/cmos_m_gtvalid.c                                                   *)

\* The delay at which a channel's GTVALID ends is searched; it always returns 0.
get_gtdelay(c) ==
  LET Try == xl3_rws(c) \o set_gt_delay \o multi_softgt \o xl3_rw(c)
  IN loadsDac(c) \o While(Try) \o Maybe(loadsDac(c) \o Try) \o loadsDac(c) \o loadsDac(c)

cmos_m_gtvalid(c) ==
  LET LoadOrQuit == loadsDac(c) \o MayFail(MtcExits(c))
      Measure    == While(xl3_rw(c) \o get_gtdelay(c))
      Tac == Maybe(While(LoadOrQuit) \o do_xl3_cmd(c))
             \o Measure
             \o Maybe(While(LoadOrQuit \o xl3_rw(c) \o get_gtdelay(c)) \o Measure
                      \o While(loadsDac(c) \o xl3_rw(c) \o get_gtdelay(c))
                      \o While(Measure \o do_xl3_cmd(c)) \o Measure)
  IN MtcTest(c,
       While(xl3_rw(c)) \o deselect_fecs(c) \o setup_softgt_pedestals({c})
       \o While(While(Tac) \o xl3_rw(c) \o Document(c)))

-----------------------------------------------------------------------------
(* tests/crate_cbal.c                                                       *)

get_pedestal(c) ==
  xl3_rws(c) \o multi_softgt \o xl3_rw(c)
  \o While(do_xl3_cmd(c) \o Maybe(wait_for_results(c) \o Store({"pmt_buf"})))

\* A slot whose DACs cannot be set is skipped.
crate_cbal(c) ==
  LET Gains == While(multi_loadsDac(c) \o get_pedestal(c) \o Maybe(xl3_rw(c)))
      Slot  == xl3_rw(c) \o multi_loadsDac(c)
               \o Maybe(Gains \o xl3_rw(c) \o deselect_fecs(c) \o Document(c))
  IN MtcTest(c,
       malloc_or({"pmt_buf"}, MtcExits(c))
       \o setup_softgt_pedestals({c, Tub}) \o While(Slot)
       \o free({"pmt_buf"}))

-----------------------------------------------------------------------------
(* Tests of several crates: tests/trigger_scan.c and tests/find_noise.c     *)

trigger_scan(C) ==
  LET D == C \cup {Sbc}
      Masks     == ForCrates([c \in C |-> While(xl3_rw(c))])
      Threshold == unset_gt_mask \o load_mtca_dacs \o set_gt_mask
      Nhit      == Masks \o get_gt_count \o multi_softgt \o get_gt_count
  IN Handler(D,
       setup_softgt_pedestals(C) \o Masks
       \o While(Threshold \o While(Nhit))
       \o unset_gt_mask \o unthread_and_unlock(D))

\* The zero thresholds of every board are read first; that may fail.  Nobody looks
\* whether the buffers could be had.
find_noise(C) ==
  LET D == C \cup {Sbc}
      Counts      == {"base_noise", "readout_noise"}
      Quit(p)     == unthread_and_unlock(D) \o p
      FreeAll     == free({"vthr_zeros"} \cup Counts)
      Zeros(c)    == Maybe(update_crate_config(c)) \o MayFail(Quit(free({"vthr_zeros"})))
                     \o Store({"vthr_zeros"})
      AllZeros    == ForCrates([c \in C |-> Zeros(c)])
      LoadZeros   == ForCrates([c \in C |->
                       While(multi_loadsDac(c) \o MayFail(Quit(FreeAll)))])
      Reset       == ForCrates([c \in C |-> do_xl3_cmd(c) \o While(xl3_rw(c))])
      Mask        == ForCrates([c \in C |-> While(xl3_rw(c))])
      ReadNoise   == ForCrates([c \in C |-> do_xl3_cmd(c) \o Store(Counts)])
      Lower       == ForCrates([c \in C |-> While(loadsDac(c))])
  IN Handler(D,
       malloc_unchecked({"vthr_zeros"}, AllZeros \o malloc_unchecked(Counts,
         setup_softgt_pedestals(C)
         \o LoadZeros \o Reset \o Mask
         \o While(Mask \o While(multi_softgt \o ReadNoise) \o Lower)
         \o ForCrates([c \in C |-> Documents(c)])
         \o FreeAll \o unthread_and_unlock(D))))
=============================================================================
