------------------------------- MODULE MCSessions -------------------------------
(* A short final test and a short ECAL on one crate. *)
EXTENDS Sessions, TLC

See(S) == [devs |-> S, force |-> FALSE, name |-> "see_refl"]
Do(op, r, S, o) == [op |-> op, req |-> r, devs |-> S, opt |-> o]

\* final_test is (2, 1<<c) and, as everything it issues itself, concerns one crate.
MCFinalTest == Other({0, 1}, TRUE)

MCFinalTestRequests == {MCFinalTest, Other({1}, FALSE), Other({0}, FALSE)}
MCLiveRequests      == {MCFinalTest, Other({1}, FALSE)}

\* final_test.c 94-136 (welcome, crate_init, sbc, mtc_init, quit prompt), one of
\* the tests that follow, and 548-558 (the documents are posted).
MCFinalTestScript ==
  << Do("prompt", NoRequest, {}, FALSE),
     Do("cmd", Other({1}, FALSE), {1}, TRUE),
     Do("connect", NoRequest, {}, FALSE),
     Do("cmd", Other({0}, FALSE), {0, 1}, FALSE),
     Do("prompt", NoRequest, {0, 1}, TRUE),
     Do("cmd", Other({0, 1}, FALSE), {1}, FALSE),
     Do("lock", NoRequest, {1}, FALSE) >>

\* The same without the second prompt and the last test, but with see_refl (533-541).
MCLiveScript ==
  << Do("prompt", NoRequest, {}, FALSE),
     Do("cmd", Other({1}, FALSE), {1}, TRUE),
     Do("connect", NoRequest, {}, FALSE),
     Do("cmd", See({0, 1}), {1}, FALSE),
     Do("lock", NoRequest, {1}, FALSE) >>

\* ecal is (1, mask); ecal.c 192-269: the prompt, the ECAL document posted under
\* locks; crate_init and fec_test, its first commands.
MCEcal == Other({0, 1}, FALSE)
\* Main also issues see_refl and sbc_control.
MCEcalRequests == {MCEcal, See({0, 1}), Other({0}, TRUE)}
MCEcalShortScript ==
  << Do("prompt", NoRequest, {}, TRUE),
     Do("lock", NoRequest, {0, 1}, FALSE),
     Do("unlock", NoRequest, {0, 1}, FALSE),
     Do("cmd", Other({1}, FALSE), {1}, TRUE),
     Do("cmd", Other({1}, FALSE), {1}, FALSE) >>

MCSessionSymmetry == Permutations(Threads)
=============================================================================
