----------------------------- MODULE MCThreadLocks -----------------------------
(* Small instances of ThreadLocks for TLC. *)
EXTENDS ThreadLocks

\* The argument pairs of real commands, (0, 1<<c), (1, 1<<c) and (2, 0); two devices
\* are enough for two threads to compete and to hold one each.
MCRequestsSmall ==
  {Other({1}, FALSE), Other({0, 1}, FALSE), Other({0}, TRUE)}
=============================================================================
