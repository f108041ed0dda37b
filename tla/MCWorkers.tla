------------------------------- MODULE MCWorkers -------------------------------
(* Small instances of Workers for TLC: two crates, two threads. *)
EXTENDS Workers, TLC

On(names, C) == {[name |-> n, crates |-> C] : n \in names}

Pedestals ==
  {"run_pedestals", "run_pedestals_crate", "run_pedestals_end", "run_pedestals_end_crate"}

CONSTANTS Busy, Other

\* One thread runs everything on crate 1, the scans on both crates and a test on
\* crate 2; the other runs a command on crate 2 beside it.
MCJobs ==
  (Busy :> (On(OfTheMtc, {}) \cup On(OfACrate \cup Pedestals, {1})
            \cup On({"trigger_scan", "find_noise"}, {1, 2}) \cup On({"disc_check"}, {2})))
  @@ (Other :> On({"xl3_rw"}, {2}))

\* run_pedestals_end needs another crate than the first.
MCPedestalJobs ==
  (Busy :> On({"run_pedestals_crate", "run_pedestals_end_crate"}, {2})) @@ (Other :> {})
=============================================================================
